-------------------------------- MODULE PodRun --------------------------------
(***************************************************************************)
(* One task in Kubernetes: a ConfigMap, a Secret and a Job are created,    *)
(* the pod's log is followed line by line, the exit code is read, and all  *)
(* three are deleted.  A log request ends when the pod does and whenever   *)
(* the connection breaks; it is then resumed a little before the last line *)
(* delivered, and lines not later than that one are dropped.               *)
(*                                                                         *)
(* A line of the log is its timestamp in microseconds, which two lines may *)
(* share.  The cluster is external.                                        *)
(***************************************************************************)
EXTENDS Naturals, Sequences

CONSTANTS
  Drift,        \* how far rounding and clock skew move the start of a request
  Pad,          \* K8S_LOG_STREAM_RESUME_PAD_SECONDS, in the units of a stamp
  MaxResumes,   \* K8S_LOG_STREAM_MAX_RESUMES
  MaxBarren     \* K8S_LOG_STREAM_MAX_BARREN_RESUMES

CONSTANTS       \* bounds of the model, not of the program
  MaxLines,
  MaxStamp,
  MaxGlitches   \* API calls that fail in one behaviour

ASSUME PodAssumption ==
  /\ Drift \in Nat /\ Pad \in Nat /\ Drift <= Pad
  /\ MaxResumes \in Nat /\ MaxBarren \in Nat
  /\ MaxLines \in Nat /\ MaxStamp \in Nat /\ MaxGlitches \in Nat

VARIABLES
  pod,          \* what the cluster does with the Job
  log,          \* the stamps of the lines the container wrote
  things,       \* what exists in the cluster: ConfigMap, Secret, Job
  follower,     \* the coroutine and its reader thread
  next,         \* the line an open request delivers next
  fragment,     \* the buffer holds the beginning of a line
  delivered,    \* indices of the lines that were yielded
  lastStamp,    \* last_ts, 0 before the first line
  fresh,        \* lines since the last resume
  resumes,
  barren,
  exitKnown,    \* "unread", "known" or "unknown"
  cancelled,    \* the coroutine was cancelled
  glitches,
  killed        \* ghost: the Job was deleted under a container whose state
                \* could be read, and was "running"

podVars == <<pod, log, things, follower, next, fragment, delivered, lastStamp,
             fresh, resumes, barren, exitKnown, cancelled, glitches, killed>>
streamVars == <<next, fragment, delivered, lastStamp, fresh, resumes, barren>>
clusterVars == <<pod, log>>

-----------------------------------------------------------------------------
Things == {"configmap", "secret", "job"}

PodTypeOK ==
  /\ pod \in {"none", "pending", "running", "ended"}
  /\ log \in Seq(1..MaxStamp)
  /\ things \in SUBSET Things
  /\ follower \in {"preparing", "waiting", "following", "asking", "opening",
                   "collecting", "cleaning", "done"}
  /\ next \in Nat /\ fragment \in BOOLEAN
  /\ delivered \in Seq(1..MaxLines)
  /\ lastStamp \in 0..MaxStamp /\ fresh \in Nat
  /\ resumes \in 0..(MaxResumes + 1) /\ barren \in 0..(MaxBarren + 1)
  /\ exitKnown \in {"unread", "known", "unknown"}
  /\ cancelled \in BOOLEAN /\ glitches \in 0..MaxGlitches /\ killed \in BOOLEAN

PodInit ==
  /\ pod = "none" /\ log = <<>> /\ things = {}
  /\ follower = "preparing"
  /\ next = 1 /\ fragment = FALSE
  /\ delivered = <<>> /\ lastStamp = 0 /\ fresh = 0
  /\ resumes = 0 /\ barren = 0
  /\ exitKnown = "unread" /\ cancelled = FALSE
  /\ glitches = 0 /\ killed = FALSE

Glitch == glitches < MaxGlitches /\ glitches' = glitches + 1
Follows(s) == follower' = s
LastOf(s) == IF s = <<>> THEN 1 ELSE s[Len(s)]

-----------------------------------------------------------------------------
(* The cluster                                                             *)

PodStarts ==
  /\ pod = "pending"
  /\ pod' = "running"
  /\ UNCHANGED <<log, things, follower, streamVars, exitKnown, cancelled,
                 glitches, killed>>

WriteLine(t) ==
  /\ pod = "running" /\ Len(log) < MaxLines
  /\ t >= LastOf(log)
  /\ log' = Append(log, t)
  /\ UNCHANGED <<pod, things, follower, streamVars, exitKnown, cancelled,
                 glitches, killed>>

PodEnds ==
  /\ pod = "running"
  /\ pod' = "ended"
  /\ UNCHANGED <<log, things, follower, streamVars, exitKnown, cancelled,
                 glitches, killed>>

-----------------------------------------------------------------------------
(* prepare                                                                 *)

\* One after the other; a call that fails ends the task with what was created
\* left in the cluster.
CreateNext ==
  LET x == IF "configmap" \notin things THEN "configmap"
           ELSE IF "secret" \notin things THEN "secret" ELSE "job"
  IN
  /\ follower = "preparing"
  /\ \/ /\ things' = things \cup {x}
        /\ pod' = IF x = "job" THEN "pending" ELSE pod
        /\ Follows(IF x = "job" THEN "waiting" ELSE "preparing")
        /\ UNCHANGED glitches
     \/ Glitch /\ Follows("done") /\ UNCHANGED <<pod, things>>
  /\ UNCHANGED <<log, streamVars, exitKnown, cancelled, killed>>

\* _async_wait_for_pod: the pod runs or has ended; else the log is given up.
PodFound ==
  /\ follower = "waiting"
  /\ \/ pod \in {"running", "ended"} /\ Follows("opening") /\ UNCHANGED glitches
     \/ Glitch /\ Follows("collecting")
  /\ UNCHANGED <<clusterVars, things, streamVars, exitKnown, cancelled, killed>>

-----------------------------------------------------------------------------
(* _iter_pod_log_lines                                                     *)

\* Wrong: the window begins at the last line.
UnpaddedWindow(d) == lastStamp + d
\* since_seconds counts from now on another clock, and is rounded.
Window(d) == IF lastStamp + d > Pad THEN lastStamp + d - Pad ELSE 0

\* The first line in the window, all of it before any line was delivered.
FirstLine(from) ==
  LET in == {i \in 1..Len(log) : log[i] >= from} IN
  IF lastStamp = 0 THEN 1
  ELSE IF in = {} THEN Len(log) + 1
  ELSE CHOOSE i \in in : \A j \in in : i <= j

OpenStream(d) ==
  /\ follower = "opening"
  /\ next' = FirstLine(Window(d))
  /\ fresh' = 0
  /\ Follows("following")
  /\ UNCHANGED <<clusterVars, things, fragment, delivered, lastStamp, resumes,
                 barren, exitKnown, cancelled, glitches, killed>>

\* The request itself is refused: the reader ends with an error.
OpenRefused ==
  /\ follower = "opening" /\ Glitch
  /\ Follows("collecting")
  /\ UNCHANGED <<clusterVars, things, streamVars, exitKnown, cancelled, killed>>

\* Wrong: only lines before the last one are dropped.
LaterOrEqual(t) == t >= lastStamp
Later(t) == t > lastStamp

\* A chunk that ends within a line.
PartOfLine ==
  /\ follower = "following" /\ next <= Len(log) /\ ~fragment
  /\ fragment' = TRUE
  /\ UNCHANGED <<clusterVars, things, follower, next, delivered, lastStamp,
                 fresh, resumes, barren, exitKnown, cancelled, glitches, killed>>

\* A line is complete: yielded unless it was before.
ReceiveLine ==
  /\ follower = "following" /\ next <= Len(log)
  /\ next' = next + 1 /\ fragment' = FALSE
  /\ IF Later(log[next])
       THEN /\ delivered' = Append(delivered, next)
            /\ lastStamp' = log[next] /\ fresh' = fresh + 1
       ELSE UNCHANGED <<delivered, lastStamp, fresh>>
  /\ UNCHANGED <<clusterVars, things, follower, resumes, barren, exitKnown,
                 cancelled, glitches, killed>>

\* The request ends with the pod, or for no reason.
StreamCloses ==
  /\ follower = "following"
  /\ \/ pod = "ended" /\ next > Len(log) /\ UNCHANGED glitches
     \/ (pod # "ended" \/ next <= Len(log)) /\ Glitch
  /\ Follows("asking")
  /\ UNCHANGED <<clusterVars, things, streamVars, exitKnown, cancelled, killed>>

\* The pod has ended, or cannot be read: what is left in the buffer is a line.
StreamIsOver ==
  /\ follower = "asking"
  /\ \/ pod = "ended" /\ UNCHANGED glitches
     \/ pod # "ended" /\ Glitch
  /\ fragment' = FALSE
  /\ delivered' = IF fragment /\ Later(log[next]) THEN Append(delivered, next)
                                                 ELSE delivered
  /\ Follows("collecting")
  /\ UNCHANGED <<clusterVars, things, next, lastStamp, fresh, resumes, barren,
                 exitKnown, cancelled, killed>>

\* The pod is at work: the stream is resumed, a fragment forgotten, unless it
\* broke too often or too often without a line.
Resume ==
  LET b == IF fresh > 0 THEN 0 ELSE barren + 1 IN
  /\ follower = "asking" /\ pod = "running"
  /\ barren' = b
  /\ \/ b > MaxBarren /\ Follows("collecting") /\ UNCHANGED <<resumes, fragment>>
     \/ /\ b <= MaxBarren
        /\ resumes' = resumes + 1
        /\ IF resumes' > MaxResumes
             THEN Follows("collecting") /\ UNCHANGED fragment
             ELSE Follows("opening") /\ fragment' = FALSE
  /\ UNCHANGED <<clusterVars, things, next, delivered, lastStamp, fresh,
                 exitKnown, cancelled, glitches, killed>>

-----------------------------------------------------------------------------
(* result and cleanup                                                      *)

\* The exit code is that of a terminated container; five attempts may all fail.
Collect ==
  /\ follower = "collecting"
  /\ \/ pod = "ended" /\ exitKnown' = "known" /\ UNCHANGED glitches
     \/ pod # "ended" /\ exitKnown' = "unknown" /\ UNCHANGED glitches
     \/ pod = "ended" /\ exitKnown' = "unknown" /\ Glitch
  /\ Follows("cleaning")
  /\ UNCHANGED <<clusterVars, things, streamVars, cancelled, killed>>

\* The server stops, or the coroutine fails, while the handle is in use.
CancelRun ==
  /\ follower \in {"waiting", "opening", "following", "asking", "collecting"}
  /\ ~cancelled
  /\ cancelled' = TRUE
  /\ Follows("cleaning")
  /\ UNCHANGED <<clusterVars, things, streamVars, exitKnown, glitches, killed>>

\* Wrong: a Job is deleted whatever its container does.
NeverWithheld == FALSE
\* An exit code that was looked for and not found, and a running container.
Withheld == exitKnown = "unknown" /\ pod = "running"

\* Whether the container runs may be unreadable, which counts as not running;
\* each deletion may fail on its own.
Clean ==
  /\ follower = "cleaning"
  /\ Follows("done")
  /\ \/ Withheld /\ UNCHANGED <<pod, things, glitches, killed>>
     \/ /\ ~Withheld
        /\ things' = {} /\ killed' = (pod = "running")
        /\ pod' = IF pod = "none" THEN pod ELSE "ended"
        /\ UNCHANGED glitches
     \/ /\ Withheld /\ Glitch
        /\ things' = {} /\ pod' = "ended" /\ UNCHANGED killed
     \/ /\ ~Withheld /\ Glitch
        /\ \E x \in things : things' = {x}
        /\ UNCHANGED <<pod, killed>>
  /\ UNCHANGED <<log, streamVars, exitKnown, cancelled>>

PodNext ==
  \/ PodStarts \/ PodEnds
  \/ \E t \in 1..MaxStamp : WriteLine(t)
  \/ CreateNext \/ PodFound
  \/ \E d \in 0..Drift : OpenStream(d)
  \/ OpenRefused \/ PartOfLine \/ ReceiveLine \/ StreamCloses
  \/ StreamIsOver \/ Resume
  \/ Collect \/ CancelRun \/ Clean

PodSpec == PodInit /\ [][PodNext]_podVars

-----------------------------------------------------------------------------
(* Properties                                                              *)

\* Through every break and overlap the lines come in order and once, and up to
\* the last one that came nothing is missing but lines that share their stamp
\* with the line before.
OnlyTiesAreLost ==
  LET upTo == IF delivered = <<>> THEN 0 ELSE delivered[Len(delivered)] IN
  /\ \A i, j \in 1..Len(delivered) : i < j => delivered[i] < delivered[j]
  /\ \A k \in 1..upTo :
       \/ \E i \in 1..Len(delivered) : delivered[i] = k
       \/ k > 1 /\ log[k] = log[k - 1]

\* However the log and the exit code were lost, a container that can be seen to
\* work keeps its Job, unless the coroutine was cancelled.
WorkIsSpared == killed => cancelled

\* Following a pod costs neither log lines nor the pod itself, however often the
\* stream breaks and whatever cannot be read at its end.
FollowingIsSafe == OnlyTiesAreLost /\ WorkIsSpared
=============================================================================
