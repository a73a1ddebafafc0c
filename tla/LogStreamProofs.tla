--------------------------- MODULE LogStreamProofs ---------------------------
(***************************************************************************)
(* Proofs about LogStream, for every buffer size, number of lines,         *)
(* attempts and failures.                                                  *)
(***************************************************************************)
EXTENDS LogStream, TLAPS

\* A listener who has not been told of the end is owed the line that is being
\* forwarded: it is on its way, shown, or was published before it listened.
Owed ==
  writer = "forwarding" /\ Listening /\ ~ending
    => last \in inbox \cup missed \/ (viewer = "live" /\ last \in shown)

\* The inductive invariant.
LogsInv == LogsTypeOK /\ Owed /\ ReplayMeetsLive

\* Trimming only drops entries.
LEMMA TrimDrops == ASSUME NEW S PROVE Trim(S) \subseteq S
  BY DEF Trim

\* The variables in named tuples.
LEMMA Unfold ==
  ASSUME UNCHANGED logVars
  PROVE  /\ UNCHANGED <<running, starts, writer, last, buffer, unsaid>>
         /\ UNCHANGED <<viewer, inbox, ending, shown, missed, faults>>
  BY DEF logVars, source, client

LEMMA InitInv == LogInit => LogsInv
  <1> SUFFICES ASSUME LogInit PROVE LogsInv
    OBVIOUS
  <1>1. 0 \in 0..MaxStarts /\ 0 \in 0..MaxLines /\ 0 \in 0..MaxFaults
    BY BufferAssumption
  <1>2. LogsTypeOK
    BY <1>1, Zenon DEF LogInit, LogsTypeOK, Writer, Viewer
  <1>3. Owed /\ ReplayMeetsLive
    BY DEF LogInit, Owed, ReplayMeetsLive
  <1>4. QED
    BY <1>2, <1>3 DEF LogsInv

\* Every step of the forwarding coroutine, and of what befalls it.
LEMMA ForwardingInv == LogsInv /\ Forwarding => LogsInv'
  <1> SUFFICES ASSUME LogsInv, Forwarding PROVE LogsInv'
    OBVIOUS
  <1> USE BufferAssumption
          DEF LogsInv, LogsTypeOK, Owed, ReplayMeetsLive, Listening, LogLines,
              Writer, Viewer, Fault
  <1>1. CASE StartStream
    BY <1>1 DEF StartStream, client
  <1>2. CASE Forward
    <2>1. last + 1 \in 1..MaxLines
      BY <1>2 DEF Forward
    <2>2. QED
      BY <1>2, <2>1 DEF Forward, PublishLine
  <1>3. CASE ForwardFails
    BY <1>3 DEF ForwardFails, client
  <1>4. CASE Push
    <2>1. CASE buffer' = Trim(buffer \cup {last}) /\ UNCHANGED faults
      <3>1. buffer' \subseteq buffer \cup {last}
        BY <2>1, TrimDrops
      <3>2. QED
        BY <1>4, <3>1, <2>1 DEF Push, client
    <2>2. CASE Fault("push") /\ UNCHANGED buffer
      BY <1>4, <2>2 DEF Push, client
    <2>3. QED
      BY <1>4, <2>1, <2>2 DEF Push
  <1>5. CASE EndStream
    <2>1. CASE PublishEnd /\ UNCHANGED <<unsaid, faults>>
      BY <1>5, <2>1 DEF EndStream, PublishEnd
    <2>2. CASE Fault("sentinel") /\ unsaid' = TRUE /\ UNCHANGED client
      BY <1>5, <2>2 DEF EndStream, client
    <2>3. QED
      BY <1>5, <2>1, <2>2 DEF EndStream
  <1>6. CASE DeleteBuffer
    <2>1. CASE buffer' = {} /\ UNCHANGED faults
      BY <1>6, <2>1 DEF DeleteBuffer, client
    <2>2. CASE Fault("delete") /\ UNCHANGED buffer
      BY <1>6, <2>2 DEF DeleteBuffer, client
    <2>3. QED
      BY <1>6, <2>1, <2>2 DEF DeleteBuffer
  <1>7. CASE MoveRow
    BY <1>7 DEF MoveRow, client
  <1>8. CASE Crash
    BY <1>8 DEF Crash, client
  <1>9. CASE Recover
    BY <1>9 DEF Recover, client
  <1>10. CASE Expire
    BY <1>10 DEF Expire, client
  <1>11. CASE Abort
    BY <1>11 DEF Abort, client
  <1>12. QED
    BY <1>1, <1>2, <1>3, <1>4, <1>5, <1>6, <1>7, <1>8, <1>9, <1>10, <1>11
    DEF Forwarding

\* Every step of the viewer.
LEMMA ViewingInv == LogsInv /\ Viewing => LogsInv'
  <1> SUFFICES ASSUME LogsInv, Viewing PROVE LogsInv'
    OBVIOUS
  <1> USE BufferAssumption
          DEF LogsInv, LogsTypeOK, Owed, ReplayMeetsLive, Listening, LogLines,
              Writer, Viewer, Fault
  <1>1. CASE Connect
    BY <1>1 DEF Connect, source
  <1>2. CASE Subscribe
    BY <1>2 DEF Subscribe, source
  <1>3. CASE Replay
    <2>1. CASE shown' = buffer /\ UNCHANGED <<missed, faults>>
      BY <1>3, <2>1 DEF Replay, source
    <2>2. CASE Fault("lrange") /\ missed' = missed \cup buffer /\ UNCHANGED shown
      BY <1>3, <2>2 DEF Replay, source
    <2>3. QED
      BY <1>3, <2>1, <2>2 DEF Replay
  <1>4. CASE Deliver
    BY <1>4 DEF Deliver, source
  <1>5. CASE Leave
    BY <1>5 DEF Leave, source
  <1>6. QED
    BY <1>1, <1>2, <1>3, <1>4, <1>5 DEF Viewing

\* The invariant holds in every reachable state.
THEOREM Invariant == LogSpec => []LogsInv
  <1>1. LogsInv /\ [LogNext]_logVars => LogsInv'
    <2> SUFFICES ASSUME LogsInv, [LogNext]_logVars PROVE LogsInv'
      OBVIOUS
    <2>1. CASE LogNext
      BY <2>1, ForwardingInv, ViewingInv DEF LogNext
    <2>2. CASE UNCHANGED logVars
      BY <2>2, Unfold
      DEF LogsInv, LogsTypeOK, Owed, ReplayMeetsLive, Listening
    <2>3. QED
      BY <2>1, <2>2
  <1>2. QED
    BY <1>1, InitInv, PTL DEF LogSpec

\* Every variable keeps its type: a writer always has a running row, and a line
\* that is being forwarded was published.
THEOREM LogsTyped == LogSpec => []LogsTypeOK
  <1>1. LogsInv => LogsTypeOK
    BY DEF LogsInv
  <1>2. QED
    BY <1>1, Invariant, PTL

\* The replay and the channel leave no hole between them (sse_task_logs
\* subscribes before it reads the buffer), whatever is trimmed, lost or crashes.
THEOREM NoHole == LogSpec => []ReplayMeetsLive
  <1>1. LogsInv => ReplayMeetsLive
    BY DEF LogsInv
  <1>2. QED
    BY <1>1, Invariant, PTL
=============================================================================
