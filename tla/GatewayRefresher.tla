--------------------------- MODULE GatewayRefresher ---------------------------
(***************************************************************************)
(* The sidecar that keeps the workspace gateway's rclone authenticated and *)
(* watches its write-back.  It runs one cycle after the other: refresh the *)
(* access token when it is due, scan the cache for dirty entries, judge    *)
(* them by their age and report.  Between two cycles rclone (external)     *)
(* takes writes, uploads them, rightly or not, or stalls.                  *)
(***************************************************************************)
EXTENDS Naturals, FiniteSets

CONSTANTS
  Paths,
  Sizes,            \* lengths a file can have
  RefreshInterval,  \* REFRESH_INTERVAL_SECONDS, in cycles
  TokenLife,        \* cycles an access token lives
  Grace, Overdue, MaxDirtyAge,  \* ages of a dirty entry, in cycles
  MaxBlips          \* bound: calls and scans that fail, files that change late

ASSUME RefresherAssumption ==
  /\ RefreshInterval \in Nat \ {0} /\ TokenLife \in Nat
  /\ RefreshInterval < TokenLife
  /\ Sizes \subseteq Nat \ {0}
  /\ Grace \in Nat /\ Overdue \in Nat /\ MaxDirtyAge \in Nat
  /\ Grace < Overdue /\ MaxBlips \in Nat

VARIABLES
  tokenAge,    \* of the token rclone has, in cycles
  lastRefresh, \* cycles since the last successful refresh; Due asks for one
  tried,       \* the refresh of this cycle
  kind,        \* what the cache has of a file
  size,        \* the length of its data
  object,      \* the length of what was uploaded
  age,         \* _first_seen_dirty: cycles since, or Untracked
  queuedOnce,  \* _ever_queued
  sample,      \* _last_data_size and _size_stable
  mismatch,    \* _size_mismatches
  state,       \* write_back_state
  blips,
  stalled,     \* ghost: cycles since a scan first saw the file in this stretch of
               \* being dirty
  torn         \* ghost: files whose upload came out wrong, unknown to the monitor
               \* ("fresh") or owed by it ("owed")

refresherVars == <<tokenAge, lastRefresh, tried, kind, size, object, age,
                   queuedOnce, sample, mismatch, state, blips, stalled, torn>>

-----------------------------------------------------------------------------
AgeCap    == (IF MaxDirtyAge > Overdue THEN MaxDirtyAge ELSE Overdue) + 1
Untracked == AgeCap + 1
Due       == RefreshInterval
NoSize    == 0

RefresherTypeOK ==
  /\ tokenAge \in 0..TokenLife /\ lastRefresh \in 0..Due
  /\ tried \in {"no", "ok", "failed"}
  /\ kind \in [Paths -> {"clean", "dirty", "orphan"}]
  /\ size \in [Paths -> Sizes] /\ object \in [Paths -> Sizes]
  /\ age \in [Paths -> 0..AgeCap \cup {Untracked}]
  /\ queuedOnce \in SUBSET Paths
  /\ sample \in [Paths -> [size: Sizes \cup {NoSize}, stable: BOOLEAN]]
  /\ mismatch \in SUBSET Paths
  /\ state \in {"starting", "ok", "degraded"}
  /\ blips \in 0..MaxBlips
  /\ stalled \in [Paths -> 0..AgeCap]
  /\ torn \in [Paths -> {"no", "fresh", "owed"}]

NoSample == [size |-> NoSize, stable |-> FALSE]

RefresherInit ==
  /\ tokenAge = 0 /\ lastRefresh = Due /\ tried = "no"
  /\ kind = [p \in Paths |-> "clean"]
  /\ size \in [Paths -> Sizes] /\ object = size
  /\ age = [p \in Paths |-> Untracked]
  /\ queuedOnce = {} /\ sample = [p \in Paths |-> NoSample]
  /\ mismatch = {} /\ state = "starting"
  /\ blips = 0
  /\ stalled = [p \in Paths |-> 0] /\ torn = [p \in Paths |-> "no"]

Blip == blips < MaxBlips /\ blips' = blips + 1
monitorVars == <<age, queuedOnce, sample, mismatch, state>>
tokenVars   == <<tokenAge, lastRefresh, tried>>

-----------------------------------------------------------------------------
(* rclone (external)                                                       *)

\* A task writes: a clean file becomes dirty, a dirty one changes.
Touch(p) ==
  /\ kind[p] # "orphan"
  /\ \/ kind[p] = "clean" /\ UNCHANGED blips
     \/ kind[p] = "dirty" /\ Blip
  /\ kind' = [kind EXCEPT ![p] = "dirty"]
  /\ \E n \in Sizes : size' = [size EXCEPT ![p] = n]
  /\ torn' = IF torn[p] = "fresh" THEN [torn EXCEPT ![p] = "no"] ELSE torn
  /\ UNCHANGED <<object, stalled, tokenVars, monitorVars>>

LoseData(p) ==
  /\ kind[p] = "dirty" /\ Blip
  /\ kind' = [kind EXCEPT ![p] = "orphan"]
  /\ UNCHANGED <<size, object, stalled, torn, tokenVars, monitorVars>>

\* What is uploaded has the length of the data, or not.
Uploaded(p) ==
  /\ kind[p] = "dirty"
  /\ kind' = [kind EXCEPT ![p] = "clean"]
  /\ \E n \in Sizes :
       /\ object' = [object EXCEPT ![p] = n]
       /\ IF n = size[p] THEN UNCHANGED blips ELSE Blip
       /\ torn' = IF /\ n # size[p] /\ age[p] # Untracked
                     /\ sample[p] = [size |-> size[p], stable |-> TRUE]
                    THEN [torn EXCEPT ![p] = "fresh"] ELSE torn
  /\ stalled' = [stalled EXCEPT ![p] = 0]
  /\ UNCHANGED <<size, tokenVars, monitorVars>>

-----------------------------------------------------------------------------
(* refresher.py                                                            *)

\* Wrong: a failed attempt counts as the last refresh.
AfterFailureWait == 0
\* Only a success restarts the interval, so a failure is retried in the next
\* cycle.
AfterFailure == Due

\* do_refresh: the errand server, reading rclone's token and pushing the merged
\* one may each fail; a token without refresh_token is not pushed.
Refresh ==
  LET older == IF tokenAge < TokenLife THEN tokenAge + 1 ELSE tokenAge IN
  IF lastRefresh < Due
    THEN /\ tried' = "no" /\ tokenAge' = older /\ lastRefresh' = lastRefresh + 1
         /\ UNCHANGED blips
    ELSE \/ tried' = "ok" /\ tokenAge' = 0 /\ lastRefresh' = 0 /\ UNCHANGED blips
         \/ tried' = "failed" /\ tokenAge' = older /\ lastRefresh' = AfterFailure
            /\ Blip

Aged(p) == IF age[p] \in {Untracked, AgeCap} THEN age[p] ELSE age[p] + 1

\* Wrong: the lengths have been dropped before the comparison.
VerifiedTooLate(_readable) == [good |-> {}, bad |-> {}]
\* _verify_completed_upload, of the files that stopped being dirty: only a length
\* seen twice is compared, and an object that cannot be read proves nothing.
Verified(readable) ==
  LET done == {p \in Paths : age[p] # Untracked /\ kind[p] = "clean"
                             /\ sample[p].stable /\ p \in readable}
  IN [good |-> {p \in done : object[p] = sample[p].size},
      bad  |-> {p \in done : object[p] # sample[p].size}]

\* evaluate.
Stuck(p, a, queue, ever) ==
  /\ kind[p] # "clean" /\ a >= Grace
  /\ \/ kind[p] = "orphan"
     \/ (a >= MaxDirtyAge /\ p \notin ever)
     \/ queue = "idle"
     \/ a >= Overdue

Evaluate(queue, errored, readable) ==
  LET current == {p \in Paths : kind[p] # "clean"}
      found   == Verified(readable)
      newAge  == [p \in Paths |-> IF p \notin current THEN Untracked
                                  ELSE IF age[p] = Untracked THEN 0 ELSE Aged(p)]
      ever    == (queuedOnce \cap current) \cup
                 (IF queue = "busy" THEN current ELSE {})
  IN /\ age' = newAge /\ queuedOnce' = ever
     /\ sample' = [p \in Paths |->
          IF p \notin current THEN NoSample
          ELSE IF kind[p] = "orphan" THEN sample[p]
          ELSE [size |-> size[p], stable |-> sample[p].size = size[p]]]
     /\ mismatch' = (mismatch \ found.good) \cup found.bad
     /\ state' = IF \/ errored \/ mismatch' # {}
                    \/ \E p \in current : Stuck(p, newAge[p], queue, ever)
                   THEN "degraded" ELSE "ok"
     /\ torn' = [p \in Paths |->
          IF torn[p] = "fresh" THEN IF p \in readable THEN "owed" ELSE "no"
          ELSE IF p \in found.good THEN "no" ELSE torn[p]]

\* Wrong: a scan that failed found nothing.
UnavailableIsEmpty ==
  /\ age' = [p \in Paths |-> Untracked] /\ queuedOnce' = {}
  /\ sample' = [p \in Paths |-> NoSample] /\ state' = "degraded"
  /\ UNCHANGED <<mismatch, torn>>
\* scan_unavailable: degraded, and the entries go on ageing.
Unavailable ==
  /\ state' = "degraded" /\ age' = [p \in Paths |-> Aged(p)]
  /\ UNCHANGED <<queuedOnce, sample, mismatch, torn>>

\* A cycle fails in one place or none: the refresh, the scan or the objects'
\* lengths.  The queue is busy, idle or, when rclone does not answer, unknown.
Cycle ==
  /\ Refresh
  /\ \/ \E queue \in {"busy", "idle", "unknown"}, errored \in BOOLEAN :
          Evaluate(queue, errored /\ queue # "unknown", Paths)
     \/ Evaluate("idle", FALSE, {})
     \/ Unavailable
  /\ stalled' = [p \in Paths |->
       IF \/ kind[p] = "clean" \/ stalled[p] = AgeCap
          \/ (age[p] = Untracked /\ age'[p] = Untracked)
         THEN stalled[p] ELSE stalled[p] + 1]
  /\ UNCHANGED <<kind, size, object>>

RefresherNext ==
  \/ \E p \in Paths : Touch(p) \/ LoseData(p) \/ Uploaded(p)
  \/ Cycle

RefresherSpec == RefresherInit /\ [][RefresherNext]_refresherVars

-----------------------------------------------------------------------------
(* Properties                                                              *)

\* While the token rclone has is out of date, every cycle has just tried to
\* replace it and failed: no failure waits for the next interval.
ExpiredIsRetried == tokenAge = TokenLife => tried = "failed"

\* A file that stays dirty is reported once it is overdue, whatever the queue
\* does with others and however many scans fail in between.
NoSilentStall ==
  \A p \in Paths : stalled[p] > Overdue => state = "degraded"

\* An upload that came out shorter or longer than a settled file is reported
\* until a later upload of the file verifies.
TornUploadReported ==
  \A p \in Paths : torn[p] = "owed" => p \in mismatch /\ state = "degraded"

\* The health file shows both kinds of trouble for as long as they last, be it
\* one file or several, whatever scans and probes fail in between.
TroubleIsReported == NoSilentStall /\ TornUploadReported

\* The watch of the gateway is neither late nor silent: an outdated token is
\* being retried, and trouble with the cache shows while it lasts.
WatchIsHonest == ExpiredIsRetried /\ TroubleIsReported
=============================================================================
