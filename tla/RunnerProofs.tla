---------------------------- MODULE RunnerProofs ----------------------------
(***************************************************************************)
(* Proofs about what runs a task: the workspace gateway, the context, the  *)
(* loop and the tools of the runner, the callback of its result and its pod;*)
(* and about the composition of these and the other services.              *)
(***************************************************************************)
EXTENDS MCServices, ServicesProofs, SequenceTheorems, FiniteSetTheorems,
        WellFoundedInduction, TLAPS

-----------------------------------------------------------------------------
(* The repair of the gateway's cache                                       *)

\* Data are contents that were written; an object that is none is not data.
DataWritten == \A f \in Files : data[f] # Spoiled

\* Work that is nowhere else is in a dirty entry, which rclone serve keeps.
WorkIsDirty ==
  \A f \in Files \ stranded :
    unsent[f] # Gone /\ unsent[f] \notin aside[f] => Dirty(f)

\* The data of the entry that is being moved is out of the way, or could not be
\* moved.
MovedFirst ==
  boot = "moving" => entry \in Files /\ (entry \in stranded \/ data[entry] = Gone)

Faulted(f) == Orphaned(f) \/ Inconsistent(f)

\* A boot that sees and can write everything has the faulted entries before it,
\* and none is left when the gateway serves.
FaultedAreDue ==
  ~blind => /\ boot \in {"reconciling", "moving"} => \A f \in Files : Faulted(f) => f \in todo
            /\ boot = "serving" => \A f \in Files : ~Faulted(f)

\* The object of a trusted entry is the one it was derived from.
TrustIsRight ==
  \A f \in trusted : meta[f] # "none" => cloud[f] = print[f]

\* The inductive invariant.
ReconcileInv ==
  /\ ReconcileTypeOK /\ DataWritten /\ WorkIsDirty /\ MovedFirst
  /\ FaultedAreDue /\ TrustIsRight
  /\ WorkKept /\ NothingSpoiled

LEMMA ReconcileInitInv == ReconcileInit => ReconcileInv
  <1> SUFFICES ASSUME ReconcileInit PROVE ReconcileInv
    OBVIOUS
  <1> USE ReconcileAssumption DEF ReconcileInit, Gone, Spoiled, NoFile
  <1>1. ReconcileTypeOK
    <2>1. blind \in BOOLEAN
      BY Zenon
    <2>2. 0 \in Contents
      BY DEF Contents
    <2>3. QED
      BY <2>1, <2>2 DEF ReconcileTypeOK
  <1>2. DataWritten
    BY DEF DataWritten
  <1>3. WorkIsDirty /\ WorkKept
    BY DEF WorkIsDirty, WorkKept
  <1>4. MovedFirst
    BY DEF MovedFirst
  <1>5. FaultedAreDue
    BY DEF FaultedAreDue, Faulted, Orphaned, Inconsistent, Dirty
  <1>6. TrustIsRight /\ NothingSpoiled
    BY DEF TrustIsRight, NothingSpoiled
  <1>7. QED
    BY <1>1, <1>2, <1>3, <1>4, <1>5, <1>6 DEF ReconcileInv

\* What rclone, a task and a second writer do, and a crash.
LEMMA OutsideInv ==
  ASSUME ReconcileInv,
         \/ \E f \in Files : WriteFile(f) \/ Upload(f) \/ CloudEdit(f)
         \/ CrashGateway
  PROVE  ReconcileInv'
  <1> USE ReconcileAssumption
          DEF ReconcileInv, ReconcileTypeOK, DataWritten, WorkIsDirty,
              MovedFirst, FaultedAreDue, TrustIsRight, WorkKept, NothingSpoiled,
              Faulted, Orphaned, Inconsistent, Dirty, Gone, Spoiled, NoFile,
              Contents, Put
  <1>1. ASSUME NEW f \in Files, WriteFile(f) PROVE ReconcileInv'
    BY <1>1 DEF WriteFile
  <1>2. ASSUME NEW f \in Files, Upload(f) PROVE ReconcileInv'
    BY <1>2 DEF Upload
  <1>3. ASSUME NEW f \in Files, CloudEdit(f) PROVE ReconcileInv'
    BY <1>3 DEF CloudEdit
  <1>4. CASE CrashGateway
    BY <1>4 DEF CrashGateway, Fails
  <1>5. QED
    BY <1>1, <1>2, <1>3, <1>4

\* An object found to be the fingerprint's, by a listing that is right and a
\* depth that is not wrong, is the one that is there.
LEMMA RepairsTruly ==
  ASSUME ReconcileTypeOK, NEW f \in Files, Repairs(f), Latched(f) # "wrong",
         index[f] \in {cloud[f], Unknown}
  PROVE  cloud[f] = print[f]
  <1> USE ReconcileAssumption
          DEF ReconcileTypeOK, Contents, Unknown, Alien, Gone, FailedIndex
  <1>1. print[f] \in 0..(MaxVersions + 1) /\ cloud[f] \in 0..(MaxVersions + 1)
    OBVIOUS
  <1>2. Found(f) = print[f]
    BY DEF Repairs
  <1>3. depth # "wrong"
    BY DEF Latched
  <1>4. CASE depth = "right" \/ index = FailedIndex
    BY <1>1, <1>2, <1>4 DEF Found
  <1>5. CASE depth = "unknown" /\ index # FailedIndex
    BY <1>1, <1>2, <1>5 DEF Found
  <1>6. QED
    BY <1>3, <1>4, <1>5

\* The steps of a boot.
LEMMA BootInv ==
  ASSUME ReconcileInv,
         \/ \E f \in Files : ClearOrphan(f) \/ RepairEntry(f) \/ MoveFirst(f)
         \/ StartGateway \/ ScanCache \/ LoadIndex \/ MoveSecond \/ Serve
  PROVE  ReconcileInv'
  <1> USE ReconcileAssumption
          DEF ReconcileInv, ReconcileTypeOK, DataWritten, WorkIsDirty,
              MovedFirst, FaultedAreDue, TrustIsRight, WorkKept, NothingSpoiled,
              Faulted, Orphaned, Inconsistent, Dirty, Gone, Spoiled, NoFile,
              Contents, Put
  <1>1. ASSUME NEW f \in Files, ClearOrphan(f) PROVE ReconcileInv'
    <2>1. ReconcileTypeOK'
      <3>1. blind' = TRUE \/ blind' = blind
        BY <1>1, Zenon DEF ClearOrphan
      <3>2. blind' \in BOOLEAN
        BY <3>1, Zenon
      <3>3. QED
        BY <1>1, <3>2 DEF ClearOrphan, Fails
    <2>2. DataWritten' /\ WorkIsDirty' /\ MovedFirst' /\ WorkKept'
      BY <1>1 DEF ClearOrphan, Fails
    <2>3. FaultedAreDue'
      BY <1>1 DEF ClearOrphan, Fails
    <2>4. TrustIsRight' /\ NothingSpoiled'
      BY <1>1 DEF ClearOrphan, Fails
    <2>5. QED
      BY <2>1, <2>2, <2>3, <2>4
  <1>2. ASSUME NEW f \in Files, RepairEntry(f) PROVE ReconcileInv'
    <2>1. Latched(f) \in {"unknown", "right", "wrong"}
      BY DEF Latched
    <2>2. /\ UNCHANGED <<entry, data, print, cloud, aside, index, version, unsent, stranded>>
          /\ meta' = [meta EXCEPT ![f] = "whole"] \/ meta' = meta
          /\ f \in todo /\ Inconsistent(f) /\ depth' = Latched(f)
      BY <1>2 DEF RepairEntry
    <2>3. TrustIsRight'
      <3>1. CASE trusted' = trusted
        BY <2>2, <3>1
      <3>2. CASE trusted' # trusted
        <4>1. /\ trusted' = trusted \cup {f} /\ Repairs(f)
              /\ Latched(f) # "wrong" /\ index[f] \in {cloud[f], Unknown}
          BY <1>2, <3>2 DEF RepairEntry
        <4>2. cloud[f] = print[f]
          BY <4>1, RepairsTruly
        <4>3. QED
          BY <2>2, <4>1, <4>2
      <3>3. QED
        BY <3>1, <3>2
    <2>4. ReconcileTypeOK'
      <3>1. blind' = TRUE \/ blind' = blind
        BY <1>2, Zenon DEF RepairEntry
      <3>2. blind' \in BOOLEAN
        BY <3>1, Zenon
      <3>3. QED
        BY <1>2, <2>1, <2>2, <3>2 DEF RepairEntry, Fails
    <2>5. WorkIsDirty' /\ MovedFirst' /\ FaultedAreDue'
      BY <1>2, <2>2 DEF RepairEntry, Fails
    <2>6. DataWritten' /\ WorkKept' /\ NothingSpoiled'
      BY <1>2, <2>2 DEF RepairEntry, Fails
    <2>7. QED
      BY <2>3, <2>4, <2>5, <2>6
  <1>3. ASSUME NEW f \in Files, MoveFirst(f) PROVE ReconcileInv'
    <2>1. Latched(f) \in {"unknown", "right", "wrong"}
      BY DEF Latched
    <2>2. QED
      BY <1>3, <2>1 DEF MoveFirst, MovesData, Fails
  <1>4. CASE StartGateway
    BY <1>4 DEF StartGateway
  <1>5. CASE ScanCache
    <2>1. ReconcileTypeOK'
      <3>1. blind' = TRUE \/ blind' = blind
        BY <1>5, Zenon DEF ScanCache
      <3>2. blind' \in BOOLEAN
        BY <3>1, Zenon
      <3>3. QED
        BY <1>5, <3>2 DEF ScanCache, Fails
    <2>2. DataWritten' /\ WorkIsDirty' /\ MovedFirst' /\ WorkKept'
      BY <1>5 DEF ScanCache, Fails
    <2>3. FaultedAreDue'
      BY <1>5 DEF ScanCache, Fails
    <2>4. TrustIsRight' /\ NothingSpoiled'
      BY <1>5 DEF ScanCache, Fails
    <2>5. QED
      BY <2>1, <2>2, <2>3, <2>4
  <1>6. CASE LoadIndex
    BY <1>6 DEF LoadIndex, Fails
  <1>7. CASE MoveSecond
    <2>1. ReconcileTypeOK'
      <3>1. blind' = TRUE \/ blind' = blind
        BY <1>7, Zenon DEF MoveSecond
      <3>2. blind' \in BOOLEAN
        BY <3>1, Zenon
      <3>3. QED
        BY <1>7, <3>2 DEF MoveSecond, Fails
    <2>2. DataWritten' /\ WorkIsDirty' /\ MovedFirst' /\ WorkKept'
      BY <1>7 DEF MoveSecond, Fails
    <2>3. FaultedAreDue'
      BY <1>7 DEF MoveSecond, Fails
    <2>4. TrustIsRight' /\ NothingSpoiled'
      BY <1>7 DEF MoveSecond, Fails
    <2>5. QED
      BY <2>1, <2>2, <2>3, <2>4
  <1>8. CASE Serve
    BY <1>8 DEF Serve
  <1>9. QED
    BY <1>1, <1>2, <1>3, <1>4, <1>5, <1>6, <1>7, <1>8

LEMMA ReconcileStepInv == ReconcileInv /\ [ReconcileNext]_reconcileVars => ReconcileInv'
  <1> SUFFICES ASSUME ReconcileInv, [ReconcileNext]_reconcileVars
               PROVE  ReconcileInv'
    OBVIOUS
  <1>1. CASE UNCHANGED reconcileVars
    BY <1>1
       DEF reconcileVars, ReconcileInv, ReconcileTypeOK, DataWritten, WorkIsDirty,
           MovedFirst, FaultedAreDue, TrustIsRight, WorkKept, NothingSpoiled,
           Faulted, Orphaned, Inconsistent, Dirty
  <1>2. CASE ReconcileNext
    BY <1>2, OutsideInv, BootInv DEF ReconcileNext
  <1>3. QED
    BY <1>1, <1>2

LEMMA ReconcileInvariant == ReconcileSpec => []ReconcileInv
  BY ReconcileInitInv, ReconcileStepInv, PTL DEF ReconcileSpec

\* Type correctness of the gateway's cache and of its reconciliation.
THEOREM ReconcileTypes == ReconcileSpec => []ReconcileTypeOK
  <1>1. ReconcileInv => ReconcileTypeOK
    BY DEF ReconcileInv
  <1>2. QED
    BY <1>1, ReconcileInvariant, PTL

\* A task's completed write stays in the cache, in quarantine or in the cloud
\* through any number of crashes of gateway and reconcile_cache, unless
\* quarantine_entry could not move its data.
THEOREM WorkIsKept == ReconcileSpec => []WorkKept
  <1>1. ReconcileInv => WorkKept
    BY DEF ReconcileInv
  <1>2. QED
    BY <1>1, ReconcileInvariant, PTL

\* Unless a boot could not read or write the cache, rclone never uploads an
\* entry that is_orphaned or is_inconsistent.
THEOREM NothingIsSpoiled == ReconcileSpec => []NothingSpoiled
  <1>1. ReconcileInv => NothingSpoiled
    BY DEF ReconcileInv
  <1>2. QED
    BY <1>1, ReconcileInvariant, PTL

\* fingerprint_matches allows only uploads that replace the object the file was
\* derived from, given a listing that was right and stayed so.
THEOREM RepairsKeepCloud == ReconcileSpec => []RepairKeepsCloud
  <1>1. ReconcileInv => RepairKeepsCloud
    BY DEF ReconcileInv, TrustIsRight, RepairKeepsCloud
  <1>2. QED
    BY <1>1, ReconcileInvariant, PTL

\* All three together: the boot of the gateway (reconcile_cache) is safe.
THEOREM BootStaysSafe == ReconcileSpec => []BootIsSafe
  <1>1. WorkKept /\ NothingSpoiled /\ RepairKeepsCloud => BootIsSafe
    BY DEF BootIsSafe
  <1>2. QED
    BY <1>1, WorkIsKept, NothingIsSpoiled, RepairsKeepCloud, PTL

-----------------------------------------------------------------------------
(* The watch over the gateway                                              *)

\* The token is not older than the last success, until the next attempt is due.
TokenIsWatched ==
  /\ lastRefresh < Due => tokenAge <= lastRefresh
  /\ tokenAge = TokenLife => tried = "failed"

\* The monitor's age of a dirty file is never behind: it is what a scan that
\* failed kept counting.
AgesKeepUp ==
  /\ \A p \in Paths : kind[p] = "clean" \/ age[p] = Untracked => stalled[p] = 0
  /\ \A p \in Paths : age[p] # Untracked => stalled[p] <= age[p] + 1
  /\ NoSilentStall

\* What the monitor needs to notice a wrong upload it has not yet looked at.
WrongIsNoticed ==
  /\ \A p \in Paths : torn[p] = "fresh" =>
       /\ kind[p] = "clean" /\ age[p] # Untracked
       /\ sample[p].stable /\ object[p] # sample[p].size
  /\ TornUploadReported

WatchInv == RefresherTypeOK /\ TokenIsWatched /\ AgesKeepUp /\ WrongIsNoticed

LEMMA AgesAreNumbers ==
  /\ AgeCap \in Nat /\ AgeCap > Overdue /\ AgeCap > MaxDirtyAge
  /\ Untracked = AgeCap + 1 /\ Due \in Nat \ {0} /\ Due < TokenLife
  /\ Overdue \in Nat /\ Grace \in Nat /\ Grace < Overdue /\ MaxBlips \in Nat /\ TokenLife \in Nat
BY RefresherAssumption DEF AgeCap, Untracked, Due

LEMMA WatchInvInit == RefresherInit => WatchInv
<1> SUFFICES ASSUME RefresherInit PROVE WatchInv
  OBVIOUS
<1> USE AgesAreNumbers
<1>1. RefresherTypeOK
  BY DEF RefresherInit, RefresherTypeOK, NoSample, NoSize
<1>2. TokenIsWatched
  BY DEF RefresherInit, TokenIsWatched
<1>3. AgesKeepUp
  BY DEF RefresherInit, AgesKeepUp, NoSilentStall
<1>4. WrongIsNoticed
  BY DEF RefresherInit, WrongIsNoticed, TornUploadReported
<1>5. QED
  BY <1>1, <1>2, <1>3, <1>4 DEF WatchInv

LEMMA RcloneStep ==
  ASSUME WatchInv, NEW p \in Paths, Touch(p) \/ LoseData(p) \/ Uploaded(p)
  PROVE  WatchInv'
<1> USE AgesAreNumbers
<1>1. UNCHANGED <<tokenAge, lastRefresh, tried, age, queuedOnce, sample, mismatch, state>>
  BY DEF Touch, LoseData, Uploaded, tokenVars, monitorVars
<1>2. RefresherTypeOK'
  <2>1. blips' \in 0..MaxBlips
    BY DEF Touch, LoseData, Uploaded, Blip, WatchInv, RefresherTypeOK
  <2>2. kind' \in [Paths -> {"clean", "dirty", "orphan"}]
    BY DEF Touch, LoseData, Uploaded, WatchInv, RefresherTypeOK
  <2>3. size' \in [Paths -> Sizes] /\ object' \in [Paths -> Sizes]
    BY DEF Touch, LoseData, Uploaded, WatchInv, RefresherTypeOK
  <2>4. stalled' \in [Paths -> 0..AgeCap]
    BY DEF Touch, LoseData, Uploaded, WatchInv, RefresherTypeOK
  <2>5. torn' \in [Paths -> {"no", "fresh", "owed"}]
    BY DEF Touch, LoseData, Uploaded, WatchInv, RefresherTypeOK
  <2>6. QED
    BY <1>1, <2>1, <2>2, <2>3, <2>4, <2>5 DEF WatchInv, RefresherTypeOK
<1>3. TokenIsWatched'
  BY <1>1 DEF WatchInv, TokenIsWatched
<1>4. AgesKeepUp'
  <2>1. \A q \in Paths : \/ stalled'[q] = stalled[q] /\ (kind'[q] = "clean" => kind[q] = "clean")
                         \/ stalled'[q] = 0
    BY DEF Touch, LoseData, Uploaded, WatchInv, RefresherTypeOK
  <2>2. \A q \in Paths : age[q] \in Nat /\ stalled[q] \in Nat
    BY DEF WatchInv, RefresherTypeOK
  <2>3. QED
    BY <1>1, <2>1, <2>2 DEF WatchInv, AgesKeepUp, NoSilentStall
<1>5. WrongIsNoticed'
  <2>1. ASSUME NEW q \in Paths, torn'[q] = "fresh"
        PROVE  /\ kind'[q] = "clean" /\ age[q] # Untracked
               /\ sample[q].stable /\ object'[q] # sample[q].size
    <3>1. CASE q # p
      <4>1. torn'[q] = torn[q] /\ kind'[q] = kind[q] /\ object'[q] = object[q]
        BY <3>1 DEF Touch, LoseData, Uploaded, WatchInv, RefresherTypeOK
      <4>2. QED
        BY <2>1, <4>1 DEF WatchInv, WrongIsNoticed
    <3>2. CASE q = p /\ (Touch(p) \/ LoseData(p))
      BY <2>1, <3>2 DEF Touch, LoseData, WatchInv, RefresherTypeOK, WrongIsNoticed
    <3>3. CASE q = p /\ Uploaded(p)
      <4>1. torn[p] # "fresh"
        BY <3>3 DEF Uploaded, WatchInv, WrongIsNoticed
      <4>2. PICK n \in Sizes :
              /\ object' = [object EXCEPT ![p] = n]
              /\ torn' = IF /\ n # size[p] /\ age[p] # Untracked
                            /\ sample[p] = [size |-> size[p], stable |-> TRUE]
                           THEN [torn EXCEPT ![p] = "fresh"] ELSE torn
        BY <3>3 DEF Uploaded
      <4>3. /\ n # size[p] /\ age[p] # Untracked
            /\ sample[p] = [size |-> size[p], stable |-> TRUE]
        BY <2>1, <3>3, <4>1, <4>2
      <4>4. kind'[p] = "clean" /\ object'[p] = n
        BY <3>3, <4>2 DEF Uploaded, WatchInv, RefresherTypeOK
      <4>5. sample[p].stable /\ sample[p].size = size[p]
        BY <4>3
      <4>6. QED
        BY <3>3, <4>3, <4>4, <4>5
    <3>4. QED
      BY <3>1, <3>2, <3>3
  <2>2. \A q \in Paths : torn'[q] = "owed" => torn[q] = "owed"
    BY DEF Touch, LoseData, Uploaded, WatchInv, RefresherTypeOK
  <2>3. QED
    BY <1>1, <2>1, <2>2 DEF WatchInv, WrongIsNoticed, TornUploadReported
<1>6. QED
  BY <1>2, <1>3, <1>4, <1>5 DEF WatchInv

LEMMA RefreshStep ==
  ASSUME WatchInv, Refresh
  PROVE  /\ tokenAge' \in 0..TokenLife /\ lastRefresh' \in 0..Due
         /\ tried' \in {"no", "ok", "failed"} /\ blips' \in 0..MaxBlips
         /\ TokenIsWatched'
<1> USE AgesAreNumbers
<1> DEFINE older == IF tokenAge < TokenLife THEN tokenAge + 1 ELSE tokenAge
<1>1. tokenAge \in 0..TokenLife /\ lastRefresh \in 0..Due /\ blips \in 0..MaxBlips
  BY DEF WatchInv, RefresherTypeOK
<1>2. CASE lastRefresh < Due
  <2>1. tried' = "no" /\ tokenAge' = older /\ lastRefresh' = lastRefresh + 1 /\ blips' = blips
    BY <1>2 DEF Refresh
  <2>2. tokenAge <= lastRefresh
    BY <1>2 DEF WatchInv, TokenIsWatched
  <2>3. QED
    BY <1>1, <1>2, <2>1, <2>2 DEF TokenIsWatched
<1>3. CASE ~(lastRefresh < Due)
  <2>1. \/ tried' = "ok" /\ tokenAge' = 0 /\ lastRefresh' = 0 /\ blips' = blips
        \/ /\ tried' = "failed" /\ tokenAge' = older /\ lastRefresh' = Due
           /\ blips < MaxBlips /\ blips' = blips + 1
    BY <1>3 DEF Refresh, Blip, AfterFailure
  <2>2. QED
    BY <1>1, <2>1 DEF TokenIsWatched
<1>4. QED
  BY <1>2, <1>3

\* What a scan does to the ages, and when it degrades the state.
LEMMA EvaluateIsTold ==
  ASSUME NEW queue, NEW errored \in BOOLEAN, NEW readable \in SUBSET Paths,
         WatchInv, Evaluate(queue, errored, readable)
  PROVE  /\ age' \in [Paths -> 0..AgeCap \cup {Untracked}]
         /\ queuedOnce' \in SUBSET Paths
         /\ sample' \in [Paths -> [size: Sizes \cup {NoSize}, stable: BOOLEAN]]
         /\ mismatch' \in SUBSET Paths /\ state' \in {"starting", "ok", "degraded"}
         /\ torn' \in [Paths -> {"no", "fresh", "owed"}]
         /\ \A p \in Paths : age'[p] = IF kind[p] = "clean" THEN Untracked
                                       ELSE IF age[p] = Untracked THEN 0 ELSE Aged(p)
         /\ \A p \in Paths : kind[p] # "clean" /\ age'[p] >= Overdue => state' = "degraded"
         /\ \A p \in Paths : torn'[p] # "fresh"
         /\ \A p \in Paths : torn'[p] = "owed" => p \in mismatch' /\ state' = "degraded"
<1> USE AgesAreNumbers
<1> DEFINE current == {p \in Paths : kind[p] # "clean"}
           found   == Verified(readable)
           newAge  == [p \in Paths |-> IF p \notin current THEN Untracked
                                       ELSE IF age[p] = Untracked THEN 0 ELSE Aged(p)]
           ever    == (queuedOnce \cap current) \cup (IF queue = "busy" THEN current ELSE {})
           onward  == [p \in Paths |->
                         IF p \notin current THEN NoSample
                         ELSE IF kind[p] = "orphan" THEN sample[p]
                         ELSE [size |-> size[p], stable |-> sample[p].size = size[p]]]
<1>1. /\ age' = newAge /\ queuedOnce' = ever /\ sample' = onward
      /\ mismatch' = (mismatch \ found.good) \cup found.bad
      /\ state' = IF \/ errored \/ mismatch' # {}
                     \/ \E p \in current : Stuck(p, newAge[p], queue, ever)
                    THEN "degraded" ELSE "ok"
      /\ torn' = [p \in Paths |->
           IF torn[p] = "fresh" THEN IF p \in readable THEN "owed" ELSE "no"
           ELSE IF p \in found.good THEN "no" ELSE torn[p]]
  BY DEF Evaluate
<1>2. \A p \in Paths : /\ age[p] \in 0..AgeCap \cup {Untracked}
                       /\ Aged(p) = IF age[p] \in {Untracked, AgeCap} THEN age[p] ELSE age[p] + 1
                       /\ Aged(p) \in 0..AgeCap \cup {Untracked}
  <2>1. ASSUME NEW p \in Paths PROVE age[p] \in 0..AgeCap \cup {Untracked}
    BY DEF WatchInv, RefresherTypeOK
  <2>2. \A p \in Paths : Aged(p) = IF age[p] \in {Untracked, AgeCap} THEN age[p] ELSE age[p] + 1
    BY DEF Aged
  <2>3. QED
    BY <2>1, <2>2
<1>3. newAge \in [Paths -> 0..AgeCap \cup {Untracked}]
  <2>1. \A p \in Paths : newAge[p] \in 0..AgeCap \cup {Untracked}
    BY <1>2
  <2>2. QED
    BY <2>1
<1>4. onward \in [Paths -> [size: Sizes \cup {NoSize}, stable: BOOLEAN]]
  <2>1. ASSUME NEW p \in Paths PROVE onward[p] \in [size: Sizes \cup {NoSize}, stable: BOOLEAN]
    <3>1. /\ sample[p] \in [size: Sizes \cup {NoSize}, stable: BOOLEAN]
          /\ NoSample \in [size: Sizes \cup {NoSize}, stable: BOOLEAN] /\ size[p] \in Sizes
      BY DEF WatchInv, RefresherTypeOK, NoSample
    <3>2. (sample[p].size = size[p]) \in BOOLEAN
      OBVIOUS
    <3>3. [size |-> size[p], stable |-> sample[p].size = size[p]]
             \in [size: Sizes \cup {NoSize}, stable: BOOLEAN]
      BY <3>1, <3>2
    <3>4. QED
      BY <3>1, <3>3
  <2>2. QED
    BY <2>1
<1>5. found.good \subseteq Paths /\ found.bad \subseteq Paths
  BY DEF Verified
<1>6. ASSUME NEW p \in Paths, kind[p] # "clean", age'[p] >= Overdue PROVE state' = "degraded"
  <2>1. Stuck(p, newAge[p], queue, ever)
    <3>1. newAge[p] \in Nat /\ newAge[p] >= Overdue
      BY <1>1, <1>3, <1>6
    <3> HIDE DEF newAge, ever
    <3>2. newAge[p] >= Grace
      BY <3>1
    <3>3. QED
      BY <1>6, <3>1, <3>2 DEF Stuck
  <2>2. p \in current
    BY <1>6
  <2>3. QED
    BY <1>1, <2>1, <2>2
<1>7. ASSUME NEW p \in Paths, torn'[p] = "owed" PROVE p \in mismatch'
  <2>1. CASE torn[p] = "fresh"
    <3>1. p \in readable
      BY <1>1, <1>7, <2>1
    <3>2. p \in found.bad
      BY <2>1, <3>1 DEF WatchInv, WrongIsNoticed, Verified
    <3>3. QED
      BY <1>1, <3>2
  <2>2. CASE torn[p] # "fresh"
    <3>1. torn[p] = "owed" /\ p \notin found.good
      BY <1>1, <1>7, <2>2
    <3>2. QED
      BY <1>1, <3>1 DEF WatchInv, WrongIsNoticed, TornUploadReported
  <2>3. QED
    BY <2>1, <2>2
<1>8. \A p \in Paths : age'[p] = IF kind[p] = "clean" THEN Untracked
                                 ELSE IF age[p] = Untracked THEN 0 ELSE Aged(p)
  BY <1>1
<1>9. torn' \in [Paths -> {"no", "fresh", "owed"}] /\ \A p \in Paths : torn'[p] # "fresh"
  BY <1>1 DEF WatchInv, RefresherTypeOK
<1>10. \A p \in Paths : torn'[p] = "owed" => state' = "degraded"
  <2>1. mismatch' # {} => state' = "degraded"
    <3> HIDE DEF current, found, newAge, ever
    <3>1. QED
      BY <1>1
  <2>2. QED
    BY <1>7, <2>1
<1>11. /\ queuedOnce' \in SUBSET Paths /\ mismatch' \in SUBSET Paths
       /\ state' \in {"starting", "ok", "degraded"}
  <2>1. queuedOnce' \in SUBSET Paths
    BY <1>1
  <2>2. mismatch' \in SUBSET Paths
    BY <1>1, <1>5 DEF WatchInv, RefresherTypeOK
  <2>3. state' \in {"starting", "ok", "degraded"}
    <3> HIDE DEF current, found, newAge, ever
    <3>1. QED
      BY <1>1
  <2>4. QED
    BY <2>1, <2>2, <2>3
<1>12. QED
  BY <1>1, <1>3, <1>4, <1>6, <1>7, <1>8, <1>9, <1>10, <1>11

LEMMA CycleStep ==
  ASSUME WatchInv, Cycle
  PROVE  WatchInv'
<1> USE AgesAreNumbers
<1>1. /\ tokenAge' \in 0..TokenLife /\ lastRefresh' \in 0..Due
      /\ tried' \in {"no", "ok", "failed"} /\ blips' \in 0..MaxBlips
      /\ TokenIsWatched'
  BY RefreshStep DEF Cycle
<1>2. /\ UNCHANGED <<kind, size, object>>
      /\ stalled' = [p \in Paths |->
           IF \/ kind[p] = "clean" \/ stalled[p] = AgeCap
              \/ (age[p] = Untracked /\ age'[p] = Untracked)
             THEN stalled[p] ELSE stalled[p] + 1]
  BY DEF Cycle
<1>3. \A p \in Paths : stalled[p] \in 0..AgeCap /\ age[p] \in 0..AgeCap \cup {Untracked}
  BY DEF WatchInv, RefresherTypeOK
<1>4. stalled' \in [Paths -> 0..AgeCap]
  BY <1>2, <1>3
<1>5. /\ age' \in [Paths -> 0..AgeCap \cup {Untracked}]
      /\ queuedOnce' \in SUBSET Paths
      /\ sample' \in [Paths -> [size: Sizes \cup {NoSize}, stable: BOOLEAN]]
      /\ mismatch' \in SUBSET Paths /\ state' \in {"starting", "ok", "degraded"}
      /\ torn' \in [Paths -> {"no", "fresh", "owed"}]
      /\ \/ /\ \A p \in Paths : age'[p] = IF kind[p] = "clean" THEN Untracked
                                          ELSE IF age[p] = Untracked THEN 0 ELSE Aged(p)
            /\ \A p \in Paths : kind[p] # "clean" /\ age'[p] >= Overdue => state' = "degraded"
            /\ \A p \in Paths : torn'[p] # "fresh"
         \/ /\ \A p \in Paths : age'[p] = Aged(p)
            /\ state' = "degraded" /\ UNCHANGED <<sample, mismatch, torn>>
      /\ \A p \in Paths : torn'[p] = "owed" => p \in mismatch' /\ state' = "degraded"
  <2>1. CASE Unavailable
    <3>1. age' \in [Paths -> 0..AgeCap \cup {Untracked}]
      BY <1>3, <2>1 DEF Unavailable, Aged
    <3>2. QED
      BY <2>1, <3>1 DEF Unavailable, WatchInv, RefresherTypeOK, WrongIsNoticed, TornUploadReported
  <2>2. CASE Evaluate("idle", FALSE, {})
    <3>1. {} \in SUBSET Paths /\ FALSE \in BOOLEAN
      OBVIOUS
    <3>2. QED
      BY <2>2, <3>1, EvaluateIsTold
  <2>3. ASSUME NEW queue \in {"busy", "idle", "unknown"}, NEW errored \in BOOLEAN,
               Evaluate(queue, errored /\ queue # "unknown", Paths)
        PROVE  Evaluate(queue, TRUE, Paths) \/ Evaluate(queue, FALSE, Paths)
    <3>1. CASE errored /\ queue # "unknown"
      BY <2>3, <3>1 DEF Evaluate
    <3>2. CASE ~(errored /\ queue # "unknown")
      BY <2>3, <3>2 DEF Evaluate
    <3>3. QED
      BY <3>1, <3>2
  <2>4. ASSUME NEW queue \in {"busy", "idle", "unknown"}, NEW errored \in BOOLEAN,
               Evaluate(queue, errored, Paths)
        PROVE  <1>5!:
    BY <2>4, EvaluateIsTold
  <2>5. QED
    BY <2>1, <2>2, <2>3, <2>4 DEF Cycle
<1>6. AgesKeepUp'
  <2>1. ASSUME NEW p \in Paths
        PROVE  /\ kind'[p] = "clean" \/ age'[p] = Untracked => stalled'[p] = 0
               /\ age'[p] # Untracked => stalled'[p] <= age'[p] + 1
               /\ stalled'[p] > Overdue => state' = "degraded"
    <3>1. /\ kind[p] = "clean" \/ age[p] = Untracked => stalled[p] = 0
          /\ age[p] # Untracked => stalled[p] <= age[p] + 1
          /\ kind'[p] = kind[p] /\ stalled[p] \in 0..AgeCap
          /\ age[p] \in 0..AgeCap \cup {Untracked}
      BY <1>2, <1>3 DEF WatchInv, AgesKeepUp
    <3>2. Aged(p) = IF age[p] \in {Untracked, AgeCap} THEN age[p] ELSE age[p] + 1
      BY DEF Aged
    <3>3. stalled'[p] = IF \/ kind[p] = "clean" \/ stalled[p] = AgeCap
                           \/ (age[p] = Untracked /\ age'[p] = Untracked)
                          THEN stalled[p] ELSE stalled[p] + 1
      BY <1>2
    <3>4. CASE age'[p] = Aged(p) /\ state' = "degraded"
      BY <3>1, <3>2, <3>3, <3>4
    <3>5. CASE /\ age'[p] = IF kind[p] = "clean" THEN Untracked
                            ELSE IF age[p] = Untracked THEN 0 ELSE Aged(p)
               /\ kind[p] # "clean" /\ age'[p] >= Overdue => state' = "degraded"
      BY <3>1, <3>2, <3>3, <3>5
    <3>6. QED
      BY <1>5, <3>4, <3>5
  <2>2. QED
    BY <2>1 DEF AgesKeepUp, NoSilentStall
<1>7. WrongIsNoticed'
  <2>1. ASSUME NEW p \in Paths, torn'[p] = "fresh"
        PROVE  /\ kind'[p] = "clean" /\ age'[p] # Untracked
               /\ sample'[p].stable /\ object'[p] # sample'[p].size
    <3>1. age'[p] = Aged(p) /\ UNCHANGED <<sample, torn>>
      BY <1>5, <2>1
    <3>2. age'[p] # Untracked
      BY <1>3, <2>1, <3>1 DEF WatchInv, WrongIsNoticed, Aged
    <3>3. QED
      BY <1>2, <2>1, <3>1, <3>2 DEF WatchInv, WrongIsNoticed
  <2>2. QED
    BY <1>5, <2>1 DEF WrongIsNoticed, TornUploadReported
<1>8. RefresherTypeOK'
  BY <1>1, <1>2, <1>4, <1>5 DEF WatchInv, RefresherTypeOK
<1>9. QED
  BY <1>1, <1>6, <1>7, <1>8 DEF WatchInv

LEMMA WatchStepInv == WatchInv /\ [RefresherNext]_refresherVars => WatchInv'
<1> SUFFICES ASSUME WatchInv, [RefresherNext]_refresherVars PROVE WatchInv'
  OBVIOUS
<1>1. CASE RefresherNext
  BY <1>1, RcloneStep, CycleStep DEF RefresherNext
<1>2. CASE UNCHANGED refresherVars
  BY <1>2 DEF refresherVars, WatchInv, RefresherTypeOK, TokenIsWatched, AgesKeepUp,
              WrongIsNoticed, NoSilentStall, TornUploadReported
<1>3. QED
  BY <1>1, <1>2

\* What the sidecar's health says of the token, of stalled uploads and of mismatches
\* (do_refresh, evaluate) is true of the gateway, for any number of files of any
\* size, failed scans and failed refreshes.
THEOREM WatchIsHonestAlways == RefresherSpec => []WatchIsHonest
<1>1. WatchInv => WatchIsHonest
  BY DEF WatchInv, TokenIsWatched, AgesKeepUp, WrongIsNoticed, WatchIsHonest, ExpiredIsRetried,
         TroubleIsReported
<1>2. QED
  BY <1>1, WatchInvInit, WatchStepInv, PTL DEF RefresherSpec

-----------------------------------------------------------------------------
(* What the model is shown                                                 *)

Messages  == Seq(Message)

\* A summary is of what it covers; the prompt stays the first message.
ContextInv ==
  /\ ContextTypeOK /\ ContextIsTrue
  /\ heldSummary.describes = heldSummary.covers
  /\ Len(history) > 0 /\ history[1] = Prompt

LEMMA MinProperties ==
  ASSUME NEW S \in SUBSET Nat, S # {}
  PROVE  Min(S) \in S /\ \A y \in S : Min(S) <= y
<1> DEFINE less == OpToRel(<, Nat)
<1>1. IsWellFoundedOn(less, Nat)
  BY NatLessThanWellFounded
<1>2. \A x, y \in Nat : x < y => <<x, y>> \in less
  BY DEF OpToRel
<1> HIDE DEF less
<1>3. PICK x \in S : \A y \in S : <<y, x>> \notin less
  BY <1>1, WFMin
<1>4. ASSUME NEW y \in S PROVE x <= y
  <2>1. x \in Nat /\ y \in Nat /\ ~(y < x)
    BY <1>2, <1>3
  <2>2. QED
    BY <2>1
<1>5. QED
  BY <1>4 DEF Min

LEMMA MaxOfTwo ==
  ASSUME NEW a \in Nat, NEW b \in Nat
  PROVE  Max({a, b}) \in {a, b} /\ Max({a, b}) >= a /\ Max({a, b}) >= b
<1>1. \E x \in {a, b} : \A y \in {a, b} : x >= y
  <2>1. CASE a >= b
    BY <2>1
  <2>2. CASE b >= a
    BY <2>2
  <2>3. QED
    BY <2>1, <2>2
<1>2. Max({a, b}) \in {a, b} /\ \A y \in {a, b} : Max({a, b}) >= y
  BY <1>1 DEF Max
<1>3. QED
  BY <1>2

LEMMA StrippedIsTyped ==
  ASSUME NEW s \in Messages
  PROVE  /\ Stripped(s) \in Messages /\ Len(Stripped(s)) = Len(s)
         /\ \A i \in 1..Len(s) : s[i].kind # "shot" => Stripped(s)[i] = s[i]
<1> DEFINE Shots(i) == Len(SelectSeq(From(s, i), LAMBDA m : m.kind = "shot"))
           t == [i \in 1..Len(s) |-> IF s[i].kind = "shot" /\ Shots(i) > ShotsKept
                                     THEN [s[i] EXCEPT !.kind = "stripped"] ELSE s[i]]
<1>1. Len(s) \in Nat /\ \A i \in 1..Len(s) : s[i] \in Message
  BY LenProperties, ElementOfSeq DEF Messages
<1>2. \A m \in Message : [m EXCEPT !.kind = "stripped"] \in Message
  BY DEF Message, MessageKinds
<1> HIDE DEF Shots
<1>3. t \in [1..Len(s) -> Message]
  BY <1>1, <1>2
<1>4. t \in Messages
  BY <1>1, <1>3, SeqDef DEF Messages
<1>5. Len(t) = Len(s)
  <2>1. DOMAIN t = 1..Len(s) /\ DOMAIN t = 1..Len(t) /\ Len(t) \in Nat
    BY <1>4, LenProperties DEF Messages
  <2> HIDE DEF t
  <2>2. QED
    BY <1>1, <2>1
<1>6. \A i \in 1..Len(s) : s[i].kind # "shot" => t[i] = s[i]
  OBVIOUS
<1>7. Stripped(s) = t
  BY DEF Stripped, Shots
<1>8. QED
  BY <1>4, <1>5, <1>6, <1>7

\* The cut keeps one message at least, and summarises one.
LEMMA SnappedIsACut ==
  ASSUME NEW s \in Messages, Len(s) > 2
  PROVE  /\ Snapped(s) \in 2..(Len(s) - 1)
         /\ Snapped(s) = Len(s) - 1 \/ s[Snapped(s) + 1].kind # "output"
<1> DEFINE L == Len(s)
           R == {k \in 0..L : k = L \/ Tokens(From(s, k + 1)) <= KeepRecent}
<1>1. L \in Nat /\ L > 2
  BY LenProperties DEF Messages
<1> HIDE DEF L
<1>2. Min(R) \in 0..L
  <2>1. R \in SUBSET Nat /\ L \in R /\ R \subseteq 0..L
    BY <1>1
  <2> HIDE DEF R
  <2>2. QED
    BY <2>1, MinProperties
<1> HIDE DEF R
<1> DEFINE capped == Min({Min(R), L - 1})
<1>3. capped \in 0..(L - 1)
  <2>1. {Min(R), L - 1} \in SUBSET Nat
    BY <1>1, <1>2
  <2>2. capped \in {Min(R), L - 1} /\ capped <= L - 1
    BY <2>1, MinProperties
  <2> HIDE DEF capped
  <2>3. QED
    BY <1>1, <1>2, <2>2
<1>4. Split(s) = Max({2, capped})
  BY DEF Split, L, R
<1> HIDE DEF capped
<1>5. Split(s) \in 2..(L - 1)
  <2>1. 2 \in Nat /\ capped \in Nat
    BY <1>1, <1>3
  <2>2. Max({2, capped}) \in {2, capped} /\ Max({2, capped}) >= 2
    BY <2>1, MaxOfTwo
  <2>3. QED
    BY <1>1, <1>3, <1>4, <2>2
<1> DEFINE K == {k \in Split(s)..(L - 1) : k = L - 1 \/ s[k + 1].kind # "output"}
<1>6. K \in SUBSET Nat /\ L - 1 \in K /\ K \subseteq 2..(L - 1)
  BY <1>1, <1>5
<1>7. Snapped(s) = Min(K)
  BY DEF Snapped, L
<1>8. Min(K) \in K
  <2> HIDE DEF K
  <2>1. QED
    BY <1>6, MinProperties
<1>9. QED
  BY <1>6, <1>7, <1>8 DEF L

\* The prompt, what is summarised and what is kept make up the whole.
LEMMA CutsAddUp ==
  ASSUME NEW s \in Messages, NEW k \in 2..(Len(s) - 1)
  PROVE  LET kept == <<s[1]>> \o From(s, k + 1) IN
         /\ kept \in Messages /\ Len(kept) = Len(s) - k + 1
         /\ Head(kept) = s[1] /\ Tail(kept) = From(s, k + 1)
         /\ kept[1] = s[1] /\ kept[2] = s[k + 1]
         /\ SubSeq(s, 2, k) \in Messages
         /\ <<s[1]>> \o SubSeq(s, 2, k) \o From(s, k + 1) = s
<1> DEFINE L == Len(s)
           kept == <<s[1]>> \o From(s, k + 1)
<1>1. L \in Nat /\ k \in 2..(L - 1) /\ \A i \in 1..L : s[i] \in Message
  BY LenProperties, ElementOfSeq DEF Messages
<1>2. <<s[1]>> \in Messages /\ Len(<<s[1]>>) = 1 /\ <<s[1]>>[1] = s[1]
  BY <1>1 DEF Messages
<1>3. /\ From(s, k + 1) \in Messages /\ Len(From(s, k + 1)) = L - k
      /\ From(s, k + 1)[1] = s[k + 1]
  <2>1. k + 1 \in Int /\ L \in Int /\ k + 1 <= L /\ \A i \in (k + 1)..L : s[i] \in Message
    BY <1>1
  <2> HIDE DEF L
  <2>2. /\ SubSeq(s, k + 1, L) \in Seq(Message)
        /\ Len(SubSeq(s, k + 1, L)) = L - (k + 1) + 1
        /\ \A i \in 1..(L - (k + 1) + 1) : SubSeq(s, k + 1, L)[i] = s[(k + 1) + i - 1]
    BY <2>1, SubSeqProperties
  <2>3. 1 \in 1..(L - (k + 1) + 1) /\ L - (k + 1) + 1 = L - k /\ (k + 1) + 1 - 1 = k + 1
    BY <1>1
  <2>4. QED
    BY <2>2, <2>3 DEF From, Messages, L
<1>4. SubSeq(s, 2, k) \in Messages
  <2>1. \A i \in 2..k : s[i] \in Message
    BY <1>1
  <2>2. QED
    BY <1>1, <2>1, SubSeqProperties DEF Messages
<1>5. /\ kept \in Messages /\ Len(kept) = L - k + 1
      /\ kept[1] = s[1] /\ kept[2] = s[k + 1]
      /\ \A i \in 1..(L - k) : kept[i + 1] = From(s, k + 1)[i]
  <2>1. /\ kept \in Messages /\ Len(kept) = 1 + (L - k)
        /\ \A i \in 1..(1 + (L - k)) : kept[i] = IF i <= 1 THEN <<s[1]>>[i] ELSE From(s, k + 1)[i - 1]
    <3>1. \A a, b \in Messages : Len(a) = 1 =>
            /\ a \o b \in Messages /\ Len(a \o b) = 1 + Len(b)
            /\ \A i \in 1..(1 + Len(b)) : (a \o b)[i] = IF i <= 1 THEN a[i] ELSE b[i - 1]
      <4> SUFFICES ASSUME NEW a \in Messages, NEW b \in Messages, Len(a) = 1
                   PROVE  /\ a \o b \in Messages /\ Len(a \o b) = 1 + Len(b)
                          /\ \A i \in 1..(1 + Len(b)) :
                               (a \o b)[i] = IF i <= 1 THEN a[i] ELSE b[i - 1]
        OBVIOUS
      <4>1. /\ a \o b \in Messages /\ Len(a \o b) = Len(a) + Len(b)
            /\ \A i \in 1..Len(a) + Len(b) :
                 (a \o b)[i] = IF i <= Len(a) THEN a[i] ELSE b[i - Len(a)]
        BY ConcatProperties DEF Messages
      <4>2. QED
        BY <4>1
    <3>2. QED
      BY <1>2, <1>3, <3>1, SMTT(30)
  <2> HIDE DEF L, kept
  <2>2. \A i \in 1..(L - k) : i + 1 \in 1..(1 + (L - k)) /\ ~(i + 1 <= 1) /\ (i + 1) - 1 = i
    BY <1>1
  <2>3. /\ 1 \in 1..(1 + (L - k)) /\ 2 \in 1..(1 + (L - k)) /\ 1 + (L - k) = L - k + 1
        /\ 1 <= 1 /\ ~(2 <= 1) /\ 2 - 1 = 1
    BY <1>1
  <2>4. kept[1] = s[1] /\ kept[2] = s[k + 1]
    <3>1. kept[1] = <<s[1]>>[1] /\ kept[2] = From(s, k + 1)[2 - 1]
      BY <2>1, <2>3
    <3>2. QED
      BY <1>2, <1>3, <2>3, <3>1
  <2>5. \A i \in 1..(L - k) : kept[i + 1] = From(s, k + 1)[i]
    <3>1. \A i \in 1..(L - k) : kept[i + 1] = From(s, k + 1)[(i + 1) - 1]
      BY <2>1, <2>2
    <3>2. QED
      BY <2>2, <3>1
  <2>6. QED
    BY <2>1, <2>3, <2>4, <2>5
<1>6. Head(kept) = s[1] /\ Tail(kept) = From(s, k + 1)
  <2> HIDE DEF kept, L
  <2>1. kept # <<>>
    BY <1>1, <1>5, EmptySeq
  <2>2. /\ Tail(kept) \in Messages /\ Len(Tail(kept)) = Len(kept) - 1
        /\ \A i \in 1..Len(Tail(kept)) : Tail(kept)[i] = kept[i + 1]
    BY <1>5, <2>1, HeadTailProperties DEF Messages
  <2>3. Len(Tail(kept)) = L - k
    BY <1>1, <1>5, <2>2
  <2>4. Tail(kept) = From(s, k + 1)
    BY <1>3, <1>5, <2>2, <2>3, SeqEqual DEF Messages
  <2>5. Head(kept) = kept[1]
    OBVIOUS
  <2>6. QED
    BY <1>5, <2>4, <2>5
<1>7. <<s[1]>> \o SubSeq(s, 2, k) \o From(s, k + 1) = s
  <2>1. <<s[1]>> \o SubSeq(s, 2, k) = SubSeq(s, 1, k)
    <3>1. 1 \in 1..Len(s) /\ k \in 1..Len(s)
      BY <1>1
    <3>2. QED
      BY <3>1, SubSeqRecursiveFirst DEF Messages
  <2>2. SubSeq(s, 1, k) \o SubSeq(s, k + 1, Len(s)) = SubSeq(s, 1, Len(s))
    <3>1. 1 \in 1..(Len(s) + 1) /\ k \in 0..Len(s) /\ Len(s) \in k..Len(s) /\ 1 - 1 = 0
      BY <1>1
    <3>2. QED
      BY <3>1, ConcatAdjacentSubSeq DEF Messages
  <2>3. SubSeq(s, 1, Len(s)) = s
    BY SubSeqFull DEF Messages
  <2>4. QED
    BY <2>1, <2>2, <2>3 DEF From
<1>8. QED
  BY <1>4, <1>5, <1>6, <1>7 DEF kept, L

LEMMA TrimmedIsTyped ==
  ASSUME NEW s \in Messages, Len(s) > 2
  PROVE  Trimmed(s) \in Messages
<1> DEFINE K == {k \in 2..Len(s) : k = Len(s) \/ Tokens(<<s[1]>> \o From(s, k)) <= TrimTarget}
<1>1. Len(s) \in Nat /\ \A i \in 1..Len(s) : s[i] \in Message
  BY LenProperties, ElementOfSeq DEF Messages
<1>2. K \in SUBSET Nat /\ Len(s) \in K /\ K \subseteq 2..Len(s)
  BY <1>1
<1>3. Min(K) \in 2..Len(s)
  <2> HIDE DEF K
  <2>1. QED
    BY <1>2, MinProperties
<1>4. ASSUME NEW k \in 2..Len(s)
      PROVE  <<s[1]>> \o From(s, k) \in Messages
  <2>1. k \in Int /\ Len(s) \in Int /\ \A i \in k..Len(s) : s[i] \in Message
    BY <1>1
  <2>2. From(s, k) \in Messages
    BY <2>1, SubSeqProperties DEF From, Messages
  <2>3. <<s[1]>> \in Messages
    BY <1>1 DEF Messages
  <2>4. QED
    BY <2>2, <2>3, ConcatProperties DEF Messages
<1>5. Trimmed(s) = s \/ Trimmed(s) = <<s[1]>> \o From(s, Min(K))
  BY DEF Trimmed
<1>6. QED
  BY <1>3, <1>4, <1>5

LEMMA ItemsAreTyped ==
  ASSUME ContextTypeOK, NEW a \in Answers
  PROVE  Items(a) \in Messages
<1> DEFINE Nth(k, i) == Cardinality({j \in 1..i : a[j] = k})
           item(i) == [kind |-> a[i], call |-> IF a[i] \in {"call", "output"}
                                               THEN Len(history) + Nth(a[i], i) ELSE 0]
<1>1. a \in Seq({"text", "call", "output", "shot"})
  BY ContextAssumption
<1>2. Len(a) \in Nat /\ \A i \in 1..Len(a) : a[i] \in {"text", "call", "output", "shot"}
  BY <1>1, LenProperties, ElementOfSeq
<1>3. Len(history) \in Nat
  BY LenProperties DEF ContextTypeOK
<1>4. ASSUME NEW i \in 1..Len(a)
      PROVE  item(i) \in Message
  <2>1. i \in Nat /\ 1 \in Int /\ i \in Int
    BY <1>2
  <2>2. \A k : IsFiniteSet({j \in 1..i : a[j] = k})
    BY <2>1, FS_Interval, FS_Subset
  <2>3. \A k : Nth(k, i) \in Nat
    BY <2>2, FS_CardinalityType
  <2> HIDE DEF Nth
  <2>4. Len(history) + Nth(a[i], i) \in Nat
    BY <1>3, <2>3
  <2>5. QED
    BY <1>2, <2>4 DEF Message, MessageKinds
<1>5. Items(a) = [i \in 1..Len(a) |-> item(i)]
  BY DEF Items
<1> HIDE DEF item
<1>6. Items(a) \in [1..Len(a) -> Message]
  BY <1>4, <1>5
<1>7. QED
  BY <1>2, <1>6, SeqDef DEF Messages

LEMMA ContextIsTyped ==
  ASSUME ContextTypeOK
  PROVE  /\ history \in Messages /\ Len(history) \in Nat
         /\ heldSummary \in [describes: Messages, covers: Messages]
         /\ backoff \in [turn: Nat, failures: Nat, until: Nat]
         /\ shown \in [cut: {"whole", "summarised", "trimmed"}, describes: Messages, kept: Messages]
         /\ ContextLimit \in Nat /\ BackoffCap \in Nat \ {0} /\ MaxRestarts \in Nat
BY ContextAssumption, LenProperties DEF ContextTypeOK, Messages

LEMMA NoMessages == <<>> \in Messages
BY EmptySeq DEF Messages

LEMMA ContextInvInit == ContextInit => ContextInv
<1> SUFFICES ASSUME ContextInit PROVE ContextInv
  OBVIOUS
<1>1. Prompt \in Message
  BY DEF Prompt, Message, MessageKinds
<1>2. history \in Messages /\ Len(history) = 1 /\ history[1] = Prompt
  BY <1>1 DEF ContextInit, Messages
<1>3. ContextTypeOK
  BY <1>2, NoMessages, ContextAssumption DEF ContextInit, ContextTypeOK, Messages, Unfiltered, NoHeld, NoWait
<1>4. ContextIsTrue
  BY DEF ContextInit, ContextIsTrue, SummaryTruthful, OnlyParallelOrphans, Summarised
<1>5. QED
  BY <1>2, <1>3, <1>4 DEF ContextInv, ContextInit, NoHeld

\* What a failed call of the summariser leaves.
LEMMA FailureIsTyped ==
  ASSUME ContextTypeOK, NEW b \in [turn: Nat, failures: Nat, until: Nat]
  PROVE  Failure(b) \in [turn: Nat, failures: Nat, until: Nat]
<1> DEFINE f == b.failures + 1
           W == {2 ^ f, BackoffCap} \cap 1..BackoffCap
<1>1. W \in SUBSET Nat /\ W # {}
  <2>1. BackoffCap \in Nat \ {0} /\ BackoffCap \in 1..BackoffCap
    BY ContextAssumption
  <2>2. 1..BackoffCap \subseteq Nat
    BY <2>1
  <2>3. QED
    BY <2>1, <2>2
<1> HIDE DEF W
<1>2. Min(W) \in Nat
  BY <1>1, MinProperties
<1>3. Failure(b) = [b EXCEPT !.failures = f, !.until = b.turn + Min(W)]
  BY DEF Failure, W
<1>4. f \in Nat /\ b.turn + Min(W) \in Nat
  BY <1>2
<1> HIDE DEF f
<1>5. QED
  BY <1>3, <1>4

\* A summary in the place of what it describes is the history, and the first
\* message kept is no result.
LEMMA SummaryIsTrue ==
  ASSUME NEW s \in Messages, Len(s) > 2, s[1].kind # "output",
         turnOf' = "shown", Stripped(history') = s,
         shown' = [cut |-> "summarised", describes |-> SubSeq(s, 2, Snapped(s)),
                   kept |-> <<s[1]>> \o From(s, Snapped(s) + 1)]
  PROVE  ContextIsTrue'
<1> DEFINE k == Snapped(s)
           kept == <<s[1]>> \o From(s, k + 1)
<1>1. k \in 2..(Len(s) - 1) /\ (k = Len(s) - 1 \/ s[k + 1].kind # "output")
  BY SnappedIsACut
<1> HIDE DEF k
<1>2. /\ Len(kept) = Len(s) - k + 1 /\ Len(s) \in Nat
      /\ Head(kept) = s[1] /\ Tail(kept) = From(s, k + 1)
      /\ kept[1] = s[1] /\ kept[2] = s[k + 1]
      /\ <<s[1]>> \o SubSeq(s, 2, k) \o From(s, k + 1) = s
  BY <1>1, CutsAddUp, LenProperties DEF Messages
<1>3. shown'.kept = kept /\ shown'.describes = SubSeq(s, 2, k)
  BY DEF k
<1> HIDE DEF kept
<1>4. SummaryTruthful'
  BY <1>2, <1>3 DEF SummaryTruthful
<1>5. OnlyParallelOrphans'
  <2> SUFFICES ASSUME NEW i \in 1..Len(kept), kept[i].kind = "output"
               PROVE  i > 2 \/ Len(kept) = 2
    BY <1>3 DEF OnlyParallelOrphans, Orphans
  <2>1. i # 1
    BY <1>2
  <2>2. i = 2 => k = Len(s) - 1
    BY <1>1, <1>2
  <2>3. k = Len(s) - 1 => Len(kept) = 2
    BY <1>1, <1>2
  <2>4. i \in Nat /\ i >= 1
    BY <1>1, <1>2
  <2>5. QED
    BY <2>1, <2>2, <2>3, <2>4
<1>6. QED
  BY <1>4, <1>5 DEF ContextIsTrue

\* What has been extended is all of what it covers.
LEMMA ExtensionIsAll ==
  ASSUME NEW s \in Messages, heldSummary.covers \in Messages, HeldMatches(s)
  PROVE  /\ heldSummary.covers \o From(s, Len(heldSummary.covers) + 1) = s
         /\ From(s, Len(heldSummary.covers) + 1) = <<>> => heldSummary.covers = s
<1> DEFINE c == heldSummary.covers
<1>1. /\ Len(c) <= Len(s) /\ SubSeq(c, 1, Len(c)) = SubSeq(s, 1, Len(c))
      /\ Len(c) \in Nat /\ Len(s) \in Nat
  BY LenProperties DEF HeldMatches, IsPrefix, Messages
<1>2. c = SubSeq(s, 1, Len(c))
  BY <1>1, SubSeqFull DEF Messages
<1> HIDE DEF c
<1>3. SubSeq(s, 1, Len(c)) \o SubSeq(s, Len(c) + 1, Len(s)) = SubSeq(s, 1, Len(s))
  <2>1. 1 \in 1..(Len(s) + 1) /\ Len(c) \in 0..Len(s) /\ Len(s) \in Len(c)..Len(s) /\ 1 - 1 = 0
    BY <1>1
  <2>2. QED
    BY <2>1, ConcatAdjacentSubSeq DEF Messages
<1>4. SubSeq(s, 1, Len(s)) = s
  BY SubSeqFull DEF Messages
<1>5. c \o From(s, Len(c) + 1) = s
  BY <1>2, <1>3, <1>4 DEF From
<1>6. From(s, Len(c) + 1) = <<>> => c = s
  <2>1. c \in Messages
    BY DEF c
  <2>2. QED
    BY <1>5, <2>1, ConcatEmptySeq DEF Messages
<1>7. QED
  BY <1>5, <1>6 DEF c

LEMMA FilterStep ==
  ASSUME ContextInv, FilterInput
  PROVE  ContextInv'
<1> USE DEF ContextInv
<1> DEFINE s == Stripped(history)
           b == [backoff EXCEPT !.turn = @ + 1]
<1>1. /\ history \in Messages /\ Len(history) > 0 /\ history[1] = Prompt
      /\ UNCHANGED <<history, configured, restarts>> /\ turnOf' = "shown"
  BY ContextIsTyped DEF FilterInput
<1>2. s \in Messages /\ Len(s) = Len(history) /\ s[1] = Prompt /\ s[1].kind # "output" /\ Len(s) \in Nat
  <2>1. Prompt.kind = "prompt"
    BY DEF Prompt
  <2>2. 1 \in 1..Len(history)
    BY <1>1, ContextIsTyped
  <2>3. QED
    BY <1>1, <2>1, <2>2, StrippedIsTyped, ContextIsTyped
<1>3. b \in [turn: Nat, failures: Nat, until: Nat]
  BY ContextIsTyped
<1>4. Stripped(history') = s
  BY <1>1
<1> HIDE DEF b, s
<1> DEFINE Fine ==
             /\ shown' \in [cut: {"whole", "summarised", "trimmed"}, describes: Messages, kept: Messages]
             /\ heldSummary' \in [describes: Messages, covers: Messages]
             /\ heldSummary'.describes = heldSummary'.covers
             /\ backoff' \in [turn: Nat, failures: Nat, until: Nat]
             /\ shown'.cut = "summarised" => ContextIsTrue'
<1>5. heldSummary \in [describes: Messages, covers: Messages] /\ heldSummary.describes = heldSummary.covers
  BY ContextIsTyped
<1>6. ASSUME Len(s) > 2, Trim(s)
      PROVE  /\ shown' \in [cut: {"whole", "summarised", "trimmed"}, describes: Messages, kept: Messages]
             /\ shown'.cut = "trimmed"
  BY <1>2, <1>6, TrimmedIsTyped, NoMessages DEF Trim
<1>7. Fine
  <2>1. CASE /\ shown' = [Unfiltered EXCEPT !.kept = s]
             /\ UNCHANGED <<heldSummary, backoff>>
    BY <1>2, <1>5, <2>1, NoMessages, ContextIsTyped DEF Unfiltered
  <2>2. CASE Len(s) > 2 /\ backoff' = b /\ Trim(s) /\ UNCHANGED heldSummary
    BY <1>3, <1>5, <1>6, <2>2
  <2>3. CASE Len(s) > 2 /\ AskForSummary(s, b)
    <3> DEFINE old == SubSeq(s, 2, Snapped(s))
               extends == HeldMatches(old)
               beyond == From(old, Len(heldSummary.covers) + 1)
               made == IF extends THEN heldSummary.describes \o beyond ELSE old
    <3>1. old \in Messages /\ Snapped(s) \in 2..(Len(s) - 1) /\ <<s[1]>> \o From(s, Snapped(s) + 1) \in Messages
      <4>1. Snapped(s) \in 2..(Len(s) - 1)
        BY <1>2, <2>3, SnappedIsACut
      <4>2. QED
        BY <1>2, <4>1, CutsAddUp
    <3> HIDE DEF old
    <3>2. extends => heldSummary.covers \o beyond = old /\ (beyond = <<>> => heldSummary.covers = old)
      BY <1>5, <3>1, ExtensionIsAll
    <3>3. made = old
      BY <1>5, <3>2
    <3>4. ASSUME Summarise(old, s)
          PROVE  /\ shown' \in [cut: {"whole", "summarised", "trimmed"}, describes: Messages, kept: Messages]
                 /\ ContextIsTrue'
      <4>1. shown' = [cut |-> "summarised", describes |-> SubSeq(s, 2, Snapped(s)),
                      kept |-> <<s[1]>> \o From(s, Snapped(s) + 1)]
        BY <3>4 DEF Summarise, old
      <4>2. ContextIsTrue'
        BY <1>1, <1>2, <1>4, <2>3, <4>1, SummaryIsTrue
      <4>3. QED
        BY <3>1, <4>1, <4>2 DEF old
    <3>5. \/ /\ extends /\ beyond = <<>>
             /\ Summarise(heldSummary.describes, s)
             /\ backoff' = b /\ UNCHANGED heldSummary
          \/ /\ ~(extends /\ beyond = <<>>) /\ configured
             /\ Summarise(made, s)
             /\ heldSummary' = [describes |-> made, covers |-> old]
             /\ backoff' = Success(b)
          \/ /\ ~(extends /\ beyond = <<>>)
             /\ Trim(s)
             /\ backoff' = IF configured THEN Failure(b) ELSE b
             /\ UNCHANGED heldSummary
      BY <2>3 DEF AskForSummary, old
    <3>6. Success(b) \in [turn: Nat, failures: Nat, until: Nat]
      BY <1>3 DEF Success
    <3>7. Failure(b) \in [turn: Nat, failures: Nat, until: Nat]
      BY <1>3, FailureIsTyped
    <3> HIDE DEF extends, beyond, made
    <3>8. CASE Summarise(old, s) /\ UNCHANGED heldSummary /\ backoff' = b
      BY <1>3, <1>5, <3>4, <3>8
    <3>9. CASE Summarise(old, s) /\ heldSummary' = [describes |-> old, covers |-> old] /\ backoff' = Success(b)
      BY <3>1, <3>4, <3>6, <3>9
    <3>10. CASE Trim(s) /\ UNCHANGED heldSummary /\ backoff' = IF configured THEN Failure(b) ELSE b
      BY <1>3, <1>5, <1>6, <2>3, <3>7, <3>10
    <3>11. QED
      <4>1. extends /\ beyond = <<>> => heldSummary.describes = old
        BY <1>5, <3>2
      <4>2. QED
        BY <3>3, <3>5, <3>8, <3>9, <3>10, <4>1
  <2>4. QED
    BY <2>1, <2>2, <2>3 DEF FilterInput, s, b
<1>8. ContextTypeOK'
  BY <1>1, <1>7 DEF ContextTypeOK, Messages
<1>9. ContextIsTrue'
  BY <1>7 DEF ContextIsTrue, SummaryTruthful, OnlyParallelOrphans, Summarised
<1>10. QED
  BY <1>1, <1>7, <1>8, <1>9

LEMMA AnswerSteps ==
  ASSUME ContextInv, RestartAttempt \/ \E a \in Answers : ModelAnswers(a)
  PROVE  ContextInv'
<1> USE DEF ContextInv
<1>1. turnOf' = "idle"
  BY DEF RestartAttempt, ModelAnswers
<1>2. ContextIsTrue'
  BY <1>1 DEF ContextIsTrue, SummaryTruthful, OnlyParallelOrphans, Summarised
<1>3. CASE RestartAttempt
  <2>1. Prompt \in Message
    BY DEF Prompt, Message, MessageKinds
  <2>2. history' \in Messages /\ Len(history') = 1 /\ history'[1] = Prompt
    BY <1>3, <2>1 DEF RestartAttempt, Messages
  <2>3. restarts' \in 0..MaxRestarts
    BY <1>3, ContextIsTyped DEF RestartAttempt, ContextTypeOK
  <2>4. heldSummary' = NoHeld /\ backoff' = NoWait /\ shown' = Unfiltered /\ UNCHANGED configured
    BY <1>3 DEF RestartAttempt
  <2>5. ContextTypeOK'
    BY <1>1, <2>2, <2>3, <2>4, NoMessages DEF ContextTypeOK, Messages, Unfiltered, NoHeld, NoWait
  <2>6. QED
    BY <1>2, <2>2, <2>4, <2>5 DEF NoHeld
<1>4. CASE \E a \in Answers : ModelAnswers(a)
  <2>1. PICK a \in Answers : ModelAnswers(a)
    BY <1>4
  <2>2. Items(a) \in Messages
    BY ItemsAreTyped
  <2>3. history \in Messages /\ Len(history) \in Nat /\ Len(history) > 0
    BY ContextIsTyped
  <2>4. history' = history \o Items(a) /\ UNCHANGED <<shown, heldSummary, backoff, configured, restarts>>
    BY <2>1 DEF ModelAnswers
  <2>5. /\ history' \in Messages /\ Len(history') = Len(history) + Len(Items(a)) /\ Len(Items(a)) \in Nat
        /\ \A i \in 1..(Len(history) + Len(Items(a))) :
             history'[i] = IF i <= Len(history) THEN history[i] ELSE Items(a)[i - Len(history)]
    BY <2>2, <2>3, <2>4, ConcatProperties, LenProperties DEF Messages
  <2>6. Len(history') > 0 /\ history'[1] = history[1]
    BY <2>3, <2>5
  <2>7. ContextTypeOK'
    BY <1>1, <2>4, <2>5 DEF ContextTypeOK, Messages
  <2>8. QED
    BY <1>2, <2>4, <2>6, <2>7
<1>5. QED
  BY <1>3, <1>4

LEMMA ContextInvStep == ContextInv /\ [ContextNext]_contextVars => ContextInv'
<1> SUFFICES ASSUME ContextInv, [ContextNext]_contextVars PROVE ContextInv'
  OBVIOUS
<1>1. CASE UNCHANGED contextVars
  <2>1. UNCHANGED <<history, turnOf, shown, heldSummary, backoff, configured, restarts>>
    BY <1>1 DEF contextVars
  <2>2. ContextTypeOK'
    BY <2>1 DEF ContextInv, ContextTypeOK
  <2>3. ContextIsTrue'
    BY <2>1 DEF ContextInv, ContextIsTrue, SummaryTruthful, OnlyParallelOrphans, Orphans, Summarised
  <2>4. QED
    BY <2>1, <2>2, <2>3 DEF ContextInv
<1>2. QED
  BY <1>1, FilterStep, AnswerSteps DEF ContextNext

\* What the model is shown is the task's prompt, a summary that describes exactly the
\* messages it stands for, and the messages after them in order: _match_held_summary,
\* _compact_context, _snap_split_forward and the degraded cut of
\* filter_model_input keep it so for any history, budgets and failed summaries.
THEOREM ContextStaysTrue == ContextSpec => []ContextIsTrue
<1>1. ContextInv => ContextIsTrue
  BY DEF ContextInv
<1>2. QED
  BY <1>1, ContextInvInit, ContextInvStep, PTL DEF ContextSpec

-----------------------------------------------------------------------------
(* Stalls                                                                  *)

Call   == [call: ToolCalls, digest: Digests]
Memory == [digest: Digests, count: 0..StallLimit]

\* What the detector remembers of a call is how often its last result repeats:
\* it has returned that so many times in a row, and no longer series is there.
Remembers(s, c, m) ==
  /\ \E i \in 1..(Len(s) + 1) :
       /\ Cardinality(CallsFrom(s, c, i)) = m.count
       /\ \A j \in CallsFrom(s, c, i) : s[j].digest = m.digest
  /\ \A i \in 1..Len(s) :
       AllEqual(s, c, i) => Cardinality(CallsFrom(s, c, i)) <= m.count
  /\ m.count = 0 => CallsFrom(s, c, 1) = {}

StallInv ==
  /\ RunnerTypeOK
  /\ runner = "starting" => attempt = 0
  /\ runner = "backoff" => attempt < MaxAgentRetries
  /\ \A c \in ToolCalls : Remembers(calls, c, seen[c])
  /\ runner # "exited" =>
       \A c \in ToolCalls : /\ seen[c].count < StallLimit
                            /\ seen[c].count >= NudgeLimit => c \in nudgedCalls
  /\ outcome = "stalled" => \E c \in nudgedCalls : seen[c].count >= StallLimit

LEMMA LoopIsTyped ==
  ASSUME RunnerTypeOK
  PROVE  /\ seen \in [ToolCalls -> Memory] /\ calls \in Seq(Call) /\ Len(calls) \in Nat
         /\ \A c \in ToolCalls : seen[c].count \in Nat
         /\ NudgeLimit \in Nat /\ StallLimit \in Nat /\ MaxAgentRetries \in Nat
<1>1. seen \in [ToolCalls -> Memory] /\ calls \in Seq(Call)
  BY DEF RunnerTypeOK, Memory, Call
<1>2. Len(calls) \in Nat
  BY <1>1, LenProperties
<1>3. QED
  BY <1>1, <1>2, RunnerAssumption DEF Memory

LEMMA FreshMemory == Fresh \in [ToolCalls -> Memory] /\ \A c \in ToolCalls : Fresh[c].count = 0
<1>1. (CHOOSE d \in Digests : TRUE) \in Digests
  BY RunnerAssumption
<1>2. QED
  BY <1>1, RunnerAssumption DEF Fresh, NeverCalled, Memory

\* A fresh detector and no calls agree.
LEMMA FreshRemembers ==
  ASSUME NEW c \in ToolCalls
  PROVE  Remembers(<<>>, c, Fresh[c])
<1>1. Len(<<>>) = 0 /\ Fresh[c].count = 0
  BY FreshMemory
<1>2. \A i \in 1..1 : CallsFrom(<<>>, c, i) = {}
  BY <1>1 DEF CallsFrom
<1>3. 1 \in 1..(Len(<<>>) + 1) /\ 1..Len(<<>>) = {}
  BY <1>1
<1>4. CallsFrom(<<>>, c, 1) = {} /\ Cardinality(CallsFrom(<<>>, c, 1)) = Fresh[c].count
  BY <1>1, <1>2, FS_EmptySet
<1>5. QED
  BY <1>3, <1>4 DEF Remembers

LEMMA CallsAreFinite ==
  ASSUME NEW s \in Seq(Call), NEW c, NEW i \in Nat
  PROVE  IsFiniteSet(CallsFrom(s, c, i)) /\ Cardinality(CallsFrom(s, c, i)) \in Nat
<1>1. IsFiniteSet(i..Len(s))
  BY LenProperties, FS_Interval
<1>2. CallsFrom(s, c, i) \in SUBSET (i..Len(s))
  BY DEF CallsFrom
<1>3. QED
  BY <1>1, <1>2, FS_Subset, FS_CardinalityType

\* A true count says how long the longest repetition is.
LEMMA CountDecides ==
  ASSUME RunnerTypeOK, NEW c \in ToolCalls, Remembers(calls, c, seen[c]), NEW n \in Nat \ {0}
  PROVE  Repeats(c, n) <=> seen[c].count >= n
<1>0. calls \in Seq(Call) /\ Len(calls) \in Nat /\ seen[c].count \in Nat
  BY LoopIsTyped
<1>1. ASSUME NEW i \in 1..Len(calls), Cardinality(CallsFrom(calls, c, i)) >= n, AllEqual(calls, c, i)
      PROVE  seen[c].count >= n
  <2>1. Cardinality(CallsFrom(calls, c, i)) <= seen[c].count
    BY <1>1 DEF Remembers
  <2>2. \A s \in Seq(Call) : Cardinality(CallsFrom(s, c, i)) \in Nat
    BY CallsAreFinite
  <2>3. QED
    BY <1>0, <1>1, <2>1, <2>2
<1>2. ASSUME seen[c].count >= n
      PROVE  Repeats(c, n)
  <2>1. PICK i \in 1..(Len(calls) + 1) :
          /\ Cardinality(CallsFrom(calls, c, i)) = seen[c].count
          /\ \A j \in CallsFrom(calls, c, i) : calls[j].digest = seen[c].digest
    BY DEF Remembers
  <2>2. Cardinality(CallsFrom(calls, c, i)) # 0
    BY <1>0, <1>2, <2>1
  <2>3. CallsFrom(calls, c, i) # {}
    BY <2>2, FS_EmptySet
  <2>4. i \in 1..Len(calls)
    BY <1>0, <2>3 DEF CallsFrom
  <2>5. AllEqual(calls, c, i)
    BY <2>1 DEF AllEqual
  <2>6. QED
    BY <1>2, <2>1, <2>4, <2>5 DEF Repeats
<1>3. QED
  BY <1>1, <1>2 DEF Repeats

\* One more call, of the same name or of another.
LEMMA CallsGrow ==
  ASSUME NEW s \in Seq(Call), NEW x \in Call, NEW c \in ToolCalls
  PROVE  /\ Append(s, x) \in Seq(Call) /\ Len(s) \in Nat /\ Len(Append(s, x)) = Len(s) + 1
         /\ \A j \in 1..Len(s) : Append(s, x)[j] = s[j]
         /\ Append(s, x)[Len(s) + 1] = x
         /\ \A i \in 1..(Len(s) + 1) :
              /\ CallsFrom(s, c, i) \subseteq 1..Len(s)
              /\ CallsFrom(Append(s, x), c, i) =
                   IF x.call = c THEN CallsFrom(s, c, i) \cup {Len(s) + 1} ELSE CallsFrom(s, c, i)
<1> DEFINE t == Append(s, x)
<1>1. Len(s) \in Nat
  BY LenProperties
<1>2. /\ t \in Seq(Call) /\ Len(t) = Len(s) + 1
      /\ \A j \in 1..Len(s) : t[j] = s[j]
      /\ t[Len(s) + 1] = x
  BY <1>1, AppendProperties
<1> HIDE DEF t
<1>3. ASSUME NEW i \in 1..(Len(s) + 1)
      PROVE  /\ CallsFrom(s, c, i) \subseteq 1..Len(s)
             /\ CallsFrom(t, c, i) =
                  IF x.call = c THEN CallsFrom(s, c, i) \cup {Len(s) + 1} ELSE CallsFrom(s, c, i)
  <2>1. i..Len(t) = (i..Len(s)) \cup {Len(s) + 1}
    BY <1>1, <1>2
  <2>2. \A j \in i..Len(s) : j \in 1..Len(s) /\ t[j].call = s[j].call
    BY <1>1, <1>2
  <2>3. QED
    BY <1>2, <2>1, <2>2 DEF CallsFrom
<1>4. QED
  BY <1>1, <1>2, <1>3 DEF t

Recorded(m, d) == [digest |-> d, count |-> IF m.count > 0 /\ m.digest = d THEN m.count + 1 ELSE 1]

\* What is remembered stays true of the call that was made.
LEMMA RemembersNext ==
  ASSUME NEW s \in Seq(Call), NEW c \in ToolCalls, NEW d \in Digests, NEW m \in Memory,
         Remembers(s, c, m)
  PROVE  Remembers(Append(s, [call |-> c, digest |-> d]), c, Recorded(m, d))
<1> DEFINE x == [call |-> c, digest |-> d]
           t == Append(s, x)
           L == Len(s)
           C(i) == CallsFrom(s, c, i)
           D(i) == CallsFrom(t, c, i)
           w == Recorded(m, d)
<1>0. L \in Nat /\ m.count \in Nat
  BY LenProperties, RunnerAssumption DEF Memory
<1>1. /\ Len(t) = L + 1 /\ t[L + 1] = x
      /\ \A j \in 1..L : t[j] = s[j]
      /\ \A i \in 1..(L + 1) : C(i) \subseteq 1..L /\ D(i) = C(i) \cup {L + 1}
  <2>1. x \in Call /\ x.call = c
    BY DEF Call
  <2> HIDE DEF x
  <2>2. QED
    BY <2>1, CallsGrow
<1>2. \A i \in 1..(L + 1) : /\ Cardinality(C(i)) \in Nat
                            /\ Cardinality(D(i)) = Cardinality(C(i)) + 1
  <2> TAKE i \in 1..(L + 1)
  <2>1. IsFiniteSet(C(i)) /\ Cardinality(C(i)) \in Nat
    BY <1>0, CallsAreFinite
  <2>2. L + 1 \notin C(i)
    BY <1>0, <1>1
  <2>3. QED
    BY <1>1, <2>1, <2>2, FS_AddElement
<1>3. PICK at \in 1..(L + 1) : /\ Cardinality(C(at)) = m.count
                               /\ \A j \in C(at) : s[j].digest = m.digest
  BY DEF Remembers
<1>4. C(L + 1) = {}
  BY <1>0 DEF CallsFrom
<1>5. \A i \in 1..(L + 1) : AllEqual(s, c, i) => Cardinality(C(i)) <= m.count
  <2>1. \A i \in 1..L : AllEqual(s, c, i) => Cardinality(C(i)) <= m.count
    BY DEF Remembers
  <2>2. Cardinality(C(L + 1)) = 0
    BY <1>4, FS_EmptySet
  <2>3. \A i \in 1..(L + 1) : i \in 1..L \/ i = L + 1
    BY <1>0
  <2>4. QED
    BY <1>0, <2>1, <2>2, <2>3
<1>6. x.digest = d
  OBVIOUS
<1>7. \A i \in 1..(L + 1) : AllEqual(t, c, i) =>
        AllEqual(s, c, i) /\ \A j \in C(i) : s[j].digest = d
  <2> SUFFICES ASSUME NEW i \in 1..(L + 1), AllEqual(t, c, i)
               PROVE  AllEqual(s, c, i) /\ \A j \in C(i) : s[j].digest = d
    OBVIOUS
  <2>1. \A j, k \in D(i) : t[j].digest = t[k].digest
    BY DEF AllEqual
  <2>2. \A j \in C(i) : t[j] = s[j] /\ j \in D(i)
    BY <1>1
  <2>3. L + 1 \in D(i)
    BY <1>1
  <2> HIDE DEF C, D, t, x, L
  <2>4. QED
    BY <2>1, <2>2, <2>3, <1>1, <1>6 DEF AllEqual, C
<1>8. w.digest = d /\ w.count = (IF m.count > 0 /\ m.digest = d THEN m.count + 1 ELSE 1)
  BY DEF Recorded
<1>9. m.count = 0 => C(1) = {}
  BY DEF Remembers
<1>10. \A i \in 1..(L + 1) : C(i) \subseteq C(1)
  BY <1>0 DEF CallsFrom
<1>11. \A i, k \in 1..(L + 1) : \A j \in C(k) : j >= i => j \in C(i)
  BY <1>0 DEF CallsFrom
<1>12. \A i \in 1..(L + 1) : \A j \in C(i) : j \in Nat /\ j >= i
  BY <1>0 DEF CallsFrom
<1> SUFFICES /\ \E i \in 1..(L + 2) : /\ Cardinality(D(i)) = w.count
                                      /\ \A j \in D(i) : t[j].digest = w.digest
             /\ \A i \in 1..(L + 1) : AllEqual(t, c, i) => Cardinality(D(i)) <= w.count
             /\ w.count # 0
  <2> HIDE DEF t, w, L, x
  <2>1. Len(t) + 1 = L + 2 /\ 1 \in 1..(L + 1)
    BY <1>0, <1>1
  <2>2. Remembers(t, c, w)
    BY <1>1, <2>1 DEF Remembers
  <2>3. QED
    BY <2>2 DEF t, w, x
<1> HIDE DEF C, D, t, x, L, w
<1>13. \A i \in 1..(L + 1) : i \in 1..(L + 2)
  BY <1>0
<1>14. w.count # 0
  BY <1>0, <1>8
<1>15. CASE m.count > 0 /\ m.digest = d
  <2>1. w.count = m.count + 1
    BY <1>8, <1>15
  <2>2. Cardinality(D(at)) = w.count
    BY <1>2, <1>3, <2>1
  <2>3. \A j \in D(at) : t[j].digest = w.digest
    BY <1>1, <1>3, <1>6, <1>8, <1>15
  <2>4. \A i \in 1..(L + 1) : AllEqual(t, c, i) => Cardinality(D(i)) <= w.count
    BY <1>0, <1>2, <1>5, <1>7, <2>1
  <2>5. QED
    BY <1>13, <1>14, <2>2, <2>3, <2>4
<1>16. CASE ~(m.count > 0 /\ m.digest = d)
  <2>1. w.count = 1
    BY <1>8, <1>16
  <2>2. L + 1 \in 1..(L + 1)
    BY <1>0
  <2>3. D(L + 1) = {L + 1}
    BY <1>1, <1>4, <2>2
  <2>4. Cardinality(D(L + 1)) = w.count /\ \A j \in D(L + 1) : t[j].digest = w.digest
    BY <1>1, <1>6, <1>8, <2>1, <2>3, FS_Singleton
  <2>5. \A i \in 1..(L + 1) : (\A j \in C(i) : s[j].digest = d) => C(i) = {}
    <3> SUFFICES ASSUME NEW i \in 1..(L + 1), \A j \in C(i) : s[j].digest = d, NEW j \in C(i)
                 PROVE  FALSE
      OBVIOUS
    <3>1. m.count # 0 /\ m.digest # d
      BY <1>0, <1>9, <1>10, <1>16
    <3>2. PICK k : k \in C(at)
      BY <1>3, <3>1, FS_EmptySet
    <3>3. i <= at => k \in C(i)
      BY <1>0, <1>11, <1>12, <3>2
    <3>4. i > at => j \in C(at)
      BY <1>0, <1>11, <1>12
    <3>5. i <= at \/ i > at
      BY <1>0
    <3>6. QED
      BY <1>3, <3>1, <3>2, <3>3, <3>4, <3>5
  <2>6. \A i \in 1..(L + 1) : AllEqual(t, c, i) => Cardinality(D(i)) <= w.count
    <3>1. \A i \in 1..(L + 1) : AllEqual(t, c, i) => D(i) = {L + 1}
      BY <1>1, <1>7, <2>5
    <3>2. Cardinality({L + 1}) = w.count
      BY <2>1, FS_Singleton
    <3>3. w.count <= w.count
      BY <2>1
    <3>4. QED
      BY <3>1, <3>2, <3>3
  <2>7. QED
    BY <1>13, <1>14, <2>2, <2>4, <2>6
<1>17. QED
  BY <1>15, <1>16

\* And of every other call.
LEMMA RemembersOthers ==
  ASSUME NEW s \in Seq(Call), NEW x \in Call, NEW c \in ToolCalls \ {x.call}, NEW m \in Memory,
         Remembers(s, c, m)
  PROVE  Remembers(Append(s, x), c, m)
<1> DEFINE t == Append(s, x)
           L == Len(s)
<1>0. L \in Nat /\ m.count \in Nat
  BY LenProperties, RunnerAssumption DEF Memory
<1>1. /\ Len(t) = L + 1
      /\ \A j \in 1..L : t[j] = s[j]
      /\ \A i \in 1..(L + 1) : /\ CallsFrom(s, c, i) \subseteq 1..L
                               /\ CallsFrom(t, c, i) = CallsFrom(s, c, i)
  <2>1. x.call # c /\ c \in ToolCalls
    OBVIOUS
  <2>2. /\ Append(s, x) \in Seq(Call) /\ Len(s) \in Nat /\ Len(Append(s, x)) = Len(s) + 1
        /\ \A j \in 1..Len(s) : Append(s, x)[j] = s[j]
        /\ Append(s, x)[Len(s) + 1] = x
        /\ \A i \in 1..(Len(s) + 1) :
             /\ CallsFrom(s, c, i) \subseteq 1..Len(s)
             /\ CallsFrom(Append(s, x), c, i) =
                  IF x.call = c THEN CallsFrom(s, c, i) \cup {Len(s) + 1} ELSE CallsFrom(s, c, i)
    BY CallsGrow
  <2>3. QED
    BY <2>1, <2>2
<1>2. \A i \in 1..(L + 1) : AllEqual(t, c, i) => AllEqual(s, c, i)
  BY <1>1 DEF AllEqual
<1>3. Cardinality(CallsFrom(s, c, L + 1)) <= m.count
  <2>1. CallsFrom(s, c, L + 1) = {}
    BY <1>0 DEF CallsFrom
  <2>2. Cardinality(CallsFrom(s, c, L + 1)) = 0
    BY <2>1, FS_EmptySet
  <2>3. QED
    BY <1>0, <2>2
<1>4. PICK at \in 1..(L + 1) : /\ Cardinality(CallsFrom(s, c, at)) = m.count
                               /\ \A j \in CallsFrom(s, c, at) : s[j].digest = m.digest
  BY DEF Remembers
<1>5. \A i \in 1..L : AllEqual(s, c, i) => Cardinality(CallsFrom(s, c, i)) <= m.count
  BY DEF Remembers
<1>6. m.count = 0 => CallsFrom(s, c, 1) = {}
  BY DEF Remembers
<1> SUFFICES /\ \E i \in 1..(L + 2) : /\ Cardinality(CallsFrom(t, c, i)) = m.count
                                      /\ \A j \in CallsFrom(t, c, i) : t[j].digest = m.digest
             /\ \A i \in 1..(L + 1) : AllEqual(t, c, i) => Cardinality(CallsFrom(t, c, i)) <= m.count
             /\ m.count = 0 => CallsFrom(t, c, 1) = {}
  <2> HIDE DEF t, L
  <2>1. QED
    BY <1>0, <1>1 DEF Remembers, t
<1> HIDE DEF t, L
<1>7. \A i \in 1..(L + 1) : (i \in 1..L \/ i = L + 1) /\ i \in 1..(L + 2)
  BY <1>0
<1>8. 1 \in 1..(L + 1)
  BY <1>0
<1>9. /\ Cardinality(CallsFrom(t, c, at)) = m.count
      /\ \A j \in CallsFrom(t, c, at) : t[j].digest = m.digest
  BY <1>1, <1>4
<1>10. \A i \in 1..(L + 1) : AllEqual(t, c, i) => Cardinality(CallsFrom(t, c, i)) <= m.count
  BY <1>1, <1>2, <1>3, <1>5, <1>7
<1>11. m.count = 0 => CallsFrom(t, c, 1) = {}
  BY <1>1, <1>6, <1>8
<1>12. QED
  BY <1>7, <1>9, <1>10, <1>11

LEMMA StallInvInit == RunnerInit => StallInv
<1> SUFFICES ASSUME RunnerInit PROVE StallInv
  OBVIOUS
<1>1. \A c \in ToolCalls : Fresh[c].count < StallLimit /\ ~(Fresh[c].count >= NudgeLimit)
  BY FreshMemory, RunnerAssumption
<1>2. RunnerTypeOK
  <2>1. seen \in [ToolCalls -> Memory] /\ calls = <<>>
    BY FreshMemory DEF RunnerInit
  <2>2. calls \in Seq(Call)
    BY <2>1, EmptySeq
  <2>3. attempt \in 0..MaxAgentRetries /\ recovered \in [Suffixed -> 0..HarmonyCap]
    BY RunnerAssumption DEF RunnerInit
  <2>4. QED
    BY <2>1, <2>2, <2>3 DEF RunnerInit, RunnerTypeOK, Memory, Outcomes, Call
<1>3. QED
  BY <1>1, <1>2, FreshRemembers DEF RunnerInit, StallInv

\* A step that leaves the detector alone.
LEMMA DetectorRests ==
  ASSUME StallInv, RunnerTypeOK', UNCHANGED <<seen, calls, nudgedCalls>>,
         runner' = "starting" => attempt' = 0,
         runner' = "backoff" => attempt' < MaxAgentRetries,
         runner' = runner \/ runner = "running", outcome' # "stalled" \/ outcome' = outcome
  PROVE  StallInv'
<1>1. runner' # "exited" => runner # "exited"
  OBVIOUS
<1>2. \A c \in ToolCalls : Remembers(calls', c, seen'[c])
  BY DEF StallInv
<1>3. QED
  BY <1>1, <1>2 DEF StallInv

\* An attempt begins with a fresh detector.
LEMMA AttemptBegins ==
  ASSUME StallInv, RunnerTypeOK', NewDetector, runner' = "running", UNCHANGED outcome,
         outcome # "stalled"
  PROVE  StallInv'
<1>1. \A c \in ToolCalls : seen'[c].count < StallLimit /\ ~(seen'[c].count >= NudgeLimit)
  BY FreshMemory, RunnerAssumption DEF NewDetector
<1>2. \A c \in ToolCalls : Remembers(calls', c, seen'[c])
  BY FreshRemembers DEF NewDetector
<1>3. QED
  BY <1>1, <1>2 DEF StallInv

LEMMA CallToolStep ==
  ASSUME StallInv, NEW c \in ToolCalls, NEW d \in Digests, CallTool(c, d)
  PROVE  StallInv'
<1> USE DEF StallInv
<1> DEFINE x == [call |-> c, digest |-> d]
           n == Counted(c, d)
<1>1. /\ runner = "running" /\ calls' = Append(calls, x)
      /\ seen' = [seen EXCEPT ![c] = [digest |-> d, count |-> n]]
  BY DEF CallTool, InTurn
<1>2. /\ seen \in [ToolCalls -> Memory] /\ calls \in Seq(Call) /\ x \in Call
      /\ \A e \in ToolCalls : seen[e].count \in Nat
      /\ NudgeLimit \in Nat /\ StallLimit \in Nat /\ NudgeLimit < StallLimit /\ NudgeLimit > 0
  BY LoopIsTyped, RunnerAssumption DEF Call
<1>3. n \in 1..StallLimit /\ n <= seen[c].count + 1
  <2>1. seen[c].count \in Nat /\ seen[c].count < StallLimit
    BY <1>1, <1>2
  <2>2. QED
    BY <1>2, <2>1 DEF Counted
<1>4. seen' \in [ToolCalls -> Memory] /\ seen'[c].count = n /\ \A e \in ToolCalls \ {c} : seen'[e] = seen[e]
  BY <1>1, <1>2, <1>3 DEF Memory
<1>5. calls' \in Seq(Call)
  BY <1>1, <1>2, AppendProperties
<1>6. \A e \in ToolCalls : Remembers(calls', e, seen'[e])
  <2>1. Remembers(Append(calls, x), c, Recorded(seen[c], d))
    <3>1. \A m \in Memory, s \in Seq(Call) : Remembers(s, c, m) => Remembers(Append(s, x), c, Recorded(m, d))
      BY RemembersNext
    <3>2. QED
      BY <1>2, <3>1
  <2>2. seen'[c] = Recorded(seen[c], d)
    BY <1>1, <1>2 DEF Recorded, Counted
  <2>3. ASSUME NEW e \in ToolCalls \ {c}
        PROVE  Remembers(Append(calls, x), e, seen[e])
    <3>1. \A m \in Memory, s \in Seq(Call) : Remembers(s, e, m) => Remembers(Append(s, x), e, m)
      <4>1. x.call = c
        OBVIOUS
      <4> HIDE DEF x
      <4>2. QED
        BY <1>2, <4>1, RemembersOthers
    <3>2. QED
      BY <1>2, <3>1
  <2>4. QED
    BY <1>1, <1>4, <2>1, <2>2, <2>3
<1>7. RunnerTypeOK'
  <2>1. /\ runner' \in {"starting", "running", "backoff", "exited"} /\ outcome' \in Outcomes
        /\ (runner' = "exited") = (outcome' # "none")
    BY <1>1 DEF CallTool, Exit, RunnerTypeOK, Outcomes
  <2>2. nudgedCalls' \in SUBSET ToolCalls
    BY DEF CallTool, Exit, RunnerTypeOK
  <2>3. UNCHANGED <<attempt, nudgedOnce, recovered, enabled, submitted>>
    BY DEF CallTool, Exit
  <2>4. QED
    BY <1>4, <1>5, <2>1, <2>2, <2>3 DEF RunnerTypeOK, Memory, Call
<1>8. CASE n >= StallLimit /\ Exit("stalled")
  <2>1. c \in nudgedCalls
    BY <1>1, <1>2, <1>3, <1>8
  <2>2. c \in nudgedCalls' /\ seen'[c].count >= StallLimit
    BY <1>4, <1>8, <2>1 DEF Exit
  <2>3. runner' = "exited"
    BY <1>8 DEF Exit
  <2>4. QED
    BY <1>6, <1>7, <2>2, <2>3
<1>9. CASE /\ n < StallLimit
           /\ nudgedCalls' = IF n >= NudgeLimit THEN nudgedCalls \cup {c} ELSE nudgedCalls
           /\ UNCHANGED <<runner, attempt, nudgedOnce, recovered, enabled, submitted, outcome>>
  <2>1. outcome' = "none"
    BY <1>1, <1>9 DEF RunnerTypeOK
  <2>2. \A e \in ToolCalls : /\ seen'[e].count < StallLimit
                             /\ seen'[e].count >= NudgeLimit => e \in nudgedCalls'
    <3> HIDE DEF n
    <3>1. QED
      BY <1>1, <1>2, <1>4, <1>9
  <2>3. QED
    BY <1>1, <1>6, <1>7, <1>9, <2>1, <2>2
<1>10. QED
  BY <1>8, <1>9 DEF CallTool

LEMMA AttemptSteps ==
  ASSUME StallInv,
         \/ StartRunner \/ SubmitResult \/ AttemptFails \/ TransientError \/ BackedOff
         \/ \E t \in KnownTools : DiscoverTools(t) \/ UndiscoveredTool(t)
         \/ \E text \in BOOLEAN : FinalAnswer(text)
         \/ \E p \in Suffixed : SuffixedName(p)
  PROVE  StallInv'
<1> USE DEF StallInv
<1>1. /\ attempt \in 0..MaxAgentRetries /\ MaxAgentRetries \in Nat \ {0}
      /\ runner # "exited" => outcome = "none"
      /\ runner = "starting" => attempt = 0
      /\ runner = "backoff" => attempt < MaxAgentRetries
  BY RunnerAssumption DEF RunnerTypeOK
<1>2. \/ /\ NewDetector /\ runner' = "running" /\ UNCHANGED outcome /\ outcome # "stalled"
         /\ attempt' \in 0..MaxAgentRetries
      \/ /\ UNCHANGED <<seen, calls, nudgedCalls, attempt>> /\ runner = "running"
         /\ runner' \in {"running", "backoff", "exited"}
         /\ runner' = "backoff" => attempt' < MaxAgentRetries
         /\ outcome' \in Outcomes /\ outcome' # "stalled" /\ (runner' = "exited") = (outcome' # "none")
  <2>1. CASE StartRunner
    BY <1>1, <2>1 DEF StartRunner, BeginAttempt
  <2>2. CASE BackedOff
    BY <1>1, <2>2 DEF BackedOff, BeginAttempt
  <2>3. CASE SubmitResult \/ \E t \in KnownTools : DiscoverTools(t)
    BY <1>1, <2>3 DEF SubmitResult, DiscoverTools, InTurn, Outcomes
  <2>4. CASE \E t \in KnownTools : UndiscoveredTool(t)
    BY <1>1, <2>4 DEF UndiscoveredTool, BeginAttempt
  <2>5. CASE \E p \in Suffixed : SuffixedName(p)
    BY <1>1, <2>5 DEF SuffixedName, BeginAttempt, Exit, Outcomes
  <2>6. CASE \E text \in BOOLEAN : FinalAnswer(text)
    BY <1>1, <2>6 DEF FinalAnswer, BeginAttempt, Exit, Outcomes
  <2>7. CASE AttemptFails
    BY <1>1, <2>7 DEF AttemptFails, Exit, Outcomes
  <2>8. CASE TransientError
    BY <1>1, <2>8 DEF TransientError, RetryLeft, Exit, Outcomes
  <2>9. QED
    BY <2>1, <2>2, <2>3, <2>4, <2>5, <2>6, <2>7, <2>8
<1>3. nudgedOnce' \in BOOLEAN /\ submitted' \in BOOLEAN /\ enabled' \in SUBSET KnownTools
  BY DEF RunnerTypeOK, StartRunner, BackedOff, SubmitResult, DiscoverTools, UndiscoveredTool, SuffixedName,
         FinalAnswer, AttemptFails, TransientError, Exit
<1>4. recovered' \in [Suffixed -> 0..HarmonyCap]
  <2>1. CASE \E p \in Suffixed : SuffixedName(p)
    BY <2>1, RunnerAssumption DEF SuffixedName, Exit, RunnerTypeOK
  <2>2. CASE ~\E p \in Suffixed : SuffixedName(p)
    BY <2>2 DEF RunnerTypeOK, StartRunner, BackedOff, SubmitResult, DiscoverTools, UndiscoveredTool,
         FinalAnswer, AttemptFails, TransientError, Exit
  <2>3. QED
    BY <2>1, <2>2
<1>5. CASE NewDetector /\ runner' = "running" /\ UNCHANGED outcome /\ outcome # "stalled"
           /\ attempt' \in 0..MaxAgentRetries
  <2>1. seen' \in [ToolCalls -> Memory] /\ nudgedCalls' = {} /\ calls' = <<>>
    BY <1>5, FreshMemory DEF NewDetector
  <2>2. <<>> \in Seq(Call)
    BY EmptySeq
  <2>3. outcome' \in Outcomes /\ (runner' = "exited") = (outcome' # "none")
    BY <1>5, <1>1 DEF RunnerTypeOK, Outcomes, StartRunner, BackedOff, UndiscoveredTool, SuffixedName,
         FinalAnswer, SubmitResult, DiscoverTools, AttemptFails, TransientError, Exit, InTurn
  <2>4. RunnerTypeOK'
    BY <1>3, <1>4, <1>5, <2>1, <2>2, <2>3 DEF RunnerTypeOK, Memory, Call
  <2>5. QED
    BY <1>5, <2>4, AttemptBegins
<1>6. CASE /\ UNCHANGED <<seen, calls, nudgedCalls, attempt>> /\ runner = "running"
           /\ runner' \in {"running", "backoff", "exited"}
           /\ runner' = "backoff" => attempt' < MaxAgentRetries
           /\ outcome' \in Outcomes /\ outcome' # "stalled" /\ (runner' = "exited") = (outcome' # "none")
  <2>1. RunnerTypeOK'
    BY <1>3, <1>4, <1>6 DEF RunnerTypeOK
  <2>2. QED
    BY <1>6, <2>1, DetectorRests
<1>7. QED
  BY <1>2, <1>5, <1>6

LEMMA StallInvStep == StallInv /\ [RunnerNext]_runnerVars => StallInv'
<1> SUFFICES ASSUME StallInv, [RunnerNext]_runnerVars PROVE StallInv'
  OBVIOUS
<1>1. CASE \E c \in ToolCalls, d \in Digests : CallTool(c, d)
  BY <1>1, CallToolStep
<1>2. CASE \/ StartRunner \/ SubmitResult \/ AttemptFails \/ TransientError \/ BackedOff
           \/ \E t \in KnownTools : DiscoverTools(t) \/ UndiscoveredTool(t)
           \/ \E text \in BOOLEAN : FinalAnswer(text)
           \/ \E p \in Suffixed : SuffixedName(p)
  BY <1>2, AttemptSteps
<1>3. CASE UNCHANGED runnerVars
  <2>1. RunnerTypeOK'
    BY <1>3 DEF StallInv, RunnerTypeOK, runnerVars
  <2>2. QED
    BY <1>3, <2>1 DEF StallInv, runnerVars
<1>4. QED
  BY <1>1, <1>2, <1>3 DEF RunnerNext

LEMMA StallsFollow == StallInv => StallIsSeen
<1> SUFFICES ASSUME StallInv PROVE StallIsSeen
  OBVIOUS
<1>1. NudgeLimit \in Nat \ {0} /\ StallLimit \in Nat \ {0}
  BY RunnerAssumption
<1>2. \A c \in ToolCalls : /\ Repeats(c, StallLimit) <=> seen[c].count >= StallLimit
                           /\ Repeats(c, NudgeLimit) <=> seen[c].count >= NudgeLimit
  BY <1>1, CountDecides DEF StallInv
<1>3. nudgedCalls \subseteq ToolCalls /\ \A c \in ToolCalls : seen[c].count \in Nat
  BY LoopIsTyped DEF StallInv, RunnerTypeOK
<1>4. QED
  BY <1>1, <1>2, <1>3 DEF StallInv, StallIsSeen

\* A call that returned the same result StallLimit times in a row has been seen by
\* StallDetector.record, whatever other calls came between and however often the
\* attempt was restarted, for any limits and any set of calls and results.
THEOREM StallsAreSeen == RunnerSpec => []StallIsSeen
BY StallsFollow, StallInvInit, StallInvStep, PTL DEF RunnerSpec

-----------------------------------------------------------------------------
(* Tools that run side by side                                             *)

\* What a tool call is made of; a call that has no file has some value there.
ToolShape ==
  [step : {"idle", "locking", "editing", "command", "refreshing", "posting", "again"},
   path : EditedFiles \cup {AFile}, lock : Locks \cup {NoLock}, read : Nat,
   token : Nat, stale : Nat]

ToolsShape ==
  /\ tool \in [Callers -> ToolShape]
  /\ lockOf \in [EditedFiles -> Locks \cup {NoLock}]
  /\ onDisk \in [EditedFiles -> Nat]
  /\ envToken \in Nat /\ failedFor \in Nat /\ askedFor \subseteq Nat

Uses(c) == tool[c].step \in {"locking", "editing"}

\* Who uses a file has the file's lock, and nobody else has one.
UsersHaveLocks ==
  \A c \in Callers :
    IF Uses(c) THEN /\ tool[c].path \in EditedFiles
                    /\ tool[c].lock = lockOf[tool[c].path] /\ tool[c].lock # NoLock
    ELSE tool[c].lock = NoLock

\* A lock exists while it is used, and is of one file.
LocksAreUsed ==
  /\ \A f \in EditedFiles : lockOf[f] # NoLock => UsersOf(lockOf[f]) # {}
  /\ \A f, g \in EditedFiles : lockOf[f] = lockOf[g] /\ lockOf[f] # NoLock => f = g

\* One edits a file at a time, and its version is the file's.
EditsExclude ==
  /\ \A c, q \in Callers :
       /\ tool[c].step = "editing" /\ tool[q].step = "editing"
       /\ tool[c].path = tool[q].path
       => c = q
  /\ \A c \in Callers : tool[c].step = "editing" => tool[c].read = onDisk[tool[c].path]

\* Who refreshes wants the token replaced that it ran with, and who has asked the
\* server wants the present one; one asks at a time.
AsksForOwn ==
  /\ \A c \in Callers : tool[c].step \in {"refreshing", "posting"} =>
                          tool[c].stale = tool[c].token
  /\ \A c \in Callers : tool[c].step = "posting" => tool[c].token = envToken
  /\ \A c, q \in Callers : tool[c].step = "posting" /\ tool[q].step = "posting" => c = q

\* A token asked about is replaced, being asked about, or remembered as failed.
AskedIsKnown ==
  \A t \in askedFor :
    \/ t < envToken
    \/ t = envToken /\ (failedFor = t \/ \E c \in Callers : tool[c].step = "posting")

FilesInv == UsersHaveLocks /\ LocksAreUsed /\ EditsExclude /\ NoLostEdit
RefreshInv == AsksForOwn /\ AskedIsKnown /\ RefreshedOnce

\* The inductive invariant.
ToolsInv == ToolsShape /\ FilesInv /\ RefreshInv

LEMMA IdleShape == /\ IdleTool \in ToolShape /\ IdleTool.step = "idle"
                   /\ IdleTool.lock = NoLock
BY DEF IdleTool, ToolShape

LEMMA LocksAreSome == ASSUME NEW k \in Locks PROVE k # NoLock
<1> SUFFICES ASSUME 0 \in Locks PROVE FALSE
  BY DEF NoLock
<1> DEFINE n == Cardinality(Callers)
<1>1. 0 \in 1..n
  BY DEF Locks
<1> HIDE DEF n
<1>2. QED
  BY <1>1

LEMMA ToolsInitInv == ToolsInit => ToolsInv
BY IdleShape DEF ToolsInit, ToolsInv, ToolsShape, FilesInv, RefreshInv, UsersHaveLocks,
   LocksAreUsed, EditsExclude, NoLostEdit, AsksForOwn, AskedIsKnown, RefreshedOnce, Uses,
   Locks, NoLock

\* A step that leaves files, locks and their users alone.
LEMMA FilesRest ==
  ASSUME ToolsShape, ToolsShape', FilesInv, UNCHANGED fileVars, NEW c \in Callers,
         ~Uses(c), ~Uses(c)', tool'[c].lock = NoLock,
         \A q \in Callers \ {c} : tool'[q] = tool[q]
  PROVE  FilesInv'
<1>1. UsersHaveLocks'
  BY DEF fileVars, FilesInv, UsersHaveLocks, Uses
<1>2. LocksAreUsed'
  BY DEF fileVars, FilesInv, LocksAreUsed, UsersOf, UsersHaveLocks
<1>3. EditsExclude' /\ NoLostEdit'
  BY DEF fileVars, FilesInv, EditsExclude, NoLostEdit, Uses
<1>4. QED
  BY <1>1, <1>2, <1>3 DEF FilesInv

\* A step of a call that does not refresh.
LEMMA RefreshRests ==
  ASSUME ToolsShape, ToolsShape', RefreshInv, UNCHANGED googleVars, NEW c \in Callers,
         {tool[c].step, tool'[c].step} \cap {"refreshing", "posting"} = {},
         \A q \in Callers \ {c} : tool'[q] = tool[q]
  PROVE  RefreshInv'
<1>1. AsksForOwn'
  BY DEF googleVars, RefreshInv, AsksForOwn
<1>2. AskedIsKnown'
  BY DEF googleVars, RefreshInv, AskedIsKnown
<1>3. QED
  BY <1>1, <1>2 DEF RefreshInv, RefreshedOnce, googleVars

LEMMA AskLockInv ==
  ASSUME ToolsInv, NEW c \in Callers, NEW f \in EditedFiles, AskLock(c, f)
  PROVE  ToolsInv'
<1>1. PICK k \in Locks :
        /\ IF lockOf[f] = NoLock THEN UsersOf(k) = {} ELSE k = lockOf[f]
        /\ lockOf' = [lockOf EXCEPT ![f] = k]
        /\ tool' = [tool EXCEPT ![c] = [IdleTool EXCEPT !.step = "locking",
                                        !.path = f, !.lock = k]]
  BY DEF AskLock
<1> DEFINE me == [IdleTool EXCEPT !.step = "locking", !.path = f, !.lock = k]
<1>2. /\ me \in ToolShape /\ me.step = "locking" /\ me.path = f /\ me.lock = k
      /\ k # NoLock
  BY LocksAreSome DEF IdleTool, ToolShape
<1>3. /\ tool'[c] = me /\ \A q \in Callers \ {c} : tool'[q] = tool[q]
      /\ lockOf'[f] = k /\ \A g \in EditedFiles \ {f} : lockOf'[g] = lockOf[g]
      /\ tool[c].step = "idle" /\ UNCHANGED <<onDisk, lost, googleVars>>
  BY <1>1 DEF AskLock, ToolsInv, ToolsShape
<1>4. ToolsShape'
  BY <1>1, <1>2, <1>3 DEF ToolsInv, ToolsShape, googleVars
<1>5. tool[c].lock = NoLock
  BY <1>3 DEF ToolsInv, FilesInv, UsersHaveLocks, Uses
<1>6. \A q \in Callers : Uses(q) /\ tool[q].path = f => tool[q].lock = k
  BY <1>1 DEF ToolsInv, FilesInv, UsersHaveLocks, UsersOf, LocksAreUsed
<1>7. \A g \in EditedFiles : lockOf[g] = k => g = f
  BY <1>1, <1>2 DEF ToolsInv, FilesInv, UsersOf, LocksAreUsed
<1>8. UsersHaveLocks'
  <2> SUFFICES ASSUME NEW q \in Callers
               PROVE  IF Uses(q)' THEN /\ tool'[q].path \in EditedFiles
                                       /\ tool'[q].lock = lockOf'[tool'[q].path]
                                       /\ tool'[q].lock # NoLock
                      ELSE tool'[q].lock = NoLock
    BY DEF UsersHaveLocks
  <2>1. CASE q = c
    BY <2>1, <1>2, <1>3 DEF Uses
  <2>2. CASE q # c
    BY <2>2, <1>3, <1>6 DEF Uses, ToolsInv, FilesInv, UsersHaveLocks
  <2>3. QED
    BY <2>1, <2>2
<1>9. LocksAreUsed'
  <2>1. ASSUME NEW g \in EditedFiles, lockOf'[g] # NoLock
        PROVE  \E q \in Callers : tool'[q].lock = lockOf'[g]
    <3>1. CASE g = f
      BY <3>1, <1>2, <1>3
    <3>2. CASE g # f
      <4>1. PICK q \in Callers : tool[q].lock = lockOf[g]
        BY <3>2, <2>1, <1>3 DEF ToolsInv, FilesInv, LocksAreUsed, UsersOf
      <4>2. q # c
        BY <4>1, <3>2, <2>1, <1>3, <1>5
      <4>3. QED
        BY <4>1, <4>2, <3>2, <1>3
    <3>3. QED
      BY <3>1, <3>2
  <2>2. ASSUME NEW g \in EditedFiles, NEW h \in EditedFiles,
               lockOf'[g] = lockOf'[h], lockOf'[g] # NoLock
        PROVE  g = h
    BY <2>2, <1>3, <1>7 DEF ToolsInv, FilesInv, LocksAreUsed
  <2>3. QED
    BY <2>1, <2>2 DEF LocksAreUsed, UsersOf
<1>10. EditsExclude' /\ NoLostEdit'
  <2>1. \A q \in Callers : tool'[q].step = "editing" =>
                              q # c /\ tool'[q] = tool[q] /\ onDisk' = onDisk
    BY <1>2, <1>3
  <2>2. QED
    BY <2>1, <1>3 DEF ToolsInv, FilesInv, EditsExclude, NoLostEdit
<1>11. RefreshInv'
  BY <1>2, <1>3, <1>4, RefreshRests DEF ToolsInv
<1>12. QED
  BY <1>4, <1>8, <1>9, <1>10, <1>11 DEF ToolsInv, FilesInv

LEMMA TakeLockInv ==
  ASSUME ToolsInv, NEW c \in Callers, TakeLock(c)
  PROVE  ToolsInv'
<1> DEFINE f == tool[c].path
<1>1. /\ f \in EditedFiles /\ tool[c].step = "locking" /\ onDisk[f] \in Nat
      /\ tool[c].lock = lockOf[f]
  BY DEF TakeLock, ToolsInv, FilesInv, UsersHaveLocks, Uses, ToolsShape
<1>2. /\ tool' = [tool EXCEPT ![c].step = "editing", ![c].read = onDisk[f]]
      /\ UNCHANGED <<fileVars, googleVars>>
  BY DEF TakeLock
<1>3. /\ tool'[c] = [tool[c] EXCEPT !.step = "editing", !.read = onDisk[f]]
      /\ \A q \in Callers \ {c} : tool'[q] = tool[q]
  BY <1>2 DEF ToolsInv, ToolsShape
<1>4. /\ tool'[c].step = "editing" /\ tool'[c].path = f /\ tool'[c].read = onDisk[f]
      /\ tool'[c].lock = tool[c].lock /\ tool'[c] \in ToolShape
  BY <1>1, <1>3 DEF ToolsInv, ToolsShape, ToolShape
<1>5. ToolsShape'
  BY <1>2, <1>3, <1>4 DEF ToolsInv, ToolsShape, fileVars, googleVars
<1>6. \A q \in Callers \ {c} : tool[q].step = "editing" => tool[q].path # f
  <2> SUFFICES ASSUME NEW q \in Callers \ {c}, tool[q].step = "editing", tool[q].path = f
               PROVE  FALSE
    OBVIOUS
  <2>1. tool[q].lock = tool[c].lock
    BY <1>1 DEF ToolsInv, FilesInv, UsersHaveLocks, Uses
  <2>2. QED
    BY <2>1 DEF TakeLock, UsersOf
<1>7. UsersHaveLocks' /\ LocksAreUsed'
  <2>1. UsersHaveLocks'
    <3>1. \A q \in Callers : /\ (tool'[q].step \in {"locking", "editing"}) = Uses(q)
                              /\ tool'[q].path = tool[q].path /\ tool'[q].lock = tool[q].lock
      <4> SUFFICES ASSUME NEW q \in Callers
                   PROVE  /\ (tool'[q].step \in {"locking", "editing"}) = Uses(q)
                          /\ tool'[q].path = tool[q].path /\ tool'[q].lock = tool[q].lock
        OBVIOUS
      <4>1. CASE q = c
        BY <4>1, <1>1, <1>4 DEF Uses
      <4>2. CASE q # c
        BY <4>2, <1>3 DEF Uses
      <4>3. QED
        BY <4>1, <4>2
    <3>2. QED
      <4>1. \A q \in Callers : Uses(q) => tool[q].path \in EditedFiles
        BY DEF ToolsInv, FilesInv, UsersHaveLocks
      <4>2. \A q \in Callers : IF Uses(q) THEN /\ tool[q].lock = lockOf[tool[q].path]
                                                /\ tool[q].lock # NoLock
                                ELSE tool[q].lock = NoLock
        BY DEF ToolsInv, FilesInv, UsersHaveLocks
      <4>3. lockOf' = lockOf
        BY <1>2 DEF fileVars
      <4> HIDE DEF f
      <4> SUFFICES ASSUME NEW q \in Callers
                   PROVE  IF Uses(q)' THEN /\ tool'[q].path \in EditedFiles
                                           /\ tool'[q].lock = lockOf'[tool'[q].path]
                                           /\ tool'[q].lock # NoLock
                          ELSE tool'[q].lock = NoLock
        BY DEF UsersHaveLocks
      <4>4. /\ Uses(q)' = Uses(q)
            /\ tool'[q].path = tool[q].path /\ tool'[q].lock = tool[q].lock
        BY <3>1 DEF Uses
      <4>5. CASE Uses(q)
        BY <4>1, <4>2, <4>3, <4>4, <4>5
      <4>6. CASE ~Uses(q)
        BY <4>2, <4>4, <4>6
      <4>7. QED
        BY <4>5, <4>6
  <2>2. \A q \in Callers : tool'[q].lock = tool[q].lock
    BY <1>3, <1>4
  <2>3. LocksAreUsed'
    BY <1>2, <2>2 DEF ToolsInv, FilesInv, LocksAreUsed, UsersOf, fileVars
  <2>4. QED
    BY <2>1, <2>3
<1>8. EditsExclude' /\ NoLostEdit'
  <2>1. \A q \in Callers \ {c} : tool'[q].step = "editing" =>
                                   /\ tool[q].step = "editing" /\ tool'[q].path = tool[q].path
                                   /\ tool'[q].read = tool[q].read /\ tool'[q].path # f
    BY <1>3, <1>6
  <2>2. onDisk' = onDisk /\ lost' = lost
    BY <1>2 DEF fileVars
  <2>3. QED
    BY <2>1, <2>2, <1>4 DEF ToolsInv, FilesInv, EditsExclude, NoLostEdit
<1>9. RefreshInv'
  BY <1>1, <1>2, <1>3, <1>4, <1>5, RefreshRests DEF ToolsInv
<1>10. QED
  BY <1>5, <1>7, <1>8, <1>9 DEF ToolsInv, FilesInv

LEMMA EndEditInv ==
  ASSUME ToolsInv, NEW c \in Callers, EndEdit(c)
  PROVE  ToolsInv'
<1> DEFINE f == tool[c].path
<1>1. /\ f \in EditedFiles /\ tool[c].step = "editing" /\ onDisk[f] \in Nat
      /\ tool[c].lock = lockOf[f] /\ lockOf[f] # NoLock /\ tool[c].read = onDisk[f]
  BY DEF EndEdit, ToolsInv, FilesInv, UsersHaveLocks, EditsExclude, Uses, ToolsShape
<1>2. /\ lockOf' = [lockOf EXCEPT ![f] = IF LastUser(c) THEN NoLock ELSE @]
      /\ tool' = [tool EXCEPT ![c] = IdleTool] /\ UNCHANGED googleVars
      /\ \/ onDisk' = [onDisk EXCEPT ![f] = @ + 1] /\ lost' = (lost \/ onDisk[f] # tool[c].read)
         \/ UNCHANGED <<onDisk, lost>>
  BY DEF EndEdit
<1>3. /\ tool'[c] = IdleTool /\ \A q \in Callers \ {c} : tool'[q] = tool[q]
      /\ lockOf'[f] = (IF LastUser(c) THEN NoLock ELSE lockOf[f])
      /\ \A g \in EditedFiles \ {f} : lockOf'[g] = lockOf[g] /\ onDisk'[g] = onDisk[g]
  BY <1>1, <1>2 DEF ToolsInv, ToolsShape
<1>4. ToolsShape'
  BY <1>1, <1>2, <1>3, IdleShape DEF ToolsInv, ToolsShape, googleVars
<1>5. NoLostEdit'
  BY <1>1, <1>2 DEF ToolsInv, FilesInv, NoLostEdit
<1>6. LastUser(c) => \A q \in Callers \ {c} : Uses(q) => tool[q].path # f
  BY <1>1 DEF LastUser, UsersOf, ToolsInv, FilesInv, UsersHaveLocks
<1>7. UsersHaveLocks'
  <2> SUFFICES ASSUME NEW q \in Callers
               PROVE  IF Uses(q)' THEN /\ tool'[q].path \in EditedFiles
                                       /\ tool'[q].lock = lockOf'[tool'[q].path]
                                       /\ tool'[q].lock # NoLock
                      ELSE tool'[q].lock = NoLock
    BY DEF UsersHaveLocks
  <2>1. CASE q = c
    BY <2>1, <1>3, IdleShape DEF Uses
  <2>2. CASE q # c
    BY <2>2, <1>3, <1>6 DEF Uses, ToolsInv, FilesInv, UsersHaveLocks
  <2>3. QED
    BY <2>1, <2>2
<1>8. LocksAreUsed'
  <2>1. ASSUME NEW g \in EditedFiles, lockOf'[g] # NoLock
        PROVE  \E q \in Callers : tool'[q].lock = lockOf'[g]
    <3>1. PICK q \in Callers \ {c} : tool[q].lock = lockOf[g]
      <4>1. CASE g = f
        <5>1. UsersOf(tool[c].lock) # {c} /\ c \in UsersOf(tool[c].lock)
          BY <4>1, <2>1, <1>3 DEF LastUser, UsersOf
        <5>2. QED
          BY <5>1, <4>1, <1>1 DEF UsersOf
      <4>2. CASE g # f
        <5>1. PICK q \in Callers : tool[q].lock = lockOf[g]
          BY <4>2, <2>1, <1>3 DEF ToolsInv, FilesInv, LocksAreUsed, UsersOf
        <5>2. q # c
          BY <5>1, <4>2, <1>1 DEF ToolsInv, FilesInv, LocksAreUsed
        <5>3. QED
          BY <5>1, <5>2
      <4>3. QED
        BY <4>1, <4>2
    <3>2. lockOf'[g] = lockOf[g]
      BY <2>1, <1>3
    <3>3. QED
      BY <3>1, <3>2, <1>3
  <2>2. ASSUME NEW g \in EditedFiles, NEW h \in EditedFiles,
               lockOf'[g] = lockOf'[h], lockOf'[g] # NoLock
        PROVE  g = h
    BY <2>2, <1>3 DEF ToolsInv, FilesInv, LocksAreUsed
  <2>3. QED
    BY <2>1, <2>2 DEF LocksAreUsed, UsersOf
<1>9. EditsExclude'
  <2>1. \A q \in Callers \ {c} : tool[q].step = "editing" => tool[q].path \in EditedFiles \ {f}
    BY <1>1 DEF ToolsInv, FilesInv, EditsExclude, UsersHaveLocks, Uses
  <2>2. QED
    BY <2>1, <1>3, IdleShape DEF ToolsInv, FilesInv, EditsExclude
<1>10. RefreshInv'
  BY <1>1, <1>2, <1>3, <1>4, IdleShape, RefreshRests DEF ToolsInv
<1>11. QED
  BY <1>4, <1>5, <1>7, <1>8, <1>9, <1>10 DEF ToolsInv, FilesInv

\* A command begins, ends without a refusal, or has run again.
LEMMA CommandInv ==
  ASSUME ToolsInv, NEW c \in Callers,
         \/ RunCommand(c) \/ RunAgain(c)
         \/ CommandEnds(c) /\ tool'[c].step # "refreshing"
  PROVE  ToolsInv'
<1> DEFINE run == [IdleTool EXCEPT !.step = "command", !.token = envToken]
<1>1. /\ run \in ToolShape /\ run.step = "command" /\ run.lock = NoLock
  BY DEF IdleTool, ToolShape, ToolsInv, ToolsShape
<1>2. /\ tool' = [tool EXCEPT ![c] = IdleTool] \/ tool' = [tool EXCEPT ![c] = run]
      /\ tool[c].step \in {"idle", "command", "again"}
      /\ UNCHANGED <<fileVars, googleVars>>
  <2>1. CASE CommandEnds(c) /\ tool'[c].step # "refreshing"
    BY <2>1 DEF CommandEnds, googleVars, ToolsInv, ToolsShape, ToolShape
  <2>2. CASE RunCommand(c) \/ RunAgain(c)
    BY <2>2 DEF RunCommand, RunAgain
  <2>3. QED
    BY <2>1, <2>2
<1>3. /\ tool'[c] \in {IdleTool, run} /\ \A q \in Callers \ {c} : tool'[q] = tool[q]
  BY <1>2 DEF ToolsInv, ToolsShape
<1>4. ToolsShape'
  BY <1>1, <1>2, <1>3, IdleShape DEF ToolsInv, ToolsShape, fileVars, googleVars
<1>5. FilesInv'
  BY <1>1, <1>2, <1>3, <1>4, IdleShape, FilesRest DEF ToolsInv, Uses
<1>6. RefreshInv'
  BY <1>1, <1>2, <1>3, <1>4, IdleShape, RefreshRests DEF ToolsInv
<1>7. QED
  BY <1>4, <1>5, <1>6 DEF ToolsInv

\* A refused command wants the token replaced that it ran with.
LEMMA RefusedInv ==
  ASSUME ToolsInv, NEW c \in Callers, CommandEnds(c), tool'[c].step = "refreshing"
  PROVE  ToolsInv'
<1> DEFINE me == [tool[c] EXCEPT !.step = "refreshing", !.stale = tool[c].token]
<1>1. /\ me \in ToolShape /\ me.step = "refreshing" /\ me.stale = me.token
      /\ me.lock = tool[c].lock
  BY DEF ToolsInv, ToolsShape, ToolShape
<1>2. /\ tool[c].step = "command" /\ UNCHANGED <<fileVars, envToken, expired, failedFor, askedFor, askedTwice>>
      /\ tool' = [tool EXCEPT ![c] = me]
  BY IdleShape DEF CommandEnds, StaleToken, ToolsInv, ToolsShape
<1>3. tool'[c] = me /\ \A q \in Callers \ {c} : tool'[q] = tool[q]
  BY <1>2 DEF ToolsInv, ToolsShape
<1>4. ToolsShape'
  BY <1>1, <1>2, <1>3 DEF ToolsInv, ToolsShape, fileVars
<1>5. FilesInv'
  BY <1>1, <1>2, <1>3, <1>4, FilesRest DEF ToolsInv, FilesInv, UsersHaveLocks, Uses
<1>6. RefreshInv'
  BY <1>1, <1>2, <1>3 DEF ToolsInv, RefreshInv, AsksForOwn, AskedIsKnown, RefreshedOnce
<1>7. QED
  BY <1>4, <1>5, <1>6 DEF ToolsInv

\* Who leaves the helper runs again or gives up; the last one forgets.
LEMMA LeavesInv ==
  ASSUME ToolsInv, NEW c \in Callers, NEW s \in {"again", "idle"},
         NEW flag \in Nat, envToken' \in {envToken, envToken + 1},
         Leaves(c, s, envToken', flag),
         UNCHANGED <<fileVars, expired, askedTwice>>,
         tool[c].step \in {"refreshing", "posting"},
         \A q \in Callers \ {c} : tool[q].step # "posting",
         envToken' = envToken =>
           flag = IF tool[c].step = "posting" THEN envToken ELSE failedFor
  PROVE  ToolsInv'
<1> DEFINE me == IF s = "again" THEN [tool[c] EXCEPT !.step = s] ELSE IdleTool
<1>1. /\ me \in ToolShape /\ me.step = s /\ me.lock = NoLock
  BY IdleShape DEF ToolsInv, ToolsShape, ToolShape, FilesInv, UsersHaveLocks, Uses
<1>2. /\ tool' = [tool EXCEPT ![c] = me]
      /\ failedFor' = IF inflight = 1 THEN 0 ELSE flag
      /\ askedFor' = IF inflight = 1 THEN askedFor \cap 1..(envToken' - 1) ELSE askedFor
  BY DEF Leaves
<1>3. tool'[c] = me /\ \A q \in Callers \ {c} : tool'[q] = tool[q]
  BY <1>2 DEF ToolsInv, ToolsShape
<1>4. ToolsShape'
  BY <1>1, <1>2, <1>3 DEF ToolsInv, ToolsShape, fileVars
<1>5. FilesInv'
  BY <1>1, <1>3, <1>4, FilesRest DEF ToolsInv, FilesInv, UsersHaveLocks, Uses
<1>6. AsksForOwn'
  BY <1>1, <1>3 DEF ToolsInv, RefreshInv, AsksForOwn
<1>7. AskedIsKnown'
  <2> SUFFICES ASSUME NEW t \in askedFor'
               PROVE  t < envToken' \/ (t = envToken' /\ failedFor' = t)
    BY DEF AskedIsKnown
  <2>1. t \in Nat /\ t \in askedFor /\ envToken \in Nat
    BY <1>2 DEF ToolsInv, ToolsShape
  <2>2. CASE inflight = 1
    BY <2>1, <2>2, <1>2
  <2>3. CASE inflight # 1
    BY <2>1, <2>3, <1>2 DEF ToolsInv, RefreshInv, AskedIsKnown
  <2>4. QED
    BY <2>2, <2>3
<1>8. QED
  BY <1>4, <1>5, <1>6, <1>7 DEF ToolsInv, RefreshInv, RefreshedOnce

\* Under the lock of the helper.
LEMMA EnterInv ==
  ASSUME ToolsInv, NEW c \in Callers, EnterRefresh(c)
  PROVE  ToolsInv'
<1>1. /\ tool[c].step = "refreshing" /\ UNCHANGED <<fileVars, envToken, expired>>
      /\ \A q \in Callers : tool[q].step # "posting"
      /\ envToken \in Nat /\ failedFor \in Nat
      /\ tool[c].stale = tool[c].token /\ tool[c].token \in Nat
  BY DEF EnterRefresh, RefreshLockFree, ToolsInv, ToolsShape, ToolShape, RefreshInv, AsksForOwn
<1>2. CASE \E s \in {"again", "idle"} : Leaves(c, s, envToken, failedFor) /\ UNCHANGED askedTwice
  BY <1>1, <1>2, LeavesInv
<1>3. CASE /\ envToken = tool[c].stale /\ ~FailedAlready(c)
           /\ ToolStep(c, "posting")
           /\ askedTwice' = (askedTwice \/ tool[c].token \in askedFor)
           /\ askedFor' = askedFor \cup {tool[c].token}
           /\ UNCHANGED <<inflight, failedFor>>
  <2>1. tool[c].token \notin askedFor
    BY <1>1, <1>3 DEF ToolsInv, RefreshInv, AskedIsKnown, FailedAlready
  <2> DEFINE me == [tool[c] EXCEPT !.step = "posting"]
  <2>2. /\ me \in ToolShape /\ me.step = "posting" /\ me.lock = tool[c].lock
        /\ me.stale = tool[c].stale /\ me.token = tool[c].token
    BY DEF ToolsInv, ToolsShape, ToolShape
  <2>3. tool'[c] = me /\ \A q \in Callers \ {c} : tool'[q] = tool[q]
    BY <1>3 DEF ToolStep, ToolsInv, ToolsShape
  <2>4. ToolsShape'
    BY <1>1, <1>3, <2>2, <2>3 DEF ToolStep, ToolsInv, ToolsShape, fileVars
  <2>5. FilesInv'
    BY <1>1, <2>2, <2>3, <2>4, FilesRest DEF ToolsInv, FilesInv, UsersHaveLocks, Uses
  <2>6. AsksForOwn'
    <3>1. \A q \in Callers \ {c} : tool'[q] = tool[q] /\ tool[q].step # "posting"
      BY <1>1, <2>3
    <3>2. tool'[c].token = envToken /\ tool'[c].stale = tool'[c].token /\ envToken' = envToken
      BY <1>1, <1>3, <2>2, <2>3
    <3>3. QED
      BY <3>1, <3>2 DEF ToolsInv, RefreshInv, AsksForOwn
  <2>7. AskedIsKnown'
    BY <1>1, <1>3, <2>2, <2>3 DEF ToolsInv, ToolsShape, RefreshInv, AskedIsKnown
  <2>8. RefreshedOnce'
    BY <1>3, <2>1 DEF ToolsInv, RefreshInv, RefreshedOnce
  <2>9. QED
    BY <2>4, <2>5, <2>6, <2>7, <2>8 DEF ToolsInv, RefreshInv
<1>4. QED
  BY <1>2, <1>3 DEF EnterRefresh

LEMMA AnsweredInv ==
  ASSUME ToolsInv, NEW c \in Callers, RefreshAnswered(c)
  PROVE  ToolsInv'
<1>1. /\ tool[c].step = "posting" /\ UNCHANGED <<fileVars, expired, askedTwice>>
      /\ \A q \in Callers \ {c} : tool[q].step # "posting"
      /\ envToken \in Nat /\ tool[c].stale = envToken
  BY DEF RefreshAnswered, ToolsInv, ToolsShape, RefreshInv, AsksForOwn
<1>2. CASE envToken' = envToken + 1 /\ Leaves(c, "again", envToken + 1, 0)
  BY <1>1, <1>2, LeavesInv
<1>3. CASE Leaves(c, "idle", envToken, tool[c].stale) /\ UNCHANGED envToken
  BY <1>1, <1>3, LeavesInv
<1>4. QED
  BY <1>2, <1>3 DEF RefreshAnswered

LEMMA ToolsStepInv == ToolsInv /\ [ToolsNext]_toolVars => ToolsInv'
<1> SUFFICES ASSUME ToolsInv, [ToolsNext]_toolVars PROVE ToolsInv'
  OBVIOUS
<1>1. CASE TokenExpires \/ UNCHANGED toolVars
  <2>1. UNCHANGED <<tool, fileVars, envToken, failedFor, askedFor, askedTwice>>
    BY <1>1 DEF TokenExpires, toolVars, googleVars
  <2>2. ToolsShape' /\ UsersHaveLocks' /\ LocksAreUsed' /\ EditsExclude' /\ NoLostEdit'
    BY <2>1 DEF fileVars, ToolsInv, ToolsShape, FilesInv, UsersHaveLocks, LocksAreUsed,
       EditsExclude, NoLostEdit, Uses, UsersOf
  <2>3. AsksForOwn' /\ AskedIsKnown' /\ RefreshedOnce'
    BY <2>1 DEF ToolsInv, RefreshInv, AsksForOwn, AskedIsKnown, RefreshedOnce
  <2>4. QED
    BY <2>2, <2>3 DEF ToolsInv, FilesInv, RefreshInv
<1>2. ASSUME NEW c \in Callers, CommandEnds(c) PROVE ToolsInv'
  BY <1>2, CommandInv, RefusedInv
<1>3. QED
  BY <1>1, <1>2, AskLockInv, TakeLockInv, EndEditInv, CommandInv, EnterInv, AnsweredInv
     DEF ToolsNext

\* Tools that run side by side lose no edit (edit_file, write_file under the lock of
\* the path, which its last user removes) and ask for a token no more than once per
\* expiry, for any number of calls, files, edits and expiries.
THEOREM SharingIsSafe == ToolsSpec => []ToolsShare
<1>1. ToolsInv => ToolsShare
  BY DEF ToolsInv, FilesInv, RefreshInv, ToolsShare
<1>2. QED
  BY <1>1, ToolsInitInv, ToolsStepInv, PTL DEF ToolsSpec

Refreshing == {c \in Callers : tool[c].step \in {"refreshing", "posting"}}

\* The types but for the Booleans and the file of a call that has none.
ToolsTypes ==
  /\ tool \in [Callers -> ToolShape]
  /\ expired \in SUBSET Nat /\ edits \in 0..MaxEdits
  /\ inflight = Cardinality(Refreshing)

\* Those that refresh are counted.
LEMMA RefreshingCounted ==
  /\ IsFiniteSet(Refreshing) /\ Cardinality(Refreshing) \in Nat
  /\ Cardinality(Refreshing) <= Cardinality(Callers)
  /\ \A c \in Refreshing : Cardinality(Refreshing \ {c}) = Cardinality(Refreshing) - 1
  /\ \A c \in Callers \ Refreshing :
       Cardinality(Refreshing \cup {c}) = Cardinality(Refreshing) + 1
<1>1. Refreshing \in SUBSET Callers /\ IsFiniteSet(Callers)
  BY ToolsAssumption DEF Refreshing
<1>2. IsFiniteSet(Refreshing) /\ Cardinality(Refreshing) <= Cardinality(Callers)
  BY <1>1, FS_Subset
<1>3. QED
  BY <1>2, FS_CardinalityType, FS_AddElement, FS_RemoveElement

LEMMA ToolsFlags == lost \in BOOLEAN /\ askedTwice \in BOOLEAN /\ [ToolsNext]_toolVars
                    => lost' \in BOOLEAN /\ askedTwice' \in BOOLEAN
<1> SUFFICES ASSUME lost \in BOOLEAN, askedTwice \in BOOLEAN, [ToolsNext]_toolVars
             PROVE  lost' \in BOOLEAN /\ askedTwice' \in BOOLEAN
  OBVIOUS
<1>1. \A b, c : (b \/ c) \in BOOLEAN
  BY Zenon
<1>2. lost' = lost \/ \E b : lost' = (lost \/ b)
  BY Zenon DEF ToolsNext, AskLock, TakeLock, EndEdit, RunCommand, CommandEnds, EnterRefresh,
     RefreshAnswered, RunAgain, TokenExpires, toolVars, fileVars
<1>3. askedTwice' = askedTwice \/ \E b : askedTwice' = (askedTwice \/ b)
  BY Zenon DEF ToolsNext, AskLock, TakeLock, EndEdit, RunCommand, CommandEnds, EnterRefresh,
     RefreshAnswered, RunAgain, TokenExpires, toolVars, googleVars
<1>4. QED
  BY <1>1, <1>2, <1>3, Zenon

LEMMA ToolsTypesStep == ToolsInv /\ ToolsTypes /\ [ToolsNext]_toolVars => ToolsTypes'
<1> SUFFICES ASSUME ToolsInv, ToolsTypes, [ToolsNext]_toolVars PROVE ToolsTypes'
  OBVIOUS
<1> USE DEF ToolsTypes
<1>1. tool' \in [Callers -> ToolShape]
  BY ToolsStepInv DEF ToolsInv, ToolsShape
<1>2. expired' \in SUBSET Nat /\ edits' \in 0..MaxEdits
  <2>1. expired' = expired \/ expired' = expired \cup {envToken}
    BY DEF ToolsNext, AskLock, TakeLock, EndEdit, RunCommand, CommandEnds, EnterRefresh,
       RefreshAnswered, RunAgain, TokenExpires, toolVars, googleVars
  <2>2. edits' = edits \/ (edits < MaxEdits /\ edits' = edits + 1)
    BY DEF ToolsNext, AskLock, TakeLock, EndEdit, RunCommand, CommandEnds, EnterRefresh,
       RefreshAnswered, RunAgain, TokenExpires, toolVars, fileVars
  <2>3. envToken \in Nat /\ MaxEdits \in Nat
    BY ToolsAssumption DEF ToolsInv, ToolsShape
  <2>4. expired' \in SUBSET Nat
    BY <2>1, <2>3
  <2>5. edits' \in 0..MaxEdits
    BY <2>2, <2>3
  <2>6. QED
    BY <2>4, <2>5
<1>3. inflight' = Cardinality(Refreshing')
  <2>1. ASSUME NEW c \in Callers, inflight' = inflight,
               \A q \in Callers \ {c} : tool'[q] = tool[q],
               c \in Refreshing' <=> c \in Refreshing
        PROVE  inflight' = Cardinality(Refreshing')
    <3>1. Refreshing' = Refreshing
      BY <2>1 DEF Refreshing
    <3>2. QED
      BY <2>1, <3>1
  <2>2. ASSUME NEW c \in Callers, inflight' = inflight - 1, c \in Refreshing,
               \A q \in Callers \ {c} : tool'[q] = tool[q], c \notin Refreshing'
        PROVE  inflight' = Cardinality(Refreshing')
    <3>1. Refreshing' = Refreshing \ {c}
      BY <2>2 DEF Refreshing
    <3>2. QED
      BY <2>2, <3>1, RefreshingCounted
  <2>3. ASSUME NEW c \in Callers, inflight' = inflight + 1, c \notin Refreshing,
               \A q \in Callers \ {c} : tool'[q] = tool[q], c \in Refreshing'
        PROVE  inflight' = Cardinality(Refreshing')
    <3>1. Refreshing' = Refreshing \cup {c}
      BY <2>3 DEF Refreshing
    <3>2. QED
      BY <2>3, <3>1, RefreshingCounted
  <2> USE DEF IdleTool
  <2>4. ASSUME NEW c \in Callers, NEW f \in EditedFiles, AskLock(c, f)
        PROVE  inflight' = Cardinality(Refreshing')
    BY <2>1, <2>4 DEF AskLock, Refreshing, googleVars
  <2>5. ASSUME NEW c \in Callers, TakeLock(c) \/ EndEdit(c) \/ RunCommand(c) \/ RunAgain(c)
        PROVE  inflight' = Cardinality(Refreshing')
    <3>1. /\ c \notin Refreshing /\ inflight' = inflight
          /\ \A q \in Callers \ {c} : tool'[q] = tool[q]
      BY <2>5 DEF TakeLock, EndEdit, RunCommand, RunAgain, Refreshing, googleVars
    <3>2. tool'[c].step \in {"idle", "editing", "command"}
      <4>1. CASE TakeLock(c)
        BY <4>1 DEF TakeLock, ToolShape
      <4>2. CASE EndEdit(c)
        BY <4>2 DEF EndEdit, ToolShape
      <4>3. CASE RunCommand(c)
        <5>1. tool' = [tool EXCEPT ![c] = [IdleTool EXCEPT !.step = "command", !.token = envToken]]
          BY <4>3 DEF RunCommand
        <5>2. QED
          BY <5>1
      <4>4. CASE RunAgain(c)
        BY <4>4 DEF RunAgain
      <4>5. QED
        BY <2>5, <4>1, <4>2, <4>3, <4>4
    <3>3. QED
      BY <2>1, <3>1, <3>2 DEF Refreshing
  <2>6. ASSUME NEW c \in Callers, CommandEnds(c)
        PROVE  inflight' = Cardinality(Refreshing')
    <3>1. c \notin Refreshing /\ \A q \in Callers \ {c} : tool'[q] = tool[q]
      BY <2>6 DEF CommandEnds, Refreshing
    <3>2. \/ inflight' = inflight + 1 /\ tool'[c].step = "refreshing"
          \/ inflight' = inflight /\ tool'[c].step = "idle"
      BY <2>6 DEF CommandEnds, ToolShape
    <3>3. QED
      BY <2>1, <2>3, <3>1, <3>2 DEF Refreshing
  <2>7. ASSUME NEW c \in Callers, EnterRefresh(c) \/ RefreshAnswered(c)
        PROVE  inflight' = Cardinality(Refreshing')
    <3>1. c \in Refreshing /\ \A q \in Callers \ {c} : tool'[q] = tool[q]
      BY <2>7 DEF EnterRefresh, RefreshAnswered, Leaves, ToolStep, Refreshing
    <3>2. \/ inflight' = inflight /\ tool'[c].step = "posting"
          \/ inflight' = inflight - 1 /\ tool'[c].step \in {"again", "idle"}
      <4>1. \A s, t, flag : Leaves(c, s, t, flag) =>
              inflight' = inflight - 1 /\ tool'[c].step \in {"again", "idle"}
        BY DEF Leaves, ToolShape
      <4>2. ToolStep(c, "posting") => tool'[c].step = "posting"
        BY DEF ToolStep, ToolShape
      <4>3. QED
        BY <2>7, <4>1, <4>2 DEF EnterRefresh, RefreshAnswered
    <3>3. QED
      BY <2>1, <2>2, <3>1, <3>2 DEF Refreshing
  <2>8. CASE TokenExpires \/ UNCHANGED toolVars
    BY <2>8 DEF TokenExpires, toolVars, googleVars, Refreshing
  <2>9. QED
    BY <2>4, <2>5, <2>6, <2>7, <2>8 DEF ToolsNext
<1>4. QED
  BY <1>1, <1>2, <1>3

LEMMA ToolsTypesInit == ToolsInit => ToolsTypes /\ lost \in BOOLEAN /\ askedTwice \in BOOLEAN
<1> SUFFICES ASSUME ToolsInit PROVE ToolsTypes /\ lost \in BOOLEAN /\ askedTwice \in BOOLEAN
  OBVIOUS
<1>1. lost \in BOOLEAN /\ askedTwice \in BOOLEAN
  BY Zenon DEF ToolsInit
<1>2. Refreshing = {}
  BY DEF ToolsInit, Refreshing, IdleTool
<1>3. ToolsTypes
  BY <1>2, ToolsInitInv, FS_EmptySet, ToolsAssumption DEF ToolsInit, ToolsTypes, ToolsInv, ToolsShape
<1>4. QED
  BY <1>1, <1>3

LEMMA ToolsAreTyped ==
  ToolsInv /\ ToolsTypes /\ lost \in BOOLEAN /\ askedTwice \in BOOLEAN => ToolsTypeOK
<1> SUFFICES ASSUME ToolsInv, ToolsTypes, lost \in BOOLEAN, askedTwice \in BOOLEAN
             PROVE  ToolsTypeOK
  OBVIOUS
<1>1. AFile \in EditedFiles
  BY ToolsAssumption DEF AFile
<1>2. inflight \in 0..Cardinality(Callers)
  <2>1. Cardinality(Callers) \in Nat
    BY ToolsAssumption, FS_CardinalityType
  <2>2. QED
    BY <2>1, RefreshingCounted DEF ToolsTypes
<1>3. EditedFiles \cup {AFile} = EditedFiles
  BY <1>1
<1>4. tool \in [Callers -> [step: {"idle", "locking", "editing", "command",
                                  "refreshing", "posting", "again"},
                           path: EditedFiles, lock: Locks \cup {NoLock}, read: Nat,
                           token: Nat, stale: Nat]]
  BY <1>3 DEF ToolsTypes, ToolShape
<1>5. /\ lockOf \in [EditedFiles -> Locks \cup {NoLock}]
      /\ onDisk \in [EditedFiles -> Nat] /\ edits \in 0..MaxEdits
      /\ envToken \in Nat /\ expired \in SUBSET Nat /\ failedFor \in Nat /\ askedFor \in SUBSET Nat
      /\ inflight = Cardinality({c \in Callers : tool[c].step \in {"refreshing", "posting"}})
  BY DEF ToolsInv, ToolsTypes, ToolsShape, Refreshing
<1>6. QED
  BY <1>2, <1>4, <1>5, Zenon DEF ToolsTypeOK

\* The flags, which keep their type on their own.
ToolFlags == lost \in BOOLEAN /\ askedTwice \in BOOLEAN

LEMMA ToolsAlwaysTyped == ToolsInit /\ [][ToolsNext]_toolVars => []ToolsTypeOK
<1>1. ToolsInit => ToolFlags
  BY ToolsTypesInit DEF ToolFlags
<1>2. ToolFlags /\ [ToolsNext]_toolVars => ToolFlags'
  BY ToolsFlags DEF ToolFlags
<1>3. ToolsInv /\ ToolsTypes /\ ToolFlags => ToolsTypeOK
  BY ToolsAreTyped DEF ToolFlags
<1>4. ToolsInit => ToolsTypes
  BY ToolsTypesInit
<1>5. QED
  BY <1>1, <1>2, <1>3, <1>4, ToolsInitInv, ToolsStepInv, ToolsTypesStep, PTL

-----------------------------------------------------------------------------
(* The output of an attempt                                                *)

InProgress(a) == request[a].step \in {"checking", "deleting", "storing"}
\* Its output may count on being read.
Fair(a) == a \notin strays \cup robbed

CallbackShape ==
  /\ worker \in [Attempts -> {"unborn", "streaming", "reading", "deleting",
                              "done", "dead"}]
  /\ container \in [Attempts -> {"none", "working", "posting", "exited"}]
  /\ request \in [Attempts -> [step: {"none", "checking", "deleting", "storing",
                                      "ended"}, own: BOOLEAN]]
  /\ result \in Attempts \cup {NoOutput}
  /\ taken \in [Attempts -> Attempts \cup {NoOutput}]

\* A container exists from the attempt's start on; it posts once, and a request in
\* progress had the task's token when it was checked.
PostsOnce ==
  \A a \in Attempts :
    /\ worker[a] = "unborn" <=> container[a] = "none"
    /\ container[a] \in {"none", "working"} => request[a].step = "none"
    /\ request[a].step \in {"deleting", "storing"} => request[a].own
    /\ result = a \/ a \in accepted => request[a].step = "ended"

\* A log that was read to its end is of a container that has ended, whose request
\* has been answered.
EndedIsAnswered ==
  \A a \in Attempts :
    /\ worker[a] \in {"reading", "deleting", "done"} /\ a \notin robbed => container[a] = "exited"
    /\ container[a] = "exited" /\ a \notin strays => ~InProgress(a)
    /\ worker[a] \notin {"unborn", "streaming", "reading", "deleting", "done"} => a \in strays

\* Attempts start in order; one at work that is not known to overlap is the last, and
\* one that started while an older was at work is known to overlap or posts nothing.
InOrder ==
  /\ \A a, b \in Attempts : a < b /\ worker[a] = "unborn" => worker[b] = "unborn"
  /\ \A a, b \in Attempts : a < b /\ a \in AtWork \ strays => worker[b] = "unborn"
  /\ \A a, b \in Attempts : a < b /\ a \in AtWork /\ b \notin strays =>
       container[b] \in {"none", "exited"} /\ request[b].step = "none"

\* The output of an attempt that nothing befell is there for its own coroutine.
StoredIsAwaited ==
  \A a \in Attempts : result = a /\ Fair(a) => a \in AtWork

\* A POST that was thanked for, of an attempt nobody robbed, is there or was read.
AcceptedIsKept ==
  \A a \in accepted \ robbed :
    /\ worker[a] \in {"streaming", "reading"} => result = a
    /\ worker[a] \in {"deleting", "done"} => taken[a] = a

\* The inductive invariant.
CallbackInv ==
  /\ CallbackShape /\ accepted \subseteq Attempts
  /\ PostsOnce /\ EndedIsAnswered /\ InOrder
  /\ StoredIsAwaited /\ AcceptedIsKept /\ ForeignIsStray

LEMMA CallbackInitInv == CallbackInit => CallbackInv
BY DEF CallbackInit, CallbackInv, CallbackShape, PostsOnce, EndedIsAnswered, InOrder,
   StoredIsAwaited, AcceptedIsKept, ForeignIsStray, InProgress, Fair, AtWork, NoRequest,
   NoOutput, Attempts

\* What the coroutine of an attempt does that is under way: output and token aside,
\* only its own state changes, and more attempts may be strays or robbed.
LEMMA WorkerStep ==
  ASSUME CallbackInv, NEW a \in Attempts,
         StreamEnds(a) \/ ReadOutput(a) \/ DeleteOutput(a) \/ ReadFails(a) \/ WorkerDies(a)
  PROVE  CallbackInv'
<1>1. /\ a \in AtWork /\ worker'[a] \in {"reading", "deleting", "done", "dead"}
      /\ worker' = [worker EXCEPT ![a] = worker'[a]]
      /\ UNCHANGED <<container, request, accepted>>
      /\ strays \subseteq strays' /\ robbed \subseteq robbed'
      /\ result' \in {result, NoOutput}
      /\ taken' = [taken EXCEPT ![a] = taken'[a]]
      /\ taken'[a] \in {taken[a], result, NoOutput}
  BY DEF CallbackInv, CallbackShape, StreamEnds, ReadOutput, DeleteOutput, ReadFails,
     WorkerDies, Works, AtWork, BothDeleted
<1>2. \A b \in Attempts \ {a} : worker'[b] = worker[b] /\ taken'[b] = taken[b]
  BY <1>1 DEF CallbackInv, CallbackShape
<1>3. CallbackShape' /\ (accepted \subseteq Attempts)'
  BY <1>1 DEF CallbackInv, CallbackShape
<1>4. PostsOnce'
  BY <1>1, <1>2 DEF CallbackInv, PostsOnce, AtWork, NoOutput, Attempts
<1>5. EndedIsAnswered'
  <2>1. worker'[a] = "dead" => a \in strays'
    BY <1>1 DEF StreamEnds, ReadOutput, DeleteOutput, ReadFails, WorkerDies, Works,
       CallbackInv, CallbackShape
  <2>2. a \notin robbed' => container[a] = "exited" \/ worker'[a] = "dead"
    BY <1>1 DEF StreamEnds, ReadOutput, DeleteOutput, ReadFails, WorkerDies, Works,
       CallbackInv, CallbackShape, EndedIsAnswered
  <2>3. QED
    BY <1>1, <1>2, <2>1, <2>2 DEF CallbackInv, EndedIsAnswered, InProgress
<1>6. AtWork' \subseteq AtWork
  BY <1>1, <1>2 DEF AtWork
<1>7. InOrder'
  <2>1. \A b \in Attempts : worker'[b] = "unborn" <=> worker[b] = "unborn"
    BY <1>1, <1>2 DEF AtWork
  <2>2. QED
    BY <1>1, <1>6, <2>1 DEF CallbackInv, InOrder
<1>8. StoredIsAwaited'
  <2>1. result' = a /\ a \notin strays' \cup robbed' => a \in AtWork'
    BY <1>1 DEF StreamEnds, ReadOutput, DeleteOutput, ReadFails, WorkerDies, Works,
       CallbackInv, CallbackShape, AtWork, BothDeleted, NoOutput, Attempts
  <2>2. \A b \in Attempts \ {a} : b \in AtWork => b \in AtWork'
    BY <1>2 DEF AtWork
  <2>3. QED
    BY <1>1, <2>1, <2>2 DEF CallbackInv, StoredIsAwaited, Fair, NoOutput, Attempts
<1>9. AcceptedIsKept'
  <2>1. ASSUME NEW b \in accepted', b \notin robbed'
        PROVE  /\ worker'[b] \in {"streaming", "reading"} => result' = b
               /\ worker'[b] \in {"deleting", "done"} => taken'[b] = b
    <3>0. /\ b \in accepted \ robbed /\ b \in Attempts
          /\ worker[b] \in {"streaming", "reading"} => result = b
          /\ worker[b] \in {"deleting", "done"} => taken[b] = b
      BY <2>1, <1>1 DEF CallbackInv, AcceptedIsKept
    <3>1. CASE b = a
      BY <3>0, <3>1, <2>1 DEF StreamEnds, ReadOutput, DeleteOutput, ReadFails,
         WorkerDies, Works, CallbackInv, CallbackShape
    <3>2. CASE b # a
      <4>1. worker'[b] = worker[b] /\ taken'[b] = taken[b]
        BY <3>0, <3>2, <1>2
      <4>2. result = b => result' = b
        BY <3>0, <3>2, <2>1 DEF StreamEnds, ReadOutput, DeleteOutput, ReadFails,
           WorkerDies, Displaces, NoOutput, Attempts
      <4>3. QED
        BY <4>1, <4>2, <3>0
    <3>3. QED
      BY <3>1, <3>2
  <2>2. QED
    BY <2>1 DEF AcceptedIsKept
<1>10. ForeignIsStray'
  <2>1. ASSUME result \in Attempts \ {a}, worker[a] = "reading"
        PROVE  result \in strays \cup robbed
    <3>0. result \in Attempts /\ result # a
      BY <2>1
    <3>1. SUFFICES ASSUME Fair(result) PROVE FALSE
      BY DEF Fair
    <3>2. result \in AtWork /\ request[result].step = "ended"
      BY <3>0, <3>1 DEF CallbackInv, StoredIsAwaited, PostsOnce
    <3>3. worker[result] # "unborn" /\ worker[a] # "unborn"
      BY <3>2, <1>1 DEF AtWork
    <3>4. CASE result < a
      BY <3>0, <3>1, <3>2, <3>3, <3>4 DEF CallbackInv, InOrder, Fair
    <3>5. CASE a < result
      BY <3>0, <3>1, <3>2, <3>5, <1>1 DEF CallbackInv, InOrder, Fair
    <3>6. QED
      BY <3>0, <3>4, <3>5 DEF Attempts
  <2>2. taken'[a] \in {taken[a], NoOutput} \/ (worker[a] = "reading" /\ taken'[a] = result)
    BY DEF StreamEnds, ReadOutput, DeleteOutput, ReadFails, WorkerDies, CallbackInv, CallbackShape
  <2>3. taken'[a] \notin {a, NoOutput} => taken'[a] \in strays' \cup robbed'
    <3>1. CASE taken'[a] = taken[a]
      BY <3>1, <1>1 DEF CallbackInv, ForeignIsStray
    <3>2. CASE worker[a] = "reading" /\ taken'[a] = result
      BY <3>2, <2>1, <1>1 DEF CallbackInv, CallbackShape
    <3>3. QED
      BY <3>1, <3>2, <2>2
  <2>4. QED
    BY <2>3, <1>1, <1>2 DEF CallbackInv, ForeignIsStray
<1>11. QED
  BY <1>3, <1>4, <1>5, <1>7, <1>8, <1>9, <1>10 DEF CallbackInv

\* An attempt starts, with a token or without.
LEMMA PrepareStep ==
  ASSUME CallbackInv, NEW a \in Attempts, PrepareAttempt(a) \/ PrepareWithoutToken(a)
  PROVE  CallbackInv'
<1>1. /\ worker[a] = "unborn" /\ worker'[a] = "streaming"
      /\ container'[a] \in {"working", "exited"}
      /\ \A b \in Attempts \ {a} : worker'[b] = worker[b] /\ container'[b] = container[b]
      /\ UNCHANGED <<request, result, taken, robbed, accepted>>
      /\ strays \subseteq strays'
  BY DEF PrepareAttempt, PrepareWithoutToken, Works, CallbackInv, CallbackShape
<1>2. CallbackShape' /\ (accepted \subseteq Attempts)'
  BY DEF PrepareAttempt, PrepareWithoutToken, Works, CallbackInv, CallbackShape
<1>3. request[a].step = "none"
  BY <1>1 DEF CallbackInv, PostsOnce
<1>4. PostsOnce' /\ EndedIsAnswered'
  BY <1>1, <1>3 DEF CallbackInv, PostsOnce, EndedIsAnswered, InProgress
<1>5. /\ \A b \in Attempts \ {a} : b \in AtWork' <=> b \in AtWork
      /\ a \in AtWork' /\ a \notin AtWork
  BY <1>1 DEF AtWork
<1>6. a - 1 \in Attempts => worker[a - 1] # "unborn"
  BY DEF PrepareAttempt, PrepareWithoutToken, Attempts
<1>7. \A b \in Attempts : b < a => worker[b] # "unborn"
  <2> SUFFICES ASSUME NEW b \in Attempts, b < a, worker[b] = "unborn" PROVE FALSE
    OBVIOUS
  <2>1. b = a - 1 \/ (b < a - 1 /\ a - 1 \in Attempts)
    BY CallbackAssumption DEF Attempts
  <2>2. QED
    BY <2>1, <1>6 DEF CallbackInv, InOrder
<1>8. \A b \in Attempts : a < b => worker[b] = "unborn"
  BY <1>1 DEF CallbackInv, InOrder
<1>9. \A b \in AtWork \ strays' : a < b
  <2> SUFFICES ASSUME NEW b \in AtWork, b \notin strays', ~(a < b) PROVE FALSE
    OBVIOUS
  <2>1. b \in Attempts /\ b \notin strays /\ worker[b] \notin {"unborn", "done", "dead"}
    BY <1>1 DEF AtWork
  <2>2. b < a
    BY <2>1, <1>1, CallbackAssumption DEF Attempts
  <2>3. PrepareWithoutToken(a)
    BY DEF PrepareAttempt
  <2>4. a > 1 /\ a - 1 \in Attempts /\ worker[a - 1] \in {"done", "dead"} /\ b < a - 1
    BY <2>1, <2>2, <2>3, CallbackAssumption DEF PrepareWithoutToken, Attempts
  <2>5. QED
    BY <2>1, <2>4 DEF CallbackInv, InOrder
<1>10. AtWork # {} /\ a \notin strays' => container'[a] = "exited"
  BY <1>1 DEF PrepareAttempt, PrepareWithoutToken, Works, CallbackInv, CallbackShape
<1>11. InOrder'
  <2>1. \A b, c \in Attempts : b < c /\ worker'[b] = "unborn" => worker'[c] = "unborn"
    <3> SUFFICES ASSUME NEW b \in Attempts, NEW c \in Attempts, b < c, worker'[b] = "unborn"
                 PROVE  worker'[c] = "unborn"
      OBVIOUS
    <3>1. b # a /\ worker[b] = "unborn"
      BY <1>1
    <3>2. worker[c] = "unborn" /\ c # a
      BY <3>1, <1>7 DEF CallbackInv, InOrder
    <3>3. QED
      BY <3>2, <1>1
  <2>2. \A b, c \in Attempts : b < c /\ b \in AtWork' \ strays' => worker'[c] = "unborn"
    <3> SUFFICES ASSUME NEW b \in Attempts, NEW c \in Attempts, b < c, b \in AtWork', b \notin strays'
                 PROVE  worker'[c] = "unborn"
      OBVIOUS
    <3>1. a < c /\ worker[c] = "unborn"
      <4>1. CASE b = a
        BY <4>1, <1>8
      <4>2. CASE b # a
        <5>1. b \in AtWork /\ a < b
          BY <4>2, <1>5, <1>9
        <5>2. a < c
          BY <5>1, CallbackAssumption DEF Attempts
        <5>3. QED
          BY <5>2, <1>8
      <4>3. QED
        BY <4>1, <4>2
    <3>2. c # a
      BY <3>1, CallbackAssumption DEF Attempts
    <3>3. QED
      BY <3>1, <3>2, <1>1
  <2>3. \A b, c \in Attempts : b < c /\ b \in AtWork' /\ c \notin strays' =>
          container'[c] \in {"none", "exited"} /\ request[c].step = "none"
    <3> SUFFICES ASSUME NEW b \in Attempts, NEW c \in Attempts, b < c, b \in AtWork', c \notin strays'
                 PROVE  container'[c] \in {"none", "exited"} /\ request[c].step = "none"
      OBVIOUS
    <3>1. CASE c = a
      <4>1. b # a
        BY <3>1, CallbackAssumption DEF Attempts
      <4>2. AtWork # {}
        BY <4>1, <1>5
      <4>3. QED
        BY <4>2, <3>1, <1>3, <1>10
    <3>2. CASE c # a /\ b = a
      <4>1. worker[c] = "unborn"
        BY <3>2, <1>8
      <4>2. QED
        BY <4>1, <3>2, <1>1 DEF CallbackInv, PostsOnce
    <3>3. CASE c # a /\ b # a
      BY <3>3, <1>1, <1>5 DEF CallbackInv, InOrder
    <3>4. QED
      BY <3>1, <3>2, <3>3
  <2>4. QED
    BY <2>1, <2>2, <2>3, <1>1 DEF InOrder
<1>12. StoredIsAwaited' /\ ForeignIsStray'
  BY <1>1, <1>5 DEF CallbackInv, StoredIsAwaited, ForeignIsStray, Fair
<1>13. AcceptedIsKept'
  <2>1. a \notin accepted \ robbed
    <3> SUFFICES ASSUME a \in accepted PROVE FALSE
      OBVIOUS
    <3>1. QED
      BY <1>3 DEF CallbackInv, PostsOnce
  <2>2. QED
    BY <2>1, <1>1 DEF CallbackInv, AcceptedIsKept
<1>14. QED
  BY <1>2, <1>4, <1>11, <1>12, <1>13 DEF CallbackInv

\* A container and its request go on, and no output is stored.
LEMMA RequestStep ==
  ASSUME CallbackInv, NEW a \in Attempts,
         \/ PostOutput(a) \/ PostTimesOut(a) \/ CheckToken(a) \/ DeleteToken(a) \/ PostFails(a)
  PROVE  CallbackInv'
<1>1. /\ \E k \in {"none", "working", "posting", "exited"} :
           container' = [container EXCEPT ![a] = k]
      /\ \E r \in [step: {"none", "checking", "deleting", "storing", "ended"}, own: BOOLEAN] :
           request' = [request EXCEPT ![a] = r]
      /\ UNCHANGED <<worker, result, taken, robbed, accepted>> /\ strays \subseteq strays'
      /\ \/ /\ container[a] = "working" /\ container'[a] = "posting"
            /\ request'[a].step = "checking" /\ request'[a].own = request[a].own
         \/ /\ container[a] = "working" /\ container'[a] = "exited" /\ request'[a] = request[a]
         \/ /\ container[a] = "posting" /\ container'[a] = "exited" /\ request'[a] = request[a]
            /\ a \in strays'
         \/ /\ InProgress(a) /\ container'[a] = container[a]
            /\ request'[a].step \in {"deleting", "storing"} /\ request'[a].own
         \/ /\ InProgress(a)
            /\ container'[a] = (IF container[a] = "posting" THEN "exited" ELSE container[a])
            /\ request'[a].step = "ended"
  <2> USE DEF CallbackInv, CallbackShape
  <2>1. CASE PostOutput(a)
    BY <2>1 DEF PostOutput, Serves
  <2>2. CASE PostTimesOut(a)
    BY <2>2 DEF PostTimesOut
  <2>3. CASE CheckToken(a)
    <3>1. CASE ~TokenMatches(a) /\ Serves(a, "ended") /\ Answer(a)
      BY <2>3, <3>1 DEF CheckToken, Serves, Answer, InProgress
    <3>2. CASE TokenMatches(a) /\ UNCHANGED container
      <4> DEFINE r == [step |-> "deleting", own |-> TRUE]
      <4>1. request' = [request EXCEPT ![a] = r] /\ InProgress(a)
        BY <2>3, <3>2 DEF CheckToken, TokenMatches, InProgress, Serves, Answer
      <4>2. r \in [step: {"none", "checking", "deleting", "storing", "ended"}, own: BOOLEAN]
        OBVIOUS
      <4>3. container[a] \in {"none", "working", "posting", "exited"}
            /\ container' = [container EXCEPT ![a] = container[a]]
        BY <3>2
      <4>4. request'[a] = r /\ r.own /\ r.step = "deleting"
        BY <4>1
      <4>5. UNCHANGED <<worker, result, taken, robbed, accepted, strays, container>>
        BY <2>3, <3>2 DEF CheckToken
      <4> HIDE DEF r
      <4>6. QED
        BY <4>1, <4>2, <4>3, <4>4, <4>5
    <3>3. QED
      BY <2>3, <3>1, <3>2 DEF CheckToken
  <2>4. CASE DeleteToken(a)
    BY <2>4 DEF DeleteToken, Serves, InProgress, PostsOnce
  <2>5. CASE PostFails(a)
    BY <2>5 DEF PostFails, Serves, Answer, InProgress
  <2>6. QED
    BY <2>1, <2>2, <2>3, <2>4, <2>5
<1>2. /\ \A b \in Attempts \ {a} : container'[b] = container[b] /\ request'[b] = request[b]
      /\ CallbackShape'
  BY <1>1 DEF CallbackInv, CallbackShape
<1>3. /\ container[a] # "none" /\ container'[a] \notin {"none", "working"}
      /\ request[a].step = "ended" => request'[a].step = "ended"
      /\ container[a] = "exited" => container'[a] = "exited"
  BY <1>1 DEF CallbackInv, PostsOnce, InProgress, CallbackShape
<1>4. container'[a] = "exited" /\ a \notin strays' => ~InProgress(a)'
  BY <1>1, <1>2 DEF CallbackInv, CallbackShape, PostsOnce, EndedIsAnswered, InProgress
<1>5. PostsOnce'
  <2>1. request'[a].step \in {"deleting", "storing"} => request'[a].own
    BY <1>1 DEF CallbackInv, CallbackShape, PostsOnce
  <2>2. QED
    BY <1>1, <1>2, <1>3, <2>1 DEF CallbackInv, PostsOnce
<1>6. EndedIsAnswered'
  BY <1>1, <1>2, <1>3, <1>4 DEF CallbackInv, EndedIsAnswered, InProgress
<1>7. InOrder'
  <2>1. \A b \in Attempts : b < a /\ b \in AtWork /\ a \notin strays' =>
          container'[a] \in {"none", "exited"} /\ request'[a].step = "none"
    BY <1>1, <1>2 DEF CallbackInv, InOrder, InProgress
  <2>2. QED
    BY <1>1, <1>2, <2>1 DEF CallbackInv, InOrder, AtWork
<1>8. StoredIsAwaited' /\ AcceptedIsKept' /\ ForeignIsStray'
  BY <1>1 DEF CallbackInv, StoredIsAwaited, AcceptedIsKept, ForeignIsStray, Fair, AtWork
<1>9. QED
  BY <1>1, <1>2, <1>5, <1>6, <1>7, <1>8 DEF CallbackInv

\* The output is stored over any other.
LEMMA StoreStep ==
  ASSUME CallbackInv, NEW a \in Attempts, StoreOutput(a)
  PROVE  CallbackInv'
<1>1. /\ request[a].step = "storing" /\ request[a].own /\ result' = a
      /\ robbed' = robbed \cup Displaces(a)
      /\ UNCHANGED <<worker, taken, strays>>
      /\ request' = [request EXCEPT ![a].step = "ended"]
      /\ container' = [container EXCEPT ![a] = IF @ = "posting" THEN "exited" ELSE @]
      /\ accepted' = IF container[a] = "posting" THEN accepted \cup {a} ELSE accepted
  BY DEF StoreOutput, Serves, Answer, CallbackInv, PostsOnce
<1>2. /\ \A b \in Attempts \ {a} : container'[b] = container[b] /\ request'[b] = request[b]
      /\ request'[a].step = "ended"
      /\ container'[a] = IF container[a] = "posting" THEN "exited" ELSE container[a]
      /\ CallbackShape' /\ (accepted \subseteq Attempts)'
  BY <1>1 DEF CallbackInv, CallbackShape
<1>3. container[a] \in {"posting", "exited"} /\ container'[a] = "exited" /\ worker[a] # "unborn"
  BY <1>1, <1>2 DEF CallbackInv, CallbackShape, PostsOnce
<1>4. a \notin strays => container[a] = "posting"
  BY <1>1, <1>3 DEF CallbackInv, EndedIsAnswered, InProgress
<1>5. container[a] = "posting" /\ a \notin robbed => worker[a] \in {"streaming", "dead"}
  BY <1>3 DEF CallbackInv, CallbackShape, EndedIsAnswered
<1>6. PostsOnce' /\ EndedIsAnswered'
  BY <1>1, <1>2, <1>3 DEF CallbackInv, PostsOnce, EndedIsAnswered, InProgress
<1>7. InOrder'
  <2>1. \A b \in Attempts : b < a /\ b \in AtWork => a \in strays
    BY <1>1 DEF CallbackInv, InOrder
  <2>2. QED
    BY <1>1, <1>2, <2>1 DEF CallbackInv, InOrder, AtWork
<1>8. StoredIsAwaited'
  <2>1. a \notin robbed /\ a \notin strays => worker[a] = "streaming"
    BY <1>4, <1>5 DEF CallbackInv, EndedIsAnswered
  <2>2. QED
    BY <1>1, <2>1 DEF StoredIsAwaited, Fair, AtWork
<1>9. AcceptedIsKept'
  <2>1. ASSUME NEW b \in accepted', b \notin robbed'
        PROVE  /\ worker[b] \in {"streaming", "reading"} => a = b
               /\ worker[b] \in {"deleting", "done"} => taken[b] = b
    <3>1. CASE b = a /\ container[a] = "posting"
      BY <2>1, <3>1, <1>1, <1>5
    <3>2. CASE b \in accepted
      BY <2>1, <3>2, <1>1 DEF CallbackInv, AcceptedIsKept, Displaces, Attempts, NoOutput
    <3>3. QED
      BY <2>1, <3>1, <3>2, <1>1
  <2>2. QED
    BY <2>1, <1>1 DEF AcceptedIsKept
<1>10. ForeignIsStray'
  BY <1>1 DEF CallbackInv, ForeignIsStray
<1>11. QED
  BY <1>2, <1>6, <1>7, <1>8, <1>9, <1>10 DEF CallbackInv

LEMMA CallbackStepInv == CallbackInv /\ [CallbackNext]_callbackVars => CallbackInv'
<1> SUFFICES ASSUME CallbackInv, [CallbackNext]_callbackVars PROVE CallbackInv'
  OBVIOUS
<1>1. CASE KeyExpires
  <2>1. /\ UNCHANGED <<worker, container, request, taken, strays, accepted>>
        /\ \/ UNCHANGED <<result, robbed>>
           \/ result # NoOutput /\ result' = NoOutput /\ robbed' = robbed \cup {result}
    BY <1>1 DEF KeyExpires
  <2>2. CallbackShape' /\ PostsOnce' /\ EndedIsAnswered' /\ InOrder' /\ ForeignIsStray'
    BY <2>1 DEF CallbackInv, CallbackShape, PostsOnce, EndedIsAnswered, InOrder,
       ForeignIsStray, InProgress, AtWork, NoOutput, Attempts
  <2>3. StoredIsAwaited' /\ AcceptedIsKept'
    BY <2>1 DEF CallbackInv, StoredIsAwaited, AcceptedIsKept, Fair, AtWork, NoOutput, Attempts
  <2>4. QED
    BY <2>1, <2>2, <2>3 DEF CallbackInv
<1>2. CASE UNCHANGED callbackVars
  BY <1>2 DEF callbackVars, CallbackInv, CallbackShape, PostsOnce, EndedIsAnswered, InOrder,
     StoredIsAwaited, AcceptedIsKept, ForeignIsStray, InProgress, Fair, AtWork
<1>3. QED
  BY <1>1, <1>2, PrepareStep, WorkerStep, RequestStep, StoreStep DEF CallbackNext

\* An output that reaches the worker is that of its own attempt: receive_task_result
\* checks, deletes and stores in separate calls, and read_result of the task manager
\* crosses it, for any number of attempts, crashes, expiries and failed calls.
THEOREM OutputsAreOwn == CallbackSpec => []OutputsFindTheirAttempt
<1>1. CallbackInv => OutputsFindTheirAttempt
  BY DEF CallbackInv, AcceptedIsKept, AcceptedIsRead, OutputsFindTheirAttempt
<1>2. QED
  BY <1>1, CallbackInitInv, CallbackStepInv, PTL DEF CallbackSpec

LEMMA CallbackTypesStep ==
  CallbackInv /\ CallbackTypeOK /\ [CallbackNext]_callbackVars => CallbackTypeOK'
<1> SUFFICES ASSUME CallbackInv, CallbackTypeOK, [CallbackNext]_callbackVars
             PROVE  CallbackTypeOK'
  OBVIOUS
<1>1. CallbackInv'
  BY CallbackStepInv
<1>2. token' \in 0..MaxAttempts
  <2>1. token' = token \/ token' = NoOutput \/ token' \in Attempts
    BY DEF CallbackNext, PrepareAttempt, PrepareWithoutToken, StreamEnds, ReadOutput, DeleteOutput,
       BothDeleted, ReadFails, WorkerDies, PostOutput, PostTimesOut, CheckToken, DeleteToken,
       StoreOutput, PostFails, KeyExpires, callbackVars
  <2>2. QED
    BY <2>1, CallbackAssumption DEF CallbackTypeOK, Attempts, NoOutput
<1>3. mishaps' \in 0..MaxMishaps
  <2>1. mishaps' = mishaps \/ Mishap
    BY DEF CallbackNext, PrepareAttempt, PrepareWithoutToken, StreamEnds, ReadOutput, DeleteOutput,
       ReadFails, WorkerDies, PostOutput, PostTimesOut, CheckToken, DeleteToken, StoreOutput,
       PostFails, KeyExpires, callbackVars
  <2>2. QED
    BY <2>1, CallbackAssumption DEF CallbackTypeOK, Mishap
<1>4. strays' \in SUBSET Attempts
  <2>1. \A x \in strays' : x \in strays \/ x \in Attempts
    BY DEF CallbackNext, PrepareAttempt, PrepareWithoutToken, StreamEnds, ReadOutput, DeleteOutput,
       ReadFails, WorkerDies, PostOutput, PostTimesOut, CheckToken, DeleteToken, StoreOutput,
       PostFails, KeyExpires, callbackVars, AtWork
  <2>2. QED
    BY <2>1 DEF CallbackTypeOK
<1>5. robbed' \in SUBSET Attempts
  <2>1. \A x \in robbed' : x \in robbed \/ x \in Attempts \/ (x = result /\ result # NoOutput)
    BY DEF CallbackNext, PrepareAttempt, PrepareWithoutToken, StreamEnds, ReadOutput, DeleteOutput,
       ReadFails, WorkerDies, PostOutput, PostTimesOut, CheckToken, DeleteToken, StoreOutput,
       PostFails, KeyExpires, callbackVars, Displaces
  <2>2. result # NoOutput => result \in Attempts
    BY DEF CallbackInv, CallbackShape
  <2>3. QED
    BY <2>1, <2>2 DEF CallbackTypeOK
<1>6. result' \in 0..MaxAttempts /\ taken' \in [Attempts -> 0..MaxAttempts]
  <2>1. Attempts \cup {NoOutput} = 0..MaxAttempts
    BY CallbackAssumption DEF Attempts, NoOutput
  <2>2. QED
    BY <1>1, <2>1 DEF CallbackInv, CallbackShape
<1>7. QED
  BY <1>1, <1>2, <1>3, <1>4, <1>5, <1>6 DEF CallbackTypeOK, CallbackInv, CallbackShape

LEMMA CallbackTypesInit == CallbackInit => CallbackTypeOK
BY CallbackAssumption DEF CallbackInit, CallbackTypeOK, NoRequest, NoOutput, Attempts

LEMMA CallbackAlwaysTyped == CallbackInit /\ [][CallbackNext]_callbackVars => []CallbackTypeOK
BY CallbackInitInv, CallbackStepInv, CallbackTypesInit, CallbackTypesStep, PTL

-----------------------------------------------------------------------------
(* Following a pod                                                         *)

Underway == {"preparing", "waiting", "opening", "following", "asking"}
LastLine == IF delivered = <<>> THEN 0 ELSE delivered[Len(delivered)]

\* A container stamps its lines in order.
StampsAscend == \A i, j \in 1..Len(log) : i <= j => log[i] <= log[j]

\* What was delivered are lines of the log, in order; the last one's stamp is
\* remembered for as long as there is a stream to resume.
DeliveredAreLines ==
  /\ \A i \in 1..Len(delivered) : delivered[i] \in 1..Len(log)
  /\ follower \in Underway =>
       IF delivered = <<>> THEN lastStamp = 0 ELSE lastStamp = log[LastLine]

\* A request is at a line that exists or comes next, and what it passed over
\* since the last line delivered shares that line's stamp.
NothingSkipped ==
  /\ fragment => follower \notin {"preparing", "waiting", "opening"}
  /\ follower \in {"following", "asking"} =>
       /\ next \in 1..(Len(log) + 1)
       /\ fragment => next <= Len(log)
       /\ \A k \in (LastLine + 1)..(next - 1) : log[k] = lastStamp

\* The streams and the barren ones among them are counted before they open.
FewResumes ==
  follower \in Underway => resumes <= MaxResumes /\ barren <= MaxBarren

\* Who cleans up unprompted has read the exit code of a container that is over,
\* or has asked for it in vain.
CleansLate ==
  follower = "cleaning" /\ ~cancelled =>
    exitKnown = "unknown" \/ (exitKnown = "known" /\ pod = "ended")

PodInv ==
  /\ PodTypeOK /\ Len(log) <= MaxLines /\ StampsAscend /\ DeliveredAreLines
  /\ NothingSkipped /\ FewResumes /\ CleansLate /\ FollowingIsSafe

LEMMA PodInvInit == PodInit => PodInv
<1> SUFFICES ASSUME PodInit PROVE PodInv
  OBVIOUS
<1>1. log = <<>> /\ delivered = <<>> /\ Len(log) = 0 /\ Len(delivered) = 0
  BY DEF PodInit
<1>2. PodTypeOK
  <2>1. log \in Seq(1..MaxStamp) /\ delivered \in Seq(1..MaxLines)
    BY <1>1
  <2>2. /\ resumes \in 0..(MaxResumes + 1) /\ barren \in 0..(MaxBarren + 1)
        /\ glitches \in 0..MaxGlitches /\ lastStamp \in 0..MaxStamp /\ next \in Nat /\ fresh \in Nat
    BY PodAssumption DEF PodInit
  <2>3. QED
    BY <2>1, <2>2 DEF PodInit, PodTypeOK
<1>3. StampsAscend /\ DeliveredAreLines /\ NothingSkipped /\ FollowingIsSafe
  BY <1>1 DEF PodInit, StampsAscend, DeliveredAreLines, NothingSkipped, FollowingIsSafe,
              OnlyTiesAreLost, WorkIsSpared
<1>4. FewResumes /\ CleansLate /\ Len(log) <= MaxLines
  BY <1>1, PodAssumption DEF PodInit, FewResumes, CleansLate
<1>5. QED
  BY <1>2, <1>3, <1>4 DEF PodInv

-----------------------------------------------------------------------------
(* Lines                                                                   *)

\* The first of some numbers.
LEMMA FirstIsThere ==
  ASSUME NEW S \in SUBSET Nat, S # {}
  PROVE  \E x \in S : \A y \in S : x <= y
<1> DEFINE less == OpToRel(<, Nat)
<1>1. IsWellFoundedOn(less, Nat)
  BY NatLessThanWellFounded
<1>2. \A x, y \in Nat : x < y => <<x, y>> \in less
  BY DEF OpToRel
<1> HIDE DEF less
<1>3. PICK x \in S : \A y \in S : <<y, x>> \notin less
  BY <1>1, WFMin
<1>4. ASSUME NEW y \in S PROVE x <= y
  <2>1. x \in Nat /\ y \in Nat /\ ~(y < x)
    BY <1>2, <1>3
  <2>2. QED
    BY <2>1
<1>5. QED
  BY <1>4

LEMMA LinesAreTyped ==
  ASSUME PodInv
  PROVE  /\ Len(log) \in Nat /\ \A i \in 1..Len(log) : log[i] \in 1..MaxStamp
         /\ Len(delivered) \in Nat /\ \A i \in 1..Len(delivered) : delivered[i] \in 1..Len(log)
         /\ LastLine \in 0..Len(log)
         /\ delivered # <<>> => /\ Len(delivered) \in 1..Len(delivered)
                                /\ LastLine = delivered[Len(delivered)] /\ LastLine \in 1..Len(log)
         /\ MaxStamp \in Nat /\ MaxLines \in Nat
<1>1. Len(log) \in Nat /\ \A i \in 1..Len(log) : log[i] \in 1..MaxStamp
  <2>1. log \in Seq(1..MaxStamp)
    BY DEF PodInv, PodTypeOK
  <2>2. QED
    BY <2>1, ElementOfSeq, LenProperties
<1>2. Len(delivered) \in Nat /\ (delivered # <<>> => Len(delivered) \in 1..Len(delivered))
  <2>1. delivered \in Seq(1..MaxLines)
    BY DEF PodInv, PodTypeOK
  <2>2. Len(delivered) \in Nat /\ (delivered # <<>> => Len(delivered) \in Nat \ {0})
    BY <2>1, EmptySeq, LenProperties
  <2>3. QED
    BY <2>2
<1>3. \A i \in 1..Len(delivered) : delivered[i] \in 1..Len(log)
  BY DEF PodInv, DeliveredAreLines
<1>4. delivered # <<>> => LastLine = delivered[Len(delivered)] /\ LastLine \in 1..Len(log)
  BY <1>2, <1>3 DEF LastLine
<1>5. LastLine \in 0..Len(log)
  BY <1>1, <1>4 DEF LastLine
<1>6. QED
  BY <1>1, <1>2, <1>3, <1>4, <1>5, PodAssumption

\* Where neither the log nor what was delivered moves, nor who follows it how.
LEMMA LinesRest ==
  ASSUME PodInv, UNCHANGED <<log, delivered>>
  PROVE  /\ OnlyTiesAreLost' /\ StampsAscend' /\ LastLine' = LastLine
         /\ (follower' \in Underway => follower \in Underway /\ UNCHANGED lastStamp)
              => DeliveredAreLines'
BY DEF PodInv, FollowingIsSafe, OnlyTiesAreLost, StampsAscend, LastLine, DeliveredAreLines

-----------------------------------------------------------------------------
(* The steps                                                               *)

LEMMA WriteStep ==
  ASSUME PodInv, NEW t \in 1..MaxStamp, WriteLine(t)
  PROVE  PodInv'
<1>1. /\ log \in Seq(1..MaxStamp) /\ log' = Append(log, t) /\ Len(log) < MaxLines
      /\ t >= LastOf(log) /\ pod' = pod
      /\ UNCHANGED <<things, follower, next, fragment, delivered, lastStamp, fresh, resumes, barren,
                     exitKnown, cancelled, glitches, killed>>
  BY DEF WriteLine, PodInv, PodTypeOK, streamVars
<1>2. Len(log) \in Nat /\ MaxLines \in Nat /\ MaxStamp \in Nat /\ LastLine' = LastLine
      /\ LastLine \in 0..Len(log)
  BY <1>1, LinesAreTyped DEF LastLine
<1>3. /\ log' \in Seq(1..MaxStamp) /\ Len(log') = Len(log) + 1
      /\ \A i \in 1..Len(log) : log'[i] = log[i]
      /\ log'[Len(log) + 1] = t
  BY <1>1, AppendProperties
<1>4. PodTypeOK' /\ Len(log') <= MaxLines
  BY <1>1, <1>2, <1>3 DEF PodInv, PodTypeOK
<1>5. StampsAscend'
  <2>1. \A i \in 1..Len(log) : log[i] <= t
    <3>1. CASE log = <<>>
      BY <3>1
    <3>2. CASE log # <<>>
      <4>1. Len(log) \in 1..Len(log)
        BY <1>1, <3>2, EmptySeq, LenProperties
      <4>2. log[Len(log)] <= t /\ log[Len(log)] \in Nat
        BY <1>1, <3>2, <4>1, LinesAreTyped DEF LastOf
      <4>3. \A i \in 1..Len(log) : log[i] <= log[Len(log)] /\ log[i] \in Nat
        BY <1>2, <4>1, LinesAreTyped DEF PodInv, StampsAscend
      <4>4. QED
        BY <4>2, <4>3
    <3>3. QED
      BY <3>1, <3>2
  <2>2. SUFFICES ASSUME NEW i \in 1..(Len(log) + 1), NEW j \in 1..(Len(log) + 1), i <= j
                 PROVE  log'[i] <= log'[j]
    BY <1>3 DEF StampsAscend
  <2>3. CASE j \in 1..Len(log)
    <3>1. i \in 1..Len(log)
      BY <1>2, <2>2, <2>3
    <3>2. log'[i] = log[i] /\ log'[j] = log[j]
      BY <1>3, <2>3, <3>1
    <3>3. log[i] <= log[j]
      BY <2>2, <2>3, <3>1 DEF PodInv, StampsAscend
    <3>4. QED
      BY <3>2, <3>3
  <2>4. CASE j = Len(log) + 1
    BY <1>2, <1>3, <2>1, <2>2, <2>4
  <2>5. QED
    BY <1>2, <2>3, <2>4
<1>6. DeliveredAreLines'
  <2>1. \A i \in 1..Len(delivered) : delivered[i] \in 1..(Len(log) + 1)
    BY <1>2, LinesAreTyped
  <2>2. delivered # <<>> => log'[LastLine] = log[LastLine]
    BY <1>2, <1>3, LinesAreTyped
  <2>3. QED
    BY <1>1, <1>2, <1>3, <2>1, <2>2 DEF PodInv, DeliveredAreLines
<1>7. NothingSkipped'
  <2>1. ASSUME follower \in {"following", "asking"}
        PROVE  /\ next \in 1..(Len(log') + 1)
               /\ fragment => next <= Len(log')
               /\ \A k \in (LastLine + 1)..(next - 1) : log'[k] = lastStamp
    <3>1. /\ next \in 1..(Len(log) + 1) /\ (fragment => next <= Len(log))
          /\ \A k \in (LastLine + 1)..(next - 1) : log[k] = lastStamp
      BY <2>1 DEF PodInv, NothingSkipped
    <3>2. QED
      BY <1>2, <1>3, <3>1, SMTT(30)
  <2>2. QED
    BY <1>1, <1>2, <2>1 DEF PodInv, NothingSkipped
<1>8. FollowingIsSafe'
  <2>1. \A k \in 1..LastLine : log'[k] = log[k] /\ (k > 1 => log'[k - 1] = log[k - 1])
    <3>1. SUFFICES ASSUME NEW k \in 1..LastLine
                   PROVE  log'[k] = log[k] /\ (k > 1 => log'[k - 1] = log[k - 1])
      OBVIOUS
    <3>2. k \in 1..Len(log) /\ (k > 1 => k - 1 \in 1..Len(log))
      BY <1>2
    <3>3. QED
      BY <1>3, <3>2
  <2>2. OnlyTiesAreLost'
    BY <1>1, <1>2, <2>1 DEF PodInv, FollowingIsSafe, OnlyTiesAreLost, LastLine
  <2>3. QED
    BY <1>1, <2>2 DEF PodInv, FollowingIsSafe, WorkIsSpared
<1>9. FewResumes' /\ CleansLate'
  BY <1>1 DEF PodInv, FewResumes, CleansLate
<1>10. QED
  BY <1>4, <1>5, <1>6, <1>7, <1>8, <1>9 DEF PodInv

\* Steps of the cluster, and of the coroutine around its streams.
LEMMA AroundStep ==
  ASSUME PodInv, PodStarts \/ PodEnds \/ CreateNext \/ PodFound \/ OpenRefused \/ PartOfLine
                 \/ StreamCloses \/ Collect \/ CancelRun \/ Clean
  PROVE  PodInv'
<1> USE PodAssumption
<1>1. /\ UNCHANGED <<log, delivered, lastStamp, next, fresh, resumes, barren>>
      /\ UNCHANGED fragment \/ PartOfLine
  BY DEF PodStarts, PodEnds, CreateNext, PodFound, OpenRefused, PartOfLine, StreamCloses, Collect,
         CancelRun, Clean, streamVars, clusterVars
<1>2. /\ follower' \in Underway => follower \in Underway
      /\ follower' \in {"following", "asking"} => follower \in {"following", "asking"}
      /\ follower' \in {"preparing", "waiting", "opening"} =>
           follower \in {"preparing", "waiting", "opening"} /\ UNCHANGED fragment
  BY <1>1 DEF PodStarts, PodEnds, CreateNext, PodFound, OpenRefused, PartOfLine, StreamCloses, Collect,
         CancelRun, Clean, Follows, Underway
<1>3. OnlyTiesAreLost' /\ StampsAscend' /\ LastLine' = LastLine /\ DeliveredAreLines'
  BY <1>1, <1>2, LinesRest
<1>4. NothingSkipped'
  <2>1. CASE UNCHANGED fragment
    BY <1>1, <1>2, <1>3, <2>1 DEF PodInv, NothingSkipped
  <2>2. CASE PartOfLine
    BY <1>1, <1>2, <1>3, <2>2 DEF PodInv, NothingSkipped, PartOfLine
  <2>3. QED
    BY <1>1, <2>1, <2>2
<1>5. FewResumes'
  BY <1>1, <1>2 DEF PodInv, FewResumes
<1>6. PodTypeOK'
  <2>1. glitches' \in 0..MaxGlitches
    BY DEF PodStarts, PodEnds, CreateNext, PodFound, OpenRefused, PartOfLine, StreamCloses, Collect,
           CancelRun, Clean, Glitch, PodInv, PodTypeOK
  <2>2. pod' \in {"none", "pending", "running", "ended"} /\ things' \in SUBSET Things
    BY DEF PodStarts, PodEnds, CreateNext, PodFound, OpenRefused, PartOfLine, StreamCloses, Collect,
           CancelRun, Clean, clusterVars, PodInv, PodTypeOK, Things
  <2>3. follower' \in {"preparing", "waiting", "following", "asking", "opening",
                       "collecting", "cleaning", "done"}
    BY DEF PodStarts, PodEnds, CreateNext, PodFound, OpenRefused, PartOfLine, StreamCloses, Collect,
           CancelRun, Clean, Follows, PodInv, PodTypeOK
  <2>4. /\ exitKnown' \in {"unread", "known", "unknown"} /\ fragment' \in BOOLEAN
        /\ cancelled' \in BOOLEAN /\ killed' \in BOOLEAN
    BY <1>1 DEF PodStarts, PodEnds, CreateNext, PodFound, OpenRefused, PartOfLine, StreamCloses,
                Collect, CancelRun, Clean, PodInv, PodTypeOK
  <2>5. QED
    BY <1>1, <2>1, <2>2, <2>3, <2>4 DEF PodInv, PodTypeOK
<1>7. CleansLate' /\ WorkIsSpared'
  BY DEF PodStarts, PodEnds, CreateNext, PodFound, OpenRefused, PartOfLine, StreamCloses, Collect,
         CancelRun, Clean, Follows, Withheld, clusterVars, PodInv, CleansLate, FollowingIsSafe,
         WorkIsSpared, PodTypeOK
<1>8. QED
  BY <1>1, <1>3, <1>4, <1>5, <1>6, <1>7 DEF PodInv, FollowingIsSafe

\* The window reaches back to the last line delivered, whatever the clocks say.
LEMMA OpenStep ==
  ASSUME PodInv, NEW d \in 0..Drift, OpenStream(d)
  PROVE  PodInv'
<1>1. /\ UNCHANGED <<pod, log, things, fragment, delivered, lastStamp, resumes, barren, exitKnown,
                     cancelled, glitches, killed>>
      /\ follower = "opening" /\ follower' = "following" /\ next' = FirstLine(Window(d)) /\ fresh' = 0
  BY DEF OpenStream, clusterVars, Follows
<1>2. OnlyTiesAreLost' /\ StampsAscend' /\ LastLine' = LastLine /\ DeliveredAreLines'
  BY <1>1, LinesRest DEF Underway
<1>3. next' \in 1..(Len(log) + 1) /\ \A k \in (LastLine + 1)..(next' - 1) : log[k] = lastStamp
  <2>1. CASE lastStamp = 0
    BY <1>1, <2>1, LinesAreTyped DEF FirstLine
  <2>2. CASE lastStamp # 0
    <3> DEFINE from == Window(d)
               in == {i \in 1..Len(log) : log[i] >= from}
    <3>1. delivered # <<>> /\ lastStamp = log[LastLine] /\ LastLine \in 1..Len(log)
      BY <1>1, <2>2, LinesAreTyped DEF PodInv, DeliveredAreLines, Underway
    <3>2. from \in Nat /\ from <= lastStamp
      BY PodAssumption DEF Window, PodInv, PodTypeOK
    <3>3. LastLine \in in
      BY <3>1, <3>2
    <3>4. in \in SUBSET Nat
      OBVIOUS
    <3>5. next' = CHOOSE i \in in : \A j \in in : i <= j
      BY <1>1, <2>2, <3>3 DEF FirstLine
    <3> HIDE DEF in
    <3>6. next' \in in /\ \A j \in in : next' <= j
      BY <3>3, <3>4, <3>5, FirstIsThere
    <3>7. next' \in 1..Len(log) /\ next' <= LastLine
      BY <3>3, <3>6 DEF in
    <3>8. Len(log) \in Nat
      BY LinesAreTyped
    <3>9. next' \in Nat /\ LastLine \in Nat /\ next' \in 1..(Len(log) + 1)
      BY <3>1, <3>7, <3>8
    <3>10. \A k \in (LastLine + 1)..(next' - 1) : FALSE
      <4>1. \A l, n \in Nat : n <= l => \A k \in (l + 1)..(n - 1) : FALSE
        OBVIOUS
      <4>2. QED
        BY <3>7, <3>9, <4>1
    <3>11. QED
      BY <3>9, <3>10
  <2>3. QED
    BY <2>1, <2>2
<1>4. NothingSkipped'
  BY <1>1, <1>2, <1>3 DEF PodInv, NothingSkipped
<1>5. PodTypeOK' /\ FewResumes' /\ CleansLate' /\ WorkIsSpared' /\ Len(log') <= MaxLines
  BY <1>1, <1>3, LinesAreTyped, SMTT(30) DEF PodInv, PodTypeOK, FewResumes, CleansLate, FollowingIsSafe, WorkIsSpared,
                    Underway
<1>6. QED
  BY <1>2, <1>4, <1>5 DEF PodInv, FollowingIsSafe

\* A line delivered is later than all before it; one that is not shares the
\* stamp of the last.
LEMMA DeliveredOneMore ==
  ASSUME PodInv, follower \in {"following", "asking"}, next <= Len(log), log[next] > lastStamp,
         log' = log, delivered' = Append(delivered, next)
  PROVE  /\ OnlyTiesAreLost' /\ LastLine' = next
         /\ delivered' \in Seq(1..MaxLines) /\ delivered' # <<>>
         /\ \A i \in 1..Len(delivered') : delivered'[i] \in 1..Len(log)
<1>1. next \in 1..Len(log) /\ Len(log) \in Nat /\ Len(log) <= MaxLines /\ MaxLines \in Nat
  BY LinesAreTyped DEF PodInv, NothingSkipped
<1>2. /\ delivered' \in Seq(1..MaxLines) /\ Len(delivered') = Len(delivered) + 1
      /\ \A i \in 1..Len(delivered) : delivered'[i] = delivered[i]
      /\ delivered'[Len(delivered) + 1] = next
  <2>1. delivered \in Seq(1..MaxLines) /\ next \in 1..MaxLines
    BY <1>1 DEF PodInv, PodTypeOK
  <2>2. QED
    BY <2>1, AppendProperties
<1>3. Len(delivered) \in Nat /\ LastLine \in 0..Len(log)
  BY LinesAreTyped
<1>4. LastLine' = next /\ delivered' # <<>>
  <2>1. delivered' # <<>>
    BY <1>2, <1>3
  <2>2. QED
    BY <1>2, <2>1 DEF LastLine
<1>5. LastLine < next
  <2>1. CASE delivered = <<>>
    BY <1>1, <2>1 DEF LastLine
  <2>2. CASE delivered # <<>>
    <3>1. LastLine \in 1..Len(log) /\ lastStamp = log[LastLine]
      BY <2>2, LinesAreTyped DEF PodInv, DeliveredAreLines, Underway
    <3>2. ~(next <= LastLine)
      <4>1. next <= LastLine => log[next] <= log[LastLine]
        BY <1>1, <3>1 DEF PodInv, StampsAscend
      <4>2. log[next] \in Nat /\ log[LastLine] \in Nat
        BY <1>1, <3>1, LinesAreTyped
      <4>3. QED
        BY <3>1, <4>1, <4>2
    <3>3. QED
      BY <1>1, <1>3, <3>2
  <2>3. QED
    BY <2>1, <2>2
<1>6. \A i \in 1..Len(delivered) : delivered[i] <= LastLine
  <2>1. SUFFICES ASSUME NEW i \in 1..Len(delivered) PROVE delivered[i] <= LastLine
    OBVIOUS
  <2>2. delivered # <<>>
    BY <2>1
  <2>3. Len(delivered) \in 1..Len(delivered) /\ LastLine = delivered[Len(delivered)]
        /\ delivered[i] \in Nat
    BY <2>2, LinesAreTyped
  <2>4. \A j, k \in 1..Len(delivered) : j < k => delivered[j] < delivered[k]
    BY DEF PodInv, FollowingIsSafe, OnlyTiesAreLost
  <2>5. QED
    BY <1>3, <2>3, <2>4
<1>7. \A i, j \in 1..Len(delivered') : i < j => delivered'[i] < delivered'[j]
  <2>1. SUFFICES ASSUME NEW i \in 1..Len(delivered'), NEW j \in 1..Len(delivered'), i < j
                 PROVE  delivered'[i] < delivered'[j]
    OBVIOUS
  <2>2. i \in 1..Len(delivered) /\ delivered'[i] = delivered[i] /\ delivered[i] \in Nat
    BY <1>2, <1>3, <2>1, LinesAreTyped
  <2>3. CASE j \in 1..Len(delivered)
    BY <1>2, <2>1, <2>2, <2>3 DEF PodInv, FollowingIsSafe, OnlyTiesAreLost
  <2>4. CASE j = Len(delivered) + 1
    BY <1>1, <1>2, <1>3, <1>5, <1>6, <2>2, <2>4
  <2>5. QED
    BY <1>2, <1>3, <2>3, <2>4
<1>8. ASSUME NEW k \in 1..next
      PROVE  (\E i \in 1..Len(delivered') : delivered'[i] = k) \/ (k > 1 /\ log[k] = log[k - 1])
  <2>1. CASE k = next
    BY <1>2, <1>3, <2>1
  <2>2. CASE k \in 1..LastLine
    <3>1. (\E i \in 1..Len(delivered) : delivered[i] = k) \/ (k > 1 /\ log[k] = log[k - 1])
      BY <2>2 DEF PodInv, FollowingIsSafe, OnlyTiesAreLost, LastLine
    <3>2. QED
      BY <1>2, <1>3, <3>1
  <2>3. CASE k \in (LastLine + 1)..(next - 1)
    <3>1. log[k] = lastStamp
      BY <2>3 DEF PodInv, NothingSkipped
    <3>2. k \in 1..Len(log) /\ log[k] \in 1..MaxStamp
      BY <1>1, <1>3, <2>3, LinesAreTyped
    <3>3. delivered # <<>> /\ lastStamp = log[LastLine] /\ LastLine \in 1..Len(log)
      BY <3>1, <3>2, LinesAreTyped DEF PodInv, DeliveredAreLines, Underway
    <3>4. CASE k = LastLine + 1
      BY <1>3, <3>1, <3>3, <3>4
    <3>5. CASE k # LastLine + 1
      <4>1. k - 1 \in (LastLine + 1)..(next - 1) /\ k > 1
        BY <1>1, <1>3, <2>3, <3>5
      <4>2. log[k - 1] = lastStamp
        BY <4>1 DEF PodInv, NothingSkipped
      <4>3. QED
        BY <3>1, <4>1, <4>2
    <3>6. QED
      BY <3>4, <3>5
  <2>4. QED
    BY <1>1, <1>3, <1>5, <2>1, <2>2, <2>3
<1>9. OnlyTiesAreLost'
  BY <1>4, <1>7, <1>8 DEF OnlyTiesAreLost, LastLine
<1>10. \A i \in 1..Len(delivered') : delivered'[i] \in 1..Len(log)
  BY <1>1, <1>2, <1>3, LinesAreTyped
<1>11. QED
  BY <1>2, <1>4, <1>9, <1>10

LEMMA ReceiveStep ==
  ASSUME PodInv, ReceiveLine
  PROVE  PodInv'
<1>1. /\ UNCHANGED <<pod, log, things, follower, resumes, barren, exitKnown, cancelled, glitches, killed>>
      /\ follower = "following" /\ next <= Len(log) /\ next' = next + 1 /\ fragment' = FALSE
  BY DEF ReceiveLine, clusterVars
<1>2. /\ next \in 1..Len(log) /\ Len(log) \in Nat /\ log[next] \in 1..MaxStamp /\ LastLine \in 0..Len(log)
      /\ \A k \in (LastLine + 1)..(next - 1) : log[k] = lastStamp
      /\ lastStamp \in Nat /\ MaxStamp \in Nat
  BY <1>1, LinesAreTyped DEF PodInv, NothingSkipped, PodTypeOK
<1>3. StampsAscend' /\ FewResumes' /\ CleansLate' /\ WorkIsSpared' /\ Len(log') <= MaxLines
  BY <1>1 DEF PodInv, StampsAscend, FewResumes, CleansLate, FollowingIsSafe, WorkIsSpared
<1>4. CASE log[next] > lastStamp
  <2>1. delivered' = Append(delivered, next) /\ lastStamp' = log[next] /\ fresh' = fresh + 1
    BY <1>4 DEF ReceiveLine, Later
  <2>2. /\ OnlyTiesAreLost' /\ LastLine' = next
        /\ delivered' \in Seq(1..MaxLines) /\ delivered' # <<>>
        /\ \A i \in 1..Len(delivered') : delivered'[i] \in 1..Len(log)
    BY <1>1, <1>4, <2>1, DeliveredOneMore
  <2>3. DeliveredAreLines'
    BY <1>1, <2>1, <2>2 DEF DeliveredAreLines
  <2>4. (LastLine' + 1)..(next' - 1) = {} /\ next' \in 1..(Len(log) + 1)
    BY <1>1, <1>2, <2>2
  <2>5. NothingSkipped'
    BY <1>1, <2>4 DEF NothingSkipped
  <2>6. PodTypeOK'
    <3>1. next' \in Nat /\ lastStamp' \in 0..MaxStamp /\ fresh' \in Nat
      BY <1>1, <1>2, <2>1 DEF PodInv, PodTypeOK
    <3>2. fragment' \in BOOLEAN
      BY <1>1
    <3>3. QED
      BY <1>1, <2>2, <3>1, <3>2 DEF PodInv, PodTypeOK
  <2>7. QED
    BY <1>3, <2>2, <2>3, <2>5, <2>6 DEF PodInv, FollowingIsSafe
<1>5. CASE ~(log[next] > lastStamp)
  <2>1. UNCHANGED <<delivered, lastStamp, fresh>>
    BY <1>5 DEF ReceiveLine, Later
  <2>2. OnlyTiesAreLost' /\ LastLine' = LastLine /\ DeliveredAreLines'
    BY <1>1, <2>1, LinesRest
  <2>3. next > LastLine => log[next] = lastStamp
    <3>1. SUFFICES ASSUME next > LastLine PROVE log[next] = lastStamp
      OBVIOUS
    <3>2. CASE delivered = <<>>
      BY <1>1, <1>2, <1>5, <3>2 DEF PodInv, DeliveredAreLines, Underway
    <3>3. CASE delivered # <<>>
      <4>1. LastLine \in 1..Len(log) /\ lastStamp = log[LastLine]
        BY <1>1, <3>3, LinesAreTyped DEF PodInv, DeliveredAreLines, Underway
      <4>2. log[LastLine] <= log[next]
        BY <1>2, <3>1, <4>1 DEF PodInv, StampsAscend
      <4>3. QED
        BY <1>2, <1>5, <4>1, <4>2
    <3>4. QED
      BY <3>2, <3>3
  <2>4. \A k \in (LastLine + 1)..(next' - 1) : log[k] = lastStamp
    BY <1>1, <1>2, <2>3
  <2>5. NothingSkipped'
    BY <1>1, <1>2, <2>1, <2>2, <2>4 DEF NothingSkipped
  <2>6. PodTypeOK'
    <3>1. next' \in Nat
      BY <1>1, <1>2
    <3>2. fragment' \in BOOLEAN
      BY <1>1
    <3>3. QED
      BY <1>1, <2>1, <3>1, <3>2 DEF PodInv, PodTypeOK
  <2>7. QED
    BY <1>3, <2>2, <2>5, <2>6 DEF PodInv, FollowingIsSafe
<1>6. QED
  BY <1>4, <1>5

\* What is left in the buffer is the last line, and no stream follows.
LEMMA OverStep ==
  ASSUME PodInv, StreamIsOver
  PROVE  PodInv'
<1>1. /\ UNCHANGED <<pod, log, things, next, lastStamp, fresh, resumes, barren, exitKnown, cancelled, killed>>
      /\ follower = "asking" /\ follower' = "collecting" /\ fragment' = FALSE
      /\ delivered' = IF fragment /\ log[next] > lastStamp THEN Append(delivered, next) ELSE delivered
      /\ glitches' \in 0..MaxGlitches
  BY PodAssumption DEF StreamIsOver, clusterVars, Follows, Later, Glitch, PodInv, PodTypeOK
<1>2. /\ OnlyTiesAreLost' /\ delivered' \in Seq(1..MaxLines)
      /\ \A i \in 1..Len(delivered') : delivered'[i] \in 1..Len(log)
  <2>1. CASE fragment /\ log[next] > lastStamp
    BY <1>1, <2>1, DeliveredOneMore DEF PodInv, NothingSkipped
  <2>2. CASE ~(fragment /\ log[next] > lastStamp)
    BY <1>1, <2>2, LinesRest DEF PodInv, PodTypeOK, DeliveredAreLines
  <2>3. QED
    BY <2>1, <2>2
<1>3. StampsAscend' /\ FewResumes' /\ CleansLate' /\ WorkIsSpared' /\ Len(log') <= MaxLines
  BY <1>1 DEF PodInv, StampsAscend, FewResumes, CleansLate, FollowingIsSafe, WorkIsSpared, Underway
<1>4. DeliveredAreLines' /\ NothingSkipped'
  BY <1>1, <1>2 DEF DeliveredAreLines, NothingSkipped, Underway
<1>5. PodTypeOK'
  BY <1>1, <1>2 DEF PodInv, PodTypeOK
<1>6. QED
  BY <1>2, <1>3, <1>4, <1>5 DEF PodInv, FollowingIsSafe

LEMMA ResumeStep ==
  ASSUME PodInv, Resume
  PROVE  PodInv'
<1> DEFINE b == IF fresh > 0 THEN 0 ELSE barren + 1
<1>1. /\ UNCHANGED <<pod, log, things, next, delivered, lastStamp, fresh, exitKnown, cancelled, glitches, killed>>
      /\ follower = "asking" /\ barren' = b
      /\ \/ follower' = "collecting" /\ UNCHANGED <<resumes, fragment>>
         \/ follower' = "collecting" /\ resumes' = resumes + 1 /\ UNCHANGED fragment
         \/ /\ follower' = "opening" /\ fragment' = FALSE /\ resumes' = resumes + 1
            /\ b <= MaxBarren /\ resumes' <= MaxResumes
  BY PodAssumption DEF Resume, clusterVars, Follows, PodInv, PodTypeOK
<1>2. resumes <= MaxResumes /\ barren <= MaxBarren
  BY <1>1 DEF PodInv, FewResumes, Underway
<1>3. OnlyTiesAreLost' /\ StampsAscend' /\ LastLine' = LastLine /\ DeliveredAreLines'
  BY <1>1, LinesRest DEF Underway
<1>4. NothingSkipped'
  BY <1>1 DEF NothingSkipped
<1>5. resumes' \in 0..(MaxResumes + 1) /\ barren' \in 0..(MaxBarren + 1)
  BY <1>1, <1>2, PodAssumption DEF PodInv, PodTypeOK
<1>6. FewResumes' /\ CleansLate' /\ WorkIsSpared' /\ Len(log') <= MaxLines
  BY <1>1 DEF PodInv, FewResumes, CleansLate, FollowingIsSafe, WorkIsSpared, Underway
<1>7. PodTypeOK'
  BY <1>1, <1>5 DEF PodInv, PodTypeOK
<1>8. QED
  BY <1>3, <1>4, <1>6, <1>7 DEF PodInv, FollowingIsSafe

LEMMA PodStepInv == PodInv /\ [PodNext]_podVars => PodInv'
<1> SUFFICES ASSUME PodInv, [PodNext]_podVars PROVE PodInv'
  OBVIOUS
<1>1. CASE PodNext
  BY <1>1, WriteStep, AroundStep, OpenStep, ReceiveStep, OverStep, ResumeStep DEF PodNext
<1>2. CASE UNCHANGED podVars
  BY <1>2 DEF podVars, PodInv, PodTypeOK, StampsAscend, DeliveredAreLines, NothingSkipped, FewResumes,
              CleansLate, FollowingIsSafe, OnlyTiesAreLost, WorkIsSpared, LastLine
<1>3. QED
  BY <1>1, <1>2

\* The lines of a pod reach the log in order, whole and no later than they are
\* known to be lost, and a pod that works is not given up: _iter_pod_log_lines and
\* its resumption, for any log, clock skew, number of breaks and budget.
THEOREM FollowingIsAlwaysSafe == PodSpec => []FollowingIsSafe
<1>1. PodInv => FollowingIsSafe
  BY DEF PodInv
<1>2. QED
  BY <1>1, PodInvInit, PodStepInv, PTL DEF PodSpec

-----------------------------------------------------------------------------
(* The composition of the services                                         *)

LEMMA ServicesStart ==
  ServicesInit =>
    /\ EndpointInit
    /\ ClientInit
    /\ DeliveryInit
    /\ LocksInit
    /\ ReconcileInit
    /\ RefresherInit
    /\ ContextInit
    /\ RunnerInit
    /\ ToolsInit
    /\ CallbackInit
    /\ PodInit
BY DEF ServicesInit

\* A step of the composition is a step of each part, or leaves it as it is.
LEMMA ServicesStep ==
  [ServicesNext]_servicesVars =>
    /\ [EndpointNext]_endpointVars
    /\ [ClientNext]_clientVars
    /\ [DeliveryNext]_deliveryVars
    /\ [LocksNext]_lockVars
    /\ [ReconcileNext]_reconcileVars
    /\ [RefresherNext]_refresherVars
    /\ [ContextNext]_contextVars
    /\ [RunnerNext]_runnerVars
    /\ [ToolsNext]_toolVars
    /\ [CallbackNext]_callbackVars
    /\ [PodNext]_podVars
<1> DEFINE Fits ==
             /\ [EndpointNext]_endpointVars
             /\ [ClientNext]_clientVars
             /\ [DeliveryNext]_deliveryVars
             /\ [LocksNext]_lockVars
             /\ [ReconcileNext]_reconcileVars
             /\ [RefresherNext]_refresherVars
             /\ [ContextNext]_contextVars
             /\ [RunnerNext]_runnerVars
             /\ [ToolsNext]_toolVars
             /\ [CallbackNext]_callbackVars
             /\ [PodNext]_podVars
<1> SUFFICES ASSUME [ServicesNext]_servicesVars PROVE Fits
  OBVIOUS
<1>1. CASE EndpointsMove
  BY <1>1 DEF EndpointsMove, Only
<1>2. CASE ClientMoves
  BY <1>2 DEF ClientMoves, Only
<1>3. CASE DeliveryMoves
  BY <1>3 DEF DeliveryMoves, Only
<1>4. CASE LocksMove
  BY <1>4 DEF LocksMove, Only
<1>5. CASE ReconcileMoves
  BY <1>5 DEF ReconcileMoves, Only
<1>6. CASE RefresherMoves
  BY <1>6 DEF RefresherMoves, Only
<1>7. CASE ContextMoves
  BY <1>7 DEF ContextMoves, Only
<1>8. CASE RunnerMoves
  BY <1>8 DEF RunnerMoves, Only
<1>9. CASE ToolsMove
  BY <1>9 DEF ToolsMove, Only
<1>10. CASE CallbackMoves
  BY <1>10 DEF CallbackMoves, Only
<1>11. CASE PodMoves
  BY <1>11 DEF PodMoves, Only
<1>12. CASE UNCHANGED servicesVars
  BY <1>12 DEF servicesVars
<1>13. QED
  BY <1>1, <1>2, <1>3, <1>4, <1>5, <1>6, <1>7, <1>8, <1>9, <1>10, <1>11, <1>12 DEF ServicesNext

\* Every variable of every service keeps its type when the services run side by side,
\* each from its own handlers, for every value of all their constants.
THEOREM ServicesAreTyped == ServicesSpec => []ServicesTypeOK
<1>1. EndpointInit /\ [][EndpointNext]_endpointVars => []EndpointsTypeOK
  <2>1. EndpointInv => EndpointsTypeOK
    BY DEF EndpointInv, EndpointShape
  <2>2. QED
    BY <2>1, EndpointInvInit, EndpointInvStep, PTL
<1>2. ClientInit /\ [][ClientNext]_clientVars => []ClientTypeOK
  BY ClientAlwaysTyped, PTL
<1>3. DeliveryInit /\ [][DeliveryNext]_deliveryVars => []DeliveryTypeOK
  <2>1. DeliveryInit => FlagTypes
    BY Zenon DEF DeliveryInit, FlagTypes
  <2>2. FlagTypes /\ DeliveryInv => DeliveryTypeOK
    BY Zenon DEF FlagTypes, DeliveryInv, MoreTypes, DeliveryTypeOK
  <2>3. QED
    BY <2>1, <2>2, DeliveryInitInv, DeliveryStepInv, FlagsKept, PTL
<1>4. LocksInit /\ [][LocksNext]_lockVars => []LocksTypeOK
  BY LocksTypes, PTL DEF LocksSpec
<1>5. ReconcileInit /\ [][ReconcileNext]_reconcileVars => []ReconcileTypeOK
  BY ReconcileTypes, PTL DEF ReconcileSpec
<1>6. RefresherInit /\ [][RefresherNext]_refresherVars => []RefresherTypeOK
  <2>1. WatchInv => RefresherTypeOK
    BY DEF WatchInv
  <2>2. QED
    BY <2>1, WatchInvInit, WatchStepInv, PTL
<1>7. ContextInit /\ [][ContextNext]_contextVars => []ContextTypeOK
  <2>1. ContextInv => ContextTypeOK
    BY DEF ContextInv
  <2>2. QED
    BY <2>1, ContextInvInit, ContextInvStep, PTL
<1>8. RunnerInit /\ [][RunnerNext]_runnerVars => []RunnerTypeOK
  <2>1. StallInv => RunnerTypeOK
    BY DEF StallInv
  <2>2. QED
    BY <2>1, StallInvInit, StallInvStep, PTL
<1>9. ToolsInit /\ [][ToolsNext]_toolVars => []ToolsTypeOK
  BY ToolsAlwaysTyped, PTL
<1>10. CallbackInit /\ [][CallbackNext]_callbackVars => []CallbackTypeOK
  BY CallbackAlwaysTyped, PTL
<1>11. PodInit /\ [][PodNext]_podVars => []PodTypeOK
  <2>1. PodInv => PodTypeOK
    BY DEF PodInv
  <2>2. QED
    BY <2>1, PodInvInit, PodStepInv, PTL
<1>12. (EndpointsTypeOK /\ ClientTypeOK /\ DeliveryTypeOK /\ LocksTypeOK
        /\ ReconcileTypeOK /\ RefresherTypeOK /\ ContextTypeOK /\ RunnerTypeOK
        /\ ToolsTypeOK /\ CallbackTypeOK /\ PodTypeOK) => ServicesTypeOK
  BY Zenon DEF ServicesTypeOK
<1>13. QED
  BY ServicesStart, <1>1, <1>2, <1>3, <1>4, <1>5, <1>6, <1>7, <1>8, <1>9, <1>10, <1>11, <1>12,
     ServicesStep, PTL DEF ServicesSpec

\* What the parts promise one by one they promise together: what disturbs a part is
\* in its own actions, none of another's (the services share no state).
THEOREM ServicesAreSafe ==
  ServicesSpec =>
    /\ []CloudIsOwned
    /\ []ReplacedUrlReported
    /\ []StoredTokenUsable
    /\ []OneTaskPerIssue
    /\ []OneLease
    /\ []BootIsSafe
    /\ []WatchIsHonest
    /\ []ContextIsTrue
    /\ []StallIsSeen
    /\ []ToolsShare
    /\ []OutputsFindTheirAttempt
    /\ []FollowingIsSafe
<1>1. EndpointInit /\ [][EndpointNext]_endpointVars => []CloudIsOwned /\ []ReplacedUrlReported
  BY CloudEndpointsAreOwned, ReplacedUrlsAreReported, PTL DEF EndpointSpec
<1>2. ClientInit /\ [][ClientNext]_clientVars => []StoredTokenUsable
  <2>1. ClientInv => StoredTokenUsable
    BY DEF ClientInv
  <2>2. QED
    BY <2>1, ClientInitInv, ClientStepInv, PTL
<1>3. DeliveryInit /\ [][DeliveryNext]_deliveryVars => []OneTaskPerIssue
  <2>1. DeliveryInv => OneTaskPerIssue
    BY DEF DeliveryInv, RefIsTask, OneTaskPerIssue
  <2>2. QED
    BY <2>1, DeliveryInitInv, DeliveryStepInv, PTL
<1>4. LocksInit /\ [][LocksNext]_lockVars => []OneLease
  BY Leases, PTL DEF LocksSpec
<1>5. ReconcileInit /\ [][ReconcileNext]_reconcileVars => []BootIsSafe
  BY BootStaysSafe, PTL DEF ReconcileSpec
<1>6. RefresherInit /\ [][RefresherNext]_refresherVars => []WatchIsHonest
  BY WatchIsHonestAlways, PTL DEF RefresherSpec
<1>7. ContextInit /\ [][ContextNext]_contextVars => []ContextIsTrue
  BY ContextStaysTrue, PTL DEF ContextSpec
<1>8. RunnerInit /\ [][RunnerNext]_runnerVars => []StallIsSeen
  BY StallInvInit, StallInvStep, StallsFollow, PTL
<1>9. ToolsInit /\ [][ToolsNext]_toolVars => []ToolsShare
  BY SharingIsSafe, PTL DEF ToolsSpec
<1>10. CallbackInit /\ [][CallbackNext]_callbackVars => []OutputsFindTheirAttempt
  BY OutputsAreOwn, PTL DEF CallbackSpec
<1>11. PodInit /\ [][PodNext]_podVars => []FollowingIsSafe
  BY FollowingIsAlwaysSafe, PTL DEF PodSpec
<1>12. QED
  BY ServicesStart, <1>1, <1>2, <1>3, <1>4, <1>5, <1>6, <1>7, <1>8, <1>9, <1>10, <1>11,
     ServicesStep, PTL DEF ServicesSpec
=============================================================================
