---------------------------- MODULE CacheReconcile ----------------------------
(***************************************************************************)
(* What the workspace gateway does at boot with the files its last life    *)
(* left in the VFS cache.  rclone (external) keeps for a file its data and *)
(* metadata; a dirty file is one it has to upload.  A crash may leave dirty *)
(* metadata without data, or data with metadata that says it is empty.     *)
(* cache_reconcile.py clears the first and, of the second, repairs those   *)
(* whose cloud object is still the one they were derived from and moves    *)
(* the others aside.  It may crash between any two of its steps.           *)
(***************************************************************************)
EXTENDS Naturals, FiniteSets

CONSTANTS
  Files,
  Namesakes,    \* files whose name is also that of an object nearer the root
  MaxVersions,  \* bound: contents ever written, here or in the cloud
  MaxFaults     \* bound: crashes and calls that fail

ASSUME ReconcileAssumption ==
  /\ Namesakes \subseteq Files
  /\ MaxVersions \in Nat /\ MaxFaults \in Nat

VARIABLES
  boot,        \* what the container does
  todo,        \* faulted entries still to reconcile
  entry,       \* the entry at hand
  meta,        \* vfsMeta: "none", "clean", "whole" (dirty), "hollow" (dirty, size 0)
  data,        \* vfs: the content, or Gone
  print,       \* the metadata's fingerprint: the cloud's content it comes from
  cloud,       \* the cloud object
  aside,       \* contents under quarantine/
  index,       \* the probe's listing of the cloud
  depth,       \* the prefix depth the probe latched
  version,     \* contents so far
  faults,
  unsent,      \* ghost: the task's last content, until it is in the cloud
  stranded,    \* ghost: files whose data could not be moved, its metadata could
  trusted,     \* ghost: files repaired against a listing that was right and has
               \* stayed so
  blind        \* ghost: a boot left something it could not read or write

reconcileVars == <<boot, todo, entry, meta, data, print, cloud, aside, index,
                   depth, version, faults, unsent, stranded, trusted, blind>>

-----------------------------------------------------------------------------
Gone    == 0
Spoiled == MaxVersions + 1     \* a torn or empty object
Alien   == MaxVersions + 2     \* an object that is not the file's
Unknown == MaxVersions + 3     \* what a listing that failed says of a file
NoIndex     == [f \in Files |-> Unknown + 1]
FailedIndex == [f \in Files |-> Unknown]
NoFile  == "nofile"
Contents == 0..MaxVersions + 1

ReconcileTypeOK ==
  /\ boot \in {"down", "scanning", "reconciling", "moving", "serving"}
  /\ todo \in SUBSET Files /\ entry \in Files \cup {NoFile}
  /\ meta \in [Files -> {"none", "clean", "whole", "hollow"}]
  /\ data \in [Files -> Contents] /\ print \in [Files -> Contents]
  /\ cloud \in [Files -> Contents]
  /\ aside \in [Files -> SUBSET Contents]
  /\ index \in [Files -> Contents] \cup {NoIndex, FailedIndex}
  /\ depth \in {"unknown", "right", "wrong"}
  /\ version \in 0..MaxVersions /\ faults \in 0..MaxFaults
  /\ unsent \in [Files -> Contents]
  /\ stranded \in SUBSET Files /\ trusted \in SUBSET Files
  /\ blind \in BOOLEAN

ReconcileInit ==
  /\ boot = "serving" /\ todo = {} /\ entry = NoFile
  /\ meta = [f \in Files |-> "none"]
  /\ data = [f \in Files |-> Gone] /\ print = [f \in Files |-> Gone]
  /\ cloud = [f \in Files |-> Gone] /\ aside = [f \in Files |-> {}]
  /\ index = NoIndex /\ depth = "unknown"
  /\ version = 0 /\ faults = 0
  /\ unsent = [f \in Files |-> Gone]
  /\ stranded = {} /\ trusted = {} /\ blind = FALSE

Fails == faults < MaxFaults /\ faults' = faults + 1
Put(fn, f, v) == [fn EXCEPT ![f] = v]
Dirty(f) == meta[f] \in {"whole", "hollow"}

-----------------------------------------------------------------------------
(* rclone and the cloud (external)                                         *)

\* A task writes a file; the entry is derived from the cloud's object, if any.
WriteFile(f) ==
  /\ boot = "serving" /\ version < MaxVersions
  /\ version' = version + 1
  /\ data' = Put(data, f, version') /\ unsent' = Put(unsent, f, version')
  /\ meta' = Put(meta, f, "whole")
  /\ print' = IF meta[f] = "none" THEN Put(print, f, cloud[f]) ELSE print
  /\ trusted' = trusted \ {f} /\ stranded' = stranded \ {f}
  /\ UNCHANGED <<boot, todo, entry, cloud, aside, index, depth, faults, blind>>

\* The write-back.  What is hollow or has no data comes out wrong.
Upload(f) ==
  /\ boot = "serving" /\ Dirty(f)
  /\ LET out == IF meta[f] = "whole" /\ data[f] # Gone THEN data[f] ELSE Spoiled IN
       /\ cloud' = Put(cloud, f, out)
       /\ print' = Put(print, f, out)
  /\ meta' = Put(meta, f, "clean")
  /\ unsent' = Put(unsent, f, Gone)
  /\ trusted' = trusted \ {f}
  /\ UNCHANGED <<boot, todo, entry, data, aside, index, depth, version, faults,
                 stranded, blind>>

\* A second writer replaces or deletes the object.
CloudEdit(f) ==
  /\ version < MaxVersions /\ version' = version + 1
  /\ \E v \in {version', Gone} : cloud[f] # v /\ cloud' = Put(cloud, f, v)
  /\ trusted' = trusted \ {f}
  /\ UNCHANGED <<boot, todo, entry, meta, data, print, aside, index, depth,
                 faults, unsent, stranded, blind>>

\* The container dies, serving or booting.  A file that was being written may
\* lose its data or the truth of its metadata.
CrashGateway ==
  /\ boot # "down" /\ Fails
  /\ boot' = "down" /\ todo' = {} /\ entry' = NoFile
  /\ index' = NoIndex /\ depth' = "unknown"
  /\ \/ UNCHANGED <<meta, data, unsent>>
     \/ \E f \in Files :
          /\ boot = "serving" /\ meta[f] = "whole"
          /\ meta' = Put(meta, f, "hollow")
          /\ \/ UNCHANGED <<data, unsent>>
             \/ data' = Put(data, f, Gone) /\ unsent' = Put(unsent, f, Gone)
  /\ UNCHANGED <<print, cloud, aside, version, stranded, trusted, blind>>

-----------------------------------------------------------------------------
(* cache_reconcile.py                                                      *)

StartGateway ==
  /\ boot = "down" /\ boot' = "scanning"
  /\ UNCHANGED <<todo, entry, meta, data, print, cloud, aside, index, depth,
                 version, faults, unsent, stranded, trusted, blind>>

Orphaned(f) == Dirty(f) /\ data[f] = Gone
\* Wrong: a file with a fingerprint is taken for a resumable upload.
InconsistentIfNew(f) == meta[f] = "hollow" /\ data[f] # Gone /\ print[f] = Gone
Inconsistent(f) == meta[f] = "hollow" /\ data[f] # Gone

\* The whole cache is read before anything is touched.  A directory it cannot
\* list ends the reconciliation, an entry it cannot stat is left alone; the
\* gateway serves all the same.
ScanCache ==
  /\ boot = "scanning"
  /\ LET found == {f \in Files : Orphaned(f) \/ Inconsistent(f)} IN
       \/ boot' = "reconciling" /\ todo' = found /\ UNCHANGED <<faults, blind>>
       \/ boot' = "serving" /\ Fails /\ blind' = TRUE /\ UNCHANGED todo
       \/ \E f \in found : /\ boot' = "reconciling" /\ todo' = found \ {f}
                           /\ Fails /\ blind' = TRUE
  /\ UNCHANGED <<entry, meta, data, print, cloud, aside, index, depth, version,
                 unsent, stranded, trusted>>

\* _clear_orphan; metadata that cannot be removed stays.
ClearOrphan(f) ==
  /\ boot = "reconciling" /\ f \in todo /\ Orphaned(f)
  /\ todo' = todo \ {f}
  /\ \/ /\ meta' = Put(meta, f, "none") /\ print' = Put(print, f, Gone)
        /\ UNCHANGED <<faults, blind>>
     \/ Fails /\ blind' = TRUE /\ UNCHANGED <<meta, print>>
  /\ UNCHANGED <<boot, entry, data, cloud, aside, index, depth, version, unsent,
                 stranded, trusted>>

\* _load_index: the serve root is listed once, when first needed.
LoadIndex ==
  /\ boot = "reconciling" /\ index = NoIndex
  /\ \E f \in todo : Inconsistent(f)
  /\ \/ index' = cloud /\ UNCHANGED faults
     \/ index' = FailedIndex /\ Fails
  /\ UNCHANGED <<boot, todo, entry, meta, data, print, cloud, aside, depth,
                 version, unsent, stranded, trusted, blind>>

\* lookup: until a depth is latched the longest suffix that names an object
\* decides, be it a namesake of an absent one; a depth latched wrong finds only
\* namesakes.
Found(f) ==
  CASE index = FailedIndex \/ depth = "right" -> index[f]
    [] index # FailedIndex /\ depth = "wrong" -> IF f \in Namesakes THEN Alien ELSE Gone
    [] index # FailedIndex /\ depth = "unknown" ->
         IF index[f] = Gone /\ f \in Namesakes THEN Alien ELSE index[f]

Latched(f) == IF depth = "unknown" /\ Found(f) \notin {Unknown, Gone}
                THEN IF Found(f) = Alien THEN "wrong" ELSE "right"
                ELSE depth

\* Wrong: what cannot be looked up is repaired too.
RepairsUnlessMoved(f) == Found(f) \in {Unknown, print[f]}
\* The object is the one of the fingerprint, or there never was one.
Repairs(f) == Found(f) = print[f]

\* repair_metadata, by a rename; when it fails nothing else is reconciled.
RepairEntry(f) ==
  /\ boot = "reconciling" /\ f \in todo /\ Inconsistent(f) /\ index # NoIndex
  /\ Repairs(f)
  /\ depth' = Latched(f)
  /\ \/ /\ meta' = Put(meta, f, "whole")
        /\ trusted' = IF depth' # "wrong" /\ index[f] \in {cloud[f], Unknown}
                        THEN trusted \cup {f} ELSE trusted
        /\ todo' = todo \ {f}
        /\ UNCHANGED <<boot, faults, blind>>
     \/ /\ boot' = "serving" /\ Fails /\ blind' = TRUE
        /\ todo' = {} /\ UNCHANGED <<meta, trusted>>
  /\ UNCHANGED <<entry, data, print, cloud, aside, index, version, unsent,
                 stranded>>

\* Wrong: the metadata is moved first.
MovesMeta(_f) == FALSE
\* quarantine_entry: the data is moved first.
MovesData(_f) == TRUE

MoveFirst(f) ==
  /\ boot = "reconciling" /\ f \in todo /\ Inconsistent(f) /\ index # NoIndex
  /\ ~Repairs(f)
  /\ depth' = Latched(f)
  /\ boot' = "moving" /\ entry' = f
  /\ \/ /\ IF MovesData(f)
             THEN /\ aside' = [aside EXCEPT ![f] = @ \cup {data[f]}]
                  /\ data' = Put(data, f, Gone) /\ UNCHANGED meta
             ELSE meta' = Put(meta, f, "none") /\ UNCHANGED <<aside, data>>
        /\ UNCHANGED <<faults, stranded>>
     \/ Fails /\ stranded' = stranded \cup {f} /\ UNCHANGED <<aside, data, meta>>
  /\ UNCHANGED <<todo, print, cloud, index, version, unsent, trusted, blind>>

\* The other of the two follows even when the first failed.
MoveSecond ==
  /\ boot = "moving"
  /\ boot' = "reconciling" /\ todo' = todo \ {entry} /\ entry' = NoFile
  /\ \/ /\ meta' = Put(meta, entry, "none") /\ print' = Put(print, entry, Gone)
        /\ IF meta[entry] = "none" /\ data[entry] # Gone
             THEN /\ aside' = [aside EXCEPT ![entry] = @ \cup {data[entry]}]
                  /\ data' = Put(data, entry, Gone)
             ELSE UNCHANGED <<aside, data>>
        /\ UNCHANGED <<faults, blind>>
     \/ Fails /\ blind' = TRUE /\ UNCHANGED <<meta, print, aside, data>>
  /\ UNCHANGED <<cloud, index, depth, version, unsent, stranded, trusted>>

\* rclone serve removes data that has no metadata.
Serve ==
  /\ boot = "reconciling" /\ todo = {}
  /\ boot' = "serving"
  /\ index' = NoIndex /\ depth' = "unknown"
  /\ data' = [f \in Files |-> IF meta[f] = "none" THEN Gone ELSE data[f]]
  /\ UNCHANGED <<todo, entry, meta, print, cloud, aside, version, faults, unsent,
                 stranded, trusted, blind>>

ReconcileNext ==
  \/ \E f \in Files : \/ WriteFile(f) \/ Upload(f) \/ CloudEdit(f)
                      \/ ClearOrphan(f) \/ RepairEntry(f) \/ MoveFirst(f)
  \/ CrashGateway \/ StartGateway \/ ScanCache \/ LoadIndex \/ MoveSecond \/ Serve

ReconcileSpec == ReconcileInit /\ [][ReconcileNext]_reconcileVars

-----------------------------------------------------------------------------
(* Properties                                                              *)

\* Wherever the reconciliation crashes, a task's completed write that is not in
\* the cloud is in the cache or in quarantine.  Not covered: a file whose data
\* could not be moved, its metadata goes all the same and rclone drops the data.
WorkKept ==
  \A f \in Files \ stranded :
    unsent[f] # Gone => data[f] = unsent[f] \/ unsent[f] \in aside[f]

\* Unless a boot could not read or write the cache, nothing half written is
\* ever published.
NothingSpoiled == blind \/ \A f \in Files : cloud[f] # Spoiled

\* The upload that a repair allows replaces the object the file was derived
\* from or none at all; not if the listing was wrong or has become so.
RepairKeepsCloud ==
  \A f \in trusted : boot = "serving" /\ meta[f] = "whole" => cloud[f] = print[f]

\* A boot of the gateway is safe for the work in its cache and for the cloud,
\* wherever it crashes and whatever of it fails.
BootIsSafe == WorkKept /\ NothingSpoiled /\ RepairKeepsCloud
=============================================================================
