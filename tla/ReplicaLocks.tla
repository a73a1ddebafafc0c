----------------------------- MODULE ReplicaLocks -----------------------------
(***************************************************************************)
(* The two locks in Valkey that keep replicas from running the scheduler's *)
(* or the zombie cleanup's pass at once: a key that holds the replica's    *)
(* name and expires.  A lock is taken by SET NX, or kept by its holder     *)
(* with a GET and a later EXPIRE; the scheduler's release checks the       *)
(* holder, the cleanup's does not.  A behaviour is about one of the two.   *)
(***************************************************************************)
EXTENDS Naturals

CONSTANTS
  Replicas,
  Nothing       \* the key does not exist

ASSUME LocksAssumption == Nothing \notin Replicas

VARIABLES
  lock,     \* which lock: "scheduler" or "zombie"
  key,      \* the key's value
  lp,       \* where each replica's loop is
  lease,    \* ghost: replicas whose lock has not expired since they took it
  slipped   \* ghost: replicas that kept a lock they no longer had, or lost one
            \* to somebody else's release

lockVars == <<lock, key, lp, lease, slipped>>

-----------------------------------------------------------------------------
LocksTypeOK ==
  /\ lock \in {"scheduler", "zombie"}
  /\ key \in Replicas \cup {Nothing}
  /\ lp \in [Replicas -> {"asleep", "refused", "mine", "working", "releasing",
                          "closing", "stopped"}]
  /\ lease \in SUBSET Replicas
  /\ slipped \in SUBSET Replicas

LocksInit ==
  /\ lock \in {"scheduler", "zombie"}
  /\ key = Nothing
  /\ lp = [r \in Replicas |-> "asleep"]
  /\ lease = {} /\ slipped = {}

Move(r, s) == lp' = [lp EXCEPT ![r] = s]

\* SET NX EX.
TrySet(r) ==
  /\ lp[r] = "asleep"
  /\ IF key = Nothing
       THEN /\ key' = r /\ Move(r, "working")
            /\ lease' = lease \cup {r} /\ slipped' = slipped \ {r}
       ELSE Move(r, "refused") /\ UNCHANGED <<key, lease, slipped>>
  /\ UNCHANGED lock

\* GET: another one's lock ends the cycle.
ReadHolder(r) ==
  /\ lp[r] = "refused"
  /\ Move(r, IF key = r THEN "mine" ELSE "asleep")
  /\ UNCHANGED <<lock, key, lease, slipped>>

\* EXPIRE, whoever holds the key by now.
KeepLock(r) ==
  /\ lp[r] = "mine"
  /\ Move(r, "working")
  /\ lease' = lease \cup {r}
  /\ slipped' = IF key = r THEN slipped ELSE slipped \cup {r}
  /\ UNCHANGED <<lock, key>>

\* The pass ends, or fails, with an EXPIRE that changes no holder.
EndPass(r) ==
  /\ lp[r] = "working"
  /\ Move(r, "asleep")
  /\ UNCHANGED <<lock, key, lease, slipped>>

\* The server stops: a loop cancelled in its sleep releases, any other does not.
StopLoop(r) ==
  /\ lp[r] \in {"asleep", "refused", "mine", "working"}
  /\ Move(r, IF lp[r] = "asleep" THEN "releasing" ELSE "closing")
  /\ lease' = lease \ {r}
  /\ UNCHANGED <<lock, key, slipped>>

\* Wrong: both locks are released as the cleanup's is.
DeletesAny(r) == TRUE
\* The Lua script compares before it deletes; release_zombie_lock does not.
Deletes(r) == key = r \/ lock = "zombie"

\* The loop's release, and the one of the server's shutdown that follows always.
Release(r) ==
  /\ lp[r] \in {"releasing", "closing"}
  /\ Move(r, IF lp[r] = "releasing" THEN "closing" ELSE "stopped")
  /\ key' = IF Deletes(r) THEN Nothing ELSE key
  /\ slipped' = IF lock = "zombie" THEN slipped \cup ({key} \ {Nothing}) ELSE slipped
  /\ UNCHANGED <<lock, lease>>

\* The process dies and releases nothing.
CrashReplica(r) ==
  /\ lp[r] # "stopped"
  /\ Move(r, "stopped")
  /\ lease' = lease \ {r}
  /\ UNCHANGED <<lock, key, slipped>>

StartReplica(r) ==
  /\ lp[r] = "stopped"
  /\ Move(r, "asleep")
  /\ UNCHANGED <<lock, key, lease, slipped>>

\* LOCK_TTL: between two cycles of the cleanup always, of the scheduler when it
\* is late, in a pass when it is long.
Expire ==
  /\ key # Nothing
  /\ key' = Nothing
  /\ lease' = lease \ {key}
  /\ UNCHANGED <<lock, lp, slipped>>

LocksNext ==
  \/ \E r \in Replicas :
       \/ TrySet(r) \/ ReadHolder(r) \/ KeepLock(r) \/ EndPass(r)
       \/ StopLoop(r) \/ Release(r) \/ CrashReplica(r) \/ StartReplica(r)
  \/ Expire

LocksSpec == LocksInit /\ [][LocksNext]_lockVars

-----------------------------------------------------------------------------
(* Properties                                                              *)

Leased(r) == r \in lease \ slipped /\ lp[r] = "working"

\* While a replica's lock lasts nobody else works under one: no release and no
\* refresh of another replica takes it.  Not covered: one that read its name in
\* a key that expired before it refreshed it, and for the cleanup a replica
\* whose key another one's release deleted.
OneLease == \A r, q \in Replicas : Leased(r) /\ Leased(q) => r = q

\* A held lease is the key's: what makes OneLease inductive.
LeaseIsKey == \A r \in lease \ slipped : key = r
=============================================================================
