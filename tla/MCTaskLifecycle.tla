--------------------------- MODULE MCTaskLifecycle ---------------------------
(***************************************************************************)
(* Small instances of TaskLifecycle for TLC.                               *)
(***************************************************************************)
EXTENDS TaskRefinement, TLC

\* Replicas and coroutine slots are interchangeable; rows are not, since some
\* repeat.
Interchangeable == Permutations(Servers) \cup Permutations(Runners)
=============================================================================
