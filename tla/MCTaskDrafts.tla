---------------------------- MODULE MCTaskDrafts ----------------------------
(***************************************************************************)
(* Small instances of TaskDrafts for TLC.                                  *)
(***************************************************************************)
EXTENDS TaskDrafts, TLC
=============================================================================
