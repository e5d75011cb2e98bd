----------------------------- MODULE MCTaskLoop -----------------------------
(* Model-checking instances of TaskLoop; the values are in the .cfg files. *)
EXTENDS TaskLoop
=============================================================================
