----------------------------- MODULE MCMailbox -----------------------------
(* Model-checking instances of Mailbox; the values are in the .cfg files.  *)
EXTENDS Mailbox
=============================================================================
