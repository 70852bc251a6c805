------------------------------- MODULE MCInbox -------------------------------
(* Model-checking instance of Inbox: values come from the .cfg.  Rows are   *)
(* ordered by id, and WalkEnds is a liveness property: no symmetry.         *)
EXTENDS Inbox
=============================================================================
