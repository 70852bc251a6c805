--------------------------- MODULE MCRetryTracker ---------------------------
(* Model-checking instance of RetryTracker: values come from the .cfg.      *)
EXTENDS RetryTracker
=============================================================================
