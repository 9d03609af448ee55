----------------------------- MODULE MCLifecycle -----------------------------
(* The instance of Lifecycle that the run checks: a start that is retried    *)
(* is told from one that is given up.                                         *)
EXTENDS Lifecycle
=============================================================================
