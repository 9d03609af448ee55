---------------------------- MODULE MCPoolManager ----------------------------
(* The instances of PoolManager that the runs check.  Connections are not     *)
(* symmetric (one may be unknown), callers are in the runs without liveness.  *)
EXTENDS PoolManager, TLC

CallerSymmetry == Permutations(Caller)
=============================================================================
