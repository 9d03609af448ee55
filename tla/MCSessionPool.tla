--------------------------- MODULE MCSessionPool ---------------------------
(* Model values, symmetry for the runs of SessionPool. *)
EXTENDS SessionPool, TLC

Symmetry == Permutations(Callers) \cup Permutations(Sessions)
=============================================================================
