--------------------------- MODULE MCTaskPipeline ---------------------------
(* Symmetry for the safety run of TaskPipeline. *)
EXTENDS TaskPipeline, TLC

Symmetry == Permutations(Workers)
=============================================================================
