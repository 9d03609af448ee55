-------------------------- MODULE MCResultProducer --------------------------
(* The instance of ResultProducer that the run checks, without symmetry as  *)
(* it checks liveness.                                                       *)
EXTENDS ResultProducer
=============================================================================
