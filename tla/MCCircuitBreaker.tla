-------------------------- MODULE MCCircuitBreaker --------------------------
(* The instance of CircuitBreaker that the run checks.                       *)
EXTENDS CircuitBreaker

\* The calls of one half-open period can close the circuit, as with the values
\* of config/settings.py.  Liveness rests on it.
ASSUME ThresholdWithinReach == SuccessThreshold <= HalfOpenMaxCalls
=============================================================================
