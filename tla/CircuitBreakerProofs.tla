------------------------ MODULE CircuitBreakerProofs ------------------------
(***************************************************************************)
(* The safety of CircuitBreaker for any thresholds and any number of       *)
(* overlapping calls.  The bound on the half-open calls is not inductive:  *)
(* ProbesCounted adds how the calls let through relate to the counter the  *)
(* code keeps, which starts one call late.                                 *)
(***************************************************************************)
EXTENDS CircuitBreaker, FiniteSetTheorems, TLAPS

\* _half_open_calls counts every call let through but the first.
ProbesCounted ==
  state = "half_open" =>
    /\ probes <= halfOpenCalls + 1
    /\ probes <= HalfOpenMaxCalls

IInv ==
  /\ TypeOK
  /\ ClosedBelowThreshold
  /\ OpenHasFailure
  /\ FreshSuccessCount
  /\ ProbesCounted

\* Each method of the breaker preserves the invariant.
LEMMA InvStep ==
  ASSUME IInv, [Next]_vars
  PROVE  IInv'
PROOF
  <1> USE ThresholdsAssumption
      DEF IInv, TypeOK, ClosedBelowThreshold, OpenHasFailure, FreshSuccessCount,
          ProbesCounted, CircuitState, Age, CallState, history, CountUpTo
  <1>1. ASSUME NEW c \in Calls, AdmitClosed(c) PROVE IInv'
    BY <1>1 DEF AdmitClosed
  <1>2. ASSUME NEW c \in Calls, AdmitReset(c) PROVE IInv'
    BY <1>2 DEF AdmitReset
  <1>3. ASSUME NEW c \in Calls, AdmitProbe(c) PROVE IInv'
    BY <1>3 DEF AdmitProbe, CallsNow
  <1>4. ASSUME NEW c \in Calls, Reject(c) PROVE IInv'
    BY <1>4 DEF Reject, CallsNow
  <1>5. ASSUME NEW c \in Calls, SuccessWhileHalfOpen(c) PROVE IInv'
    <2>1. CASE successes + 1 >= SuccessThreshold
      <3>1. /\ state' = "closed" /\ failures' = 0 /\ successes' = 0
            /\ call' = [call EXCEPT ![c] = "idle"]
            /\ answers' \in Nat
            /\ UNCHANGED << halfOpenCalls, lastFailure, probes, cancels >>
        BY <1>5, <2>1 DEF SuccessWhileHalfOpen
      <3> QED BY <3>1
    <2>2. CASE ~(successes + 1 >= SuccessThreshold)
      <3>1. /\ successes' = successes + 1 /\ answers' = answers + 1
            /\ call' = [call EXCEPT ![c] = "idle"]
            /\ UNCHANGED << state, failures, halfOpenCalls, lastFailure, probes, cancels >>
        BY <1>5, <2>2 DEF SuccessWhileHalfOpen
      <3> QED BY <2>2, <3>1
    <2> QED BY <2>1, <2>2
  <1>6. ASSUME NEW c \in Calls, SuccessOtherwise(c) PROVE IInv'
    BY <1>6 DEF SuccessOtherwise
  <1>7. ASSUME NEW c \in Calls, Failure(c) PROVE IInv'
    <2>1. failures' \in 0..FailureThreshold /\ lastFailure' = "recent"
      BY <1>7 DEF Failure
    <2>2. CASE state = "half_open" \/ failures' >= FailureThreshold
      <3>1. /\ state' = "open"
            /\ call' = [call EXCEPT ![c] = "idle"]
            /\ UNCHANGED << successes, halfOpenCalls, probes, answers, cancels >>
        BY <1>7, <2>2 DEF Failure
      <3> QED BY <2>1, <3>1
    <2>3. CASE ~(state = "half_open" \/ failures' >= FailureThreshold)
      <3>1. /\ call' = [call EXCEPT ![c] = "idle"]
            /\ UNCHANGED << state, successes, halfOpenCalls, probes, answers, cancels >>
        BY <1>7, <2>3 DEF Failure
      <3> QED BY <2>1, <2>3, <3>1
    <2> QED BY <2>2, <2>3
  <1>8. ASSUME NEW c \in Calls, Cancel(c) PROVE IInv'
    BY <1>8 DEF Cancel
  <1>9. CASE TimeoutElapses
    BY <1>9 DEF TimeoutElapses
  <1>10. CASE UNCHANGED vars
    BY <1>10 DEF vars
  <1>11. QED
    BY <1>1, <1>2, <1>3, <1>4, <1>5, <1>6, <1>7, <1>8, <1>9, <1>10
       DEF Next, Ask, Report, Success

\* The invariant holds in every reachable state, for all thresholds >= 1.
THEOREM InvCorrect == Spec => []IInv
<1>1. Init => IInv
  BY ThresholdsAssumption
     DEF Init, IInv, TypeOK, ClosedBelowThreshold, OpenHasFailure,
         FreshSuccessCount, ProbesCounted, CircuitState, Age, CallState
<1>2. IInv /\ [Next]_vars => IInv'
  BY InvStep
<1>3. QED
  BY <1>1, <1>2, PTL DEF Spec

\* record_success and record_failure keep a closed circuit below its threshold.
THEOREM ClosedCorrect == Spec => []ClosedBelowThreshold
<1>1. IInv => ClosedBelowThreshold
  BY DEF IInv
<1>2. QED
  BY <1>1, InvCorrect, PTL

\* The types of the breaker: its counters stay within the thresholds.
THEOREM TypeCorrect == Spec => []TypeOK
<1>1. IInv => TypeOK
  BY DEF IInv
<1>2. QED
  BY <1>1, InvCorrect, PTL

\* No more than half_open_max_calls calls are let through in one half-open
\* period, although the call that begins it is not counted.
THEOREM HalfOpenCorrect == Spec => []HalfOpenBounded
<1>1. IInv => HalfOpenBounded
  BY DEF IInv, ProbesCounted, HalfOpenBounded
<1>2. QED
  BY <1>1, InvCorrect, PTL

\* The success count that closes a circuit is that of the present half-open
\* period.
THEOREM SuccessCountCorrect == Spec => []FreshSuccessCount
<1>1. IInv => FreshSuccessCount
  BY DEF IInv
<1>2. QED
  BY <1>1, InvCorrect, PTL

\* An open circuit always has the time of a failure to wait from.
THEOREM OpenCorrect == Spec => []OpenHasFailure
<1>1. IInv => OpenHasFailure
  BY DEF IInv
<1>2. QED
  BY <1>1, InvCorrect, PTL

-----------------------------------------------------------------------------
(* Why a half-open circuit can be left                                      *)

RunningCalls == {c \in Calls : call[c] = "running"}

\* In the half-open state every call let through still runs, has been answered
\* or was cancelled (late answers may only add to that), and calls are only
\* turned away once as many as allowed were let through.
ProbesAnswered ==
  state = "half_open" =>
    /\ probes <= answers + cancels + Cardinality(RunningCalls)
    /\ halfOpenCalls + 1 < HalfOpenMaxCalls => probes = halfOpenCalls + 1
    /\ halfOpenCalls + 1 >= HalfOpenMaxCalls => probes = HalfOpenMaxCalls

\* A call that starts is one more running, a call that ends one less.
LEMMA CallStarts ==
  ASSUME TypeOK, NEW c \in Calls, call[c] = "idle",
         call' = [call EXCEPT ![c] = "running"]
  PROVE  Cardinality(RunningCalls') = Cardinality(RunningCalls) + 1
<1>1. RunningCalls' = RunningCalls \cup {c} /\ c \notin RunningCalls
  BY DEF RunningCalls, TypeOK, CallState
<1>2. IsFiniteSet(RunningCalls)
  BY CallsAssumption, FS_Subset DEF RunningCalls
<1> QED
  BY <1>1, <1>2, FS_AddElement

LEMMA CallEnds ==
  ASSUME TypeOK, NEW c \in Calls, call[c] # "idle", call' = [call EXCEPT ![c] = "idle"]
  PROVE  Cardinality(RunningCalls') = Cardinality(RunningCalls) - 1
<1>1. RunningCalls' = RunningCalls \ {c} /\ c \in RunningCalls
  BY DEF RunningCalls, TypeOK, CallState
<1>2. IsFiniteSet(RunningCalls)
  BY CallsAssumption, FS_Subset DEF RunningCalls
<1> QED
  BY <1>1, <1>2, FS_RemoveElement

LEMMA AnsweredStep ==
  ASSUME IInv, ProbesAnswered, [Next]_vars
  PROVE  ProbesAnswered'
PROOF
  <1>0. Cardinality(RunningCalls) \in Nat /\ Cardinality(RunningCalls)' \in Nat
    <2>1. IsFiniteSet(RunningCalls) /\ IsFiniteSet(RunningCalls')
      BY CallsAssumption, FS_Subset DEF RunningCalls
    <2> QED
      BY <2>1, FS_CardinalityType
  <1>i. TypeOK
    BY DEF IInv
  <1> USE ThresholdsAssumption DEF TypeOK, ProbesAnswered, history, CountUpTo, CallsNow
  <1>1. ASSUME NEW c \in Calls, AdmitClosed(c) PROVE ProbesAnswered'
    BY <1>1 DEF AdmitClosed
  <1>2. ASSUME NEW c \in Calls, AdmitReset(c) PROVE ProbesAnswered'
    <2>1. Cardinality(RunningCalls)' = Cardinality(RunningCalls) + 1
      BY <1>2, <1>i, CallStarts DEF AdmitReset
    <2> QED
      BY <1>2, <1>0, <1>i, <2>1 DEF AdmitReset
  <1>3. ASSUME NEW c \in Calls, AdmitProbe(c) PROVE ProbesAnswered'
    <2>1. Cardinality(RunningCalls)' = Cardinality(RunningCalls) + 1
      BY <1>3, <1>i, CallStarts DEF AdmitProbe
    <2> QED
      BY <1>3, <1>0, <1>i, <2>1 DEF AdmitProbe
  <1>4. ASSUME NEW c \in Calls, Reject(c) PROVE ProbesAnswered'
    <2>1. RunningCalls' = RunningCalls
      BY <1>4 DEF Reject, RunningCalls
    <2> QED
      BY <1>4, <1>0, <1>i, <2>1 DEF Reject
  <1>5. ASSUME NEW c \in Calls, SuccessWhileHalfOpen(c) PROVE ProbesAnswered'
    <2>1. Cardinality(RunningCalls)' = Cardinality(RunningCalls) - 1
      BY <1>5, <1>i, CallEnds DEF SuccessWhileHalfOpen
    <2> QED
      BY <1>5, <1>0, <1>i, <2>1 DEF SuccessWhileHalfOpen
  <1>6. ASSUME NEW c \in Calls, SuccessOtherwise(c) PROVE ProbesAnswered'
    BY <1>6 DEF SuccessOtherwise
  <1>7. ASSUME NEW c \in Calls, Failure(c) PROVE ProbesAnswered'
    BY <1>7 DEF Failure
  <1>8. ASSUME NEW c \in Calls, Cancel(c) PROVE ProbesAnswered'
    <2>1. Cardinality(RunningCalls)' = Cardinality(RunningCalls) - 1
      BY <1>8, <1>i, CallEnds DEF Cancel
    <2> QED
      BY <1>8, <1>0, <1>i, <2>1 DEF Cancel
  <1>9. CASE TimeoutElapses \/ UNCHANGED vars
    <2>1. RunningCalls' = RunningCalls
      BY <1>9 DEF TimeoutElapses, RunningCalls, vars
    <2> QED
      BY <1>9, <1>0, <1>i, <2>1 DEF TimeoutElapses, vars
  <1>10. QED
    BY <1>1, <1>2, <1>3, <1>4, <1>5, <1>6, <1>7, <1>8, <1>9
       DEF Next, Ask, Report, Success

\* Nothing but a cancelled call keeps a half-open circuit from its decision, for
\* all thresholds: what is behind the liveness that the run checks.
THEOREM DecisionCorrect == Spec => []OnlyCancelsBlock
<1>1. Init => ProbesAnswered
  BY DEF Init, ProbesAnswered
<1>2. IInv /\ ProbesAnswered /\ [Next]_vars => ProbesAnswered'
  BY AnsweredStep
<1>3. IInv /\ ProbesAnswered => OnlyCancelsBlock
  <2> SUFFICES ASSUME IInv, ProbesAnswered, SuccessThreshold <= HalfOpenMaxCalls,
                      state = "half_open", ~(CallsNow < HalfOpenMaxCalls),
                      \A c \in Calls : call[c] = "idle"
               PROVE  cancels > 0
    BY DEF OnlyCancelsBlock
  <2>1. Cardinality(RunningCalls) = 0
    <3>1. RunningCalls = {}
      BY DEF RunningCalls
    <3> QED
      BY <3>1, FS_EmptySet
  <2>2. probes = HalfOpenMaxCalls /\ probes <= answers + cancels
    BY <2>1, ThresholdsAssumption
       DEF IInv, TypeOK, ProbesAnswered, CallsNow, CountUpTo
  <2>3. answers = successes /\ successes < SuccessThreshold
    BY ThresholdsAssumption DEF IInv, TypeOK, FreshSuccessCount
  <2> QED
    BY <2>2, <2>3, ThresholdsAssumption DEF IInv, TypeOK
<1>4. QED
  BY <1>1, <1>2, <1>3, InvCorrect, PTL DEF Spec

\* The states of the circuit hold good in every reachable state.
THEOREM StatesCorrect == Spec => []StatesHoldGood
<1>1. /\ ClosedBelowThreshold /\ HalfOpenBounded /\ FreshSuccessCount /\ OpenHasFailure
      /\ OnlyCancelsBlock
      => StatesHoldGood
  BY DEF StatesHoldGood
<1>2. QED
  BY <1>1, ClosedCorrect, HalfOpenCorrect, SuccessCountCorrect, OpenCorrect,
     DecisionCorrect, PTL
=============================================================================
