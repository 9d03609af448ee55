--------------------------- MODULE CircuitBreaker ---------------------------
(***************************************************************************)
(* One CircuitBreaker (pool/circuit_breaker.py) and the calls it guards.   *)
(* Its methods take an asyncio.Lock but never suspend while they hold it,  *)
(* so each method is one step.  The calls overlap: a call may report long  *)
(* after the state it was admitted in is gone, or be cancelled and never   *)
(* report.  Callers ask before_call, which counts the call and then asks   *)
(* can_execute.                                                            *)
(*                                                                         *)
(* failure_count and half_open_calls are only ever compared with their     *)
(* thresholds, so here they stop counting there.                           *)
(***************************************************************************)
EXTENDS Naturals, FiniteSets

CONSTANTS
  Calls,             \* coroutines that make guarded calls
  FailureThreshold,  \* CircuitBreakerSettings.failure_threshold
  SuccessThreshold,  \* CircuitBreakerSettings.success_threshold
  HalfOpenMaxCalls   \* CircuitBreakerSettings.half_open_max_calls

\* config/settings.py: each threshold is Field(ge=1).
ASSUME ThresholdsAssumption ==
  /\ FailureThreshold \in Nat \ {0}
  /\ SuccessThreshold \in Nat \ {0}
  /\ HalfOpenMaxCalls \in Nat \ {0}

ASSUME CallsAssumption == IsFiniteSet(Calls)

VARIABLES
  state,          \* CircuitBreaker._state
  failures,       \* _failure_count, up to FailureThreshold
  successes,      \* _success_count
  halfOpenCalls,  \* _half_open_calls, up to HalfOpenMaxCalls
  lastFailure,    \* age of _last_failure_time against timeout_seconds
  call,           \* what each coroutine is doing, and since when
  probes,         \* history: calls admitted since the circuit became half-open
  answers,        \* history: successes recorded since then
  cancels         \* history: calls cancelled since then

vars == << state, failures, successes, halfOpenCalls, lastFailure, call,
           probes, answers, cancels >>
history == << probes, answers, cancels >>

CircuitState == {"closed", "open", "half_open"}
Age          == {"none", "recent", "expired"}
CallState    == {"idle", "running"}

TypeOK ==
  /\ state \in CircuitState
  /\ failures \in 0..FailureThreshold
  /\ successes \in 0..(SuccessThreshold - 1)
  /\ halfOpenCalls \in 0..HalfOpenMaxCalls
  /\ lastFailure \in Age
  /\ call \in [Calls -> CallState]
  /\ probes \in Nat /\ answers \in Nat /\ cancels \in Nat

Init ==
  /\ state = "closed"
  /\ failures = 0
  /\ successes = 0
  /\ halfOpenCalls = 0
  /\ lastFailure = "none"
  /\ call = [c \in Calls |-> "idle"]
  /\ probes = 0 /\ answers = 0 /\ cancels = 0

CountUpTo(n, cap) == IF n < cap THEN n + 1 ELSE n

-----------------------------------------------------------------------------
(* before_call                                                              *)

AdmitClosed(c) ==
  /\ call[c] = "idle"
  /\ state = "closed"
  /\ call' = [call EXCEPT ![c] = "running"]
  /\ UNCHANGED << state, failures, successes, halfOpenCalls, lastFailure, history >>

\* _should_attempt_reset: no failure on record, or the last one is too old.
ShouldAttemptReset == lastFailure # "recent"

\* Mutant: the counters of the previous half-open period are kept.
AdmitResetKeepsSuccesses(c) ==
  /\ call[c] = "idle"
  /\ state = "open"
  /\ ShouldAttemptReset
  /\ state' = "half_open"
  /\ halfOpenCalls' = 0
  /\ call' = [call EXCEPT ![c] = "running"]
  /\ probes' = 1 /\ answers' = 0 /\ cancels' = 0
  /\ UNCHANGED << failures, successes, lastFailure >>

\* Mutant: the first call of the half-open period is counted as well.
AdmitResetCounted(c) ==
  /\ call[c] = "idle"
  /\ state = "open"
  /\ ShouldAttemptReset
  /\ state' = "half_open"
  /\ halfOpenCalls' = 1
  /\ successes' = 0
  /\ call' = [call EXCEPT ![c] = "running"]
  /\ probes' = 1 /\ answers' = 0 /\ cancels' = 0
  /\ UNCHANGED << failures, lastFailure >>

\* The first call after the timeout opens the half-open period; it is not
\* counted in _half_open_calls.
AdmitReset(c) ==
  /\ call[c] = "idle"
  /\ state = "open"
  /\ ShouldAttemptReset
  /\ state' = "half_open"
  /\ halfOpenCalls' = 0
  /\ successes' = 0
  /\ call' = [call EXCEPT ![c] = "running"]
  /\ probes' = 1 /\ answers' = 0 /\ cancels' = 0
  /\ UNCHANGED << failures, lastFailure >>

\* What _half_open_calls is when can_execute compares it: before_call has
\* already counted this call.
CallsNow == CountUpTo(halfOpenCalls, HalfOpenMaxCalls)

AdmitProbe(c) ==
  /\ call[c] = "idle"
  /\ state = "half_open"
  /\ CallsNow < HalfOpenMaxCalls
  /\ halfOpenCalls' = CallsNow
  /\ call' = [call EXCEPT ![c] = "running"]
  /\ probes' = probes + 1
  /\ UNCHANGED << state, failures, successes, lastFailure, answers, cancels >>

\* before_call raises CircuitBreakerOpenError; it has counted the call all the same.
Reject(c) ==
  /\ call[c] = "idle"
  /\ \/ state = "open" /\ ~ShouldAttemptReset
     \/ state = "half_open" /\ ~(CallsNow < HalfOpenMaxCalls)
  /\ halfOpenCalls' = IF state = "half_open" THEN CallsNow ELSE halfOpenCalls
  /\ UNCHANGED << state, failures, successes, lastFailure, call, history >>

-----------------------------------------------------------------------------
(* record_success and record_failure                                        *)

\* Mutant: the threshold is compared with >.
SuccessOneMore(c) ==
  /\ call[c] # "idle"
  /\ state = "half_open"
  /\ answers' = answers + 1
  /\ call' = [call EXCEPT ![c] = "idle"]
  /\ IF successes >= SuccessThreshold
       THEN state' = "closed" /\ failures' = 0 /\ successes' = 0
       ELSE successes' = successes + 1 /\ UNCHANGED << state, failures >>
  /\ UNCHANGED << halfOpenCalls, lastFailure, probes, cancels >>

\* In the half-open state every success counts, also that of a call that was
\* admitted before the circuit opened.
SuccessWhileHalfOpen(c) ==
  /\ call[c] # "idle"
  /\ state = "half_open"
  /\ answers' = answers + 1
  /\ call' = [call EXCEPT ![c] = "idle"]
  /\ IF successes + 1 >= SuccessThreshold
       THEN state' = "closed" /\ failures' = 0 /\ successes' = 0
       ELSE successes' = successes + 1 /\ UNCHANGED << state, failures >>
  /\ UNCHANGED << halfOpenCalls, lastFailure, probes, cancels >>

\* The else branch, "in closed state": the open state comes here too.
SuccessOtherwise(c) ==
  /\ call[c] # "idle"
  /\ state # "half_open"
  /\ failures' = 0
  /\ call' = [call EXCEPT ![c] = "idle"]
  /\ UNCHANGED << state, successes, halfOpenCalls, lastFailure, history >>

Success(c) == SuccessWhileHalfOpen(c) \/ SuccessOtherwise(c)

Failure(c) ==
  /\ call[c] # "idle"
  /\ failures' = CountUpTo(failures, FailureThreshold)
  /\ lastFailure' = "recent"
  /\ call' = [call EXCEPT ![c] = "idle"]
  /\ state' = IF state = "half_open" \/ failures' >= FailureThreshold THEN "open" ELSE state
  /\ UNCHANGED << successes, halfOpenCalls, history >>

\* The call is cancelled: SessionPoolManager.acquire records what `except
\* Exception` catches, and CancelledError is not an Exception.
Cancel(c) ==
  /\ call[c] # "idle"
  /\ call' = [call EXCEPT ![c] = "idle"]
  /\ cancels' = IF state = "half_open" THEN cancels + 1 ELSE cancels
  /\ UNCHANGED << state, failures, successes, halfOpenCalls, lastFailure, probes, answers >>

\* timeout_seconds have passed since the last failure.
TimeoutElapses ==
  /\ lastFailure = "recent"
  /\ lastFailure' = "expired"
  /\ UNCHANGED << state, failures, successes, halfOpenCalls, call, history >>

-----------------------------------------------------------------------------
Ask(c)    == AdmitClosed(c) \/ AdmitReset(c) \/ AdmitProbe(c) \/ Reject(c)
Report(c) == Success(c) \/ Failure(c)

Next ==
  \/ \E c \in Calls : Ask(c) \/ Report(c) \/ Cancel(c)
  \/ TimeoutElapses

Spec == Init /\ [][Next]_vars

\* Clocks advance, calls keep being made, and one that goes on running reports
\* in the end.
Fairness ==
  /\ WF_vars(TimeoutElapses)
  /\ \A c \in Calls : WF_vars(Ask(c)) /\ WF_vars(Report(c))

FairSpec == Spec /\ Fairness

-----------------------------------------------------------------------------
(* Safety                                                                   *)

\* A closed circuit has seen fewer than failure_threshold failures since the
\* last success, also when it has just been closed by late answers.
ClosedBelowThreshold == state = "closed" => failures < FailureThreshold

\* At most half_open_max_calls calls are let through in one half-open period,
\* the uncounted first one included (settings.half_open_max_calls).
HalfOpenBounded == state = "half_open" => probes <= HalfOpenMaxCalls

\* What can_execute compares with success_threshold was counted in this
\* half-open period: nothing is left over from an earlier one.
FreshSuccessCount == state = "half_open" => successes = answers

\* An open circuit has a failure on record, so it stays open for
\* timeout_seconds: the "no failure yet" branch of _should_attempt_reset is
\* never what lets a call through.
OpenHasFailure == state = "open" => lastFailure # "none"

\* A half-open circuit that lets nobody through and waits for nobody's report has
\* seen a cancellation, if half_open_max_calls leaves room for success_threshold:
\* neither the calls that are rejected, which are counted too, nor late answers
\* bring it there.
OnlyCancelsBlock ==
  /\ SuccessThreshold <= HalfOpenMaxCalls
  /\ state = "half_open"
  /\ ~(CallsNow < HalfOpenMaxCalls)
  /\ \A c \in Calls : call[c] = "idle"
  => cancels > 0

\* Each state of the circuit means what it says: its counters are its own,
\* whichever answers of calls admitted in earlier states have come in, and it can
\* be left again.
StatesHoldGood ==
  /\ ClosedBelowThreshold /\ OpenHasFailure
  /\ HalfOpenBounded /\ FreshSuccessCount /\ OnlyCancelsBlock

-----------------------------------------------------------------------------
(* Liveness                                                                 *)

\* A half-open circuit decides: it closes or opens again.  Only a call that is
\* cancelled, and so reports nothing, can keep it from that.
HalfOpenEnds == state = "half_open" ~> state # "half_open" \/ cancels > 0

\* When the server has recovered for good the circuit ends up closed for good,
\* or undecided for want of the report of a cancelled call.
ClosesAfterRecovery ==
  <>[][\A c \in Calls : ~Failure(c)]_vars
    => \/ <>[](state = "closed")
       \/ <>[](state = "half_open" /\ cancels > 0)
=============================================================================
