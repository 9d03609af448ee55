---------------------------- MODULE TransferEngine ----------------------------
(***************************************************************************)
(* TransferEngine (transfer/engine.py): execute_batch and the execute()    *)
(* calls it starts: the route of a task, the transfer under its timeout,   *)
(* the except clauses, the two callbacks and the counters.                 *)
(*                                                                         *)
(* A transfer is seen through what it has written at its destination       *)
(* (FTPSession.download and upload); the sessions are SessionPool's, and   *)
(* the callbacks, which send results, are ResultProducer's.                *)
(***************************************************************************)
EXTENDS Naturals, FiniteSets

CONSTANTS
  Task,          \* the tasks of the batch
  Routes,        \* the kinds of connections that tasks name: << source, destination >>
  MaxConcurrent  \* the parameter max_concurrent

ASSUME TaskAssumption == IsFiniteSet(Task)
ASSUME RoutesAssumption ==
  Routes \subseteq {"ftp", "local", "unknown"} \X {"ftp", "local", "unknown"}
ASSUME ConcurrencyAssumption == MaxConcurrent \in Nat \ {0}

VARIABLES
  batch,              \* execute_batch: "running", "returned", "cancelling" or "cancelled"
  permits,            \* value of its semaphore
  pc,                 \* where each execute() is
  route,              \* the connections of each task
  written,            \* what its destination has: "nothing", "part" or "whole"
  result,             \* status or error_code of its TransferResult, or "none"
  told,               \* history: the callbacks that were called with a result of it
  tasks_in_progress,  \* the counter _tasks_in_progress
  timeouts            \* the counter _timeouts

vars == << batch, permits, pc, route, written, result, told, tasks_in_progress, timeouts >>

Code == {"INVALID_CONFIG", "FILE_NOT_FOUND", "CONNECTION_ERROR", "IO_ERROR",
         "TRANSFER_TIMEOUT", "UNKNOWN_ERROR"}
Callback == {"on_success", "on_failure"}
Transferring == {"acquiring", "moving"}
Counted == Transferring \cup {"telling success"}   \* until the finally clause
Admitted == Counted \cup {"telling failure"}       \* in the semaphore

TypeOK ==
  /\ batch \in {"running", "returned", "cancelling", "cancelled"}
  /\ permits \in 0..MaxConcurrent
  /\ pc \in [Task -> {"queued", "done", "cancelled"} \cup Admitted]
  /\ route \in [Task -> Routes]
  /\ written \in [Task -> {"nothing", "part", "whole"}]
  /\ result \in [Task -> {"none", "SUCCESS"} \cup Code]
  /\ told \in [Task -> SUBSET Callback]
  /\ tasks_in_progress \in Nat
  /\ timeouts \in Nat

Init ==
  /\ batch = "running"
  /\ permits = MaxConcurrent
  /\ pc = [t \in Task |-> "queued"]
  /\ route \in [Task -> Routes]
  /\ written = [t \in Task |-> "nothing"]
  /\ result = [t \in Task |-> "none"]
  /\ told = [t \in Task |-> {}]
  /\ tasks_in_progress = 0
  /\ timeouts = 0

Goto(t, place) == pc' = [pc EXCEPT ![t] = place]

-----------------------------------------------------------------------------
(* The except clauses                                                       *)

\* Classes of the exceptions, as far as the clauses name them.  Python's
\* FileNotFoundError and ConnectionError are kinds of OSError (IOError).
IsA(error) ==
  CASE error \in {"FileNotFoundError", "ConnectionError"} -> {error, "OSError", "Exception"}
    [] OTHER -> {error, "Exception"}

\* Mutant: the clause of ConnectionError names OSError.
BroadErrorCode(error) ==
  IF "ValueError" \in IsA(error) THEN "INVALID_CONFIG"
  ELSE IF "FileNotFoundError" \in IsA(error) THEN "FILE_NOT_FOUND"
  ELSE IF "OSError" \in IsA(error) THEN "CONNECTION_ERROR"
  ELSE IF "TransferTimeoutError" \in IsA(error) THEN "TRANSFER_TIMEOUT"
  ELSE "UNKNOWN_ERROR"

\* The first clause that fits.
ErrorCode(error) ==
  IF "ValueError" \in IsA(error) THEN "INVALID_CONFIG"
  ELSE IF "FileNotFoundError" \in IsA(error) THEN "FILE_NOT_FOUND"
  ELSE IF "ConnectionError" \in IsA(error) THEN "CONNECTION_ERROR"
  ELSE IF "OSError" \in IsA(error) THEN "IO_ERROR"
  ELSE IF "TransferTimeoutError" \in IsA(error) THEN "TRANSFER_TIMEOUT"
  ELSE "UNKNOWN_ERROR"

\* An except clause, the finally clause, and the call of on_failure.
Fail(t, error) ==
  /\ Goto(t, "telling failure")
  /\ result' = [result EXCEPT ![t] = ErrorCode(error)]
  /\ told' = [told EXCEPT ![t] = @ \cup {"on_failure"}]
  /\ UNCHANGED << batch, route >>

-----------------------------------------------------------------------------
(* execute                                                                  *)

\* _determine_direction: nothing if there is no error.  registry.get raises
\* KeyError.
RouteErrors(r) ==
  IF "unknown" \in {r[1], r[2]} THEN {"KeyError"}
  ELSE IF r[1] = r[2] THEN {"ValueError"}
  ELSE {}

Running(t, place) == batch = "running" /\ pc[t] = place

\* The semaphore lets the task through; it is counted, and has a direction.
Execute(t) ==
  /\ Running(t, "queued") /\ permits > 0
  /\ RouteErrors(route[t]) = {}
  /\ Goto(t, "acquiring")
  /\ permits' = permits - 1
  /\ tasks_in_progress' = tasks_in_progress + 1
  /\ UNCHANGED << batch, route, written, result, told, timeouts >>

\* Mutant: the direction is determined between the counting and the try.
RejectCounted(t) ==
  /\ Running(t, "queued") /\ permits > 0
  /\ permits' = permits - 1
  /\ \E error \in RouteErrors(route[t]) : Fail(t, error)
  /\ tasks_in_progress' = tasks_in_progress + 1
  /\ UNCHANGED << written, timeouts >>

\* As above, but there is no direction: counted and discounted in one go.
Reject(t) ==
  /\ Running(t, "queued") /\ permits > 0
  /\ permits' = permits - 1
  /\ \E error \in RouteErrors(route[t]) : Fail(t, error)
  /\ UNCHANGED << written, tasks_in_progress, timeouts >>

\* The manager has a session for the task.
Acquired(t) ==
  /\ Running(t, "acquiring")
  /\ Goto(t, "moving")
  /\ UNCHANGED << batch, permits, route, written, result, told, tasks_in_progress,
                  timeouts >>

\* A chunk arrives, the last one or one before.
Write(t) ==
  /\ Running(t, "moving") /\ written[t] # "whole"
  /\ \E some \in {"part", "whole"} : written' = [written EXCEPT ![t] = some]
  /\ UNCHANGED << batch, permits, pc, route, result, told, tasks_in_progress, timeouts >>

\* on_success is called within the try, while the task is still counted.
Moved(t) ==
  /\ Running(t, "moving") /\ written[t] = "whole"
  /\ Goto(t, "telling success")
  /\ result' = [result EXCEPT ![t] = "SUCCESS"]
  /\ told' = [told EXCEPT ![t] = @ \cup {"on_success"}]
  /\ UNCHANGED << batch, permits, route, written, tasks_in_progress, timeouts >>

\* What a transfer may raise: connecting, or a pool without a session; a local
\* file that is not there when an upload begins; anything else in download() and
\* upload(), also after the last byte, is an IOError.
Raises(t) ==
  IF pc[t] = "acquiring" THEN {"ConnectionError", "RuntimeError"}
  ELSE {"OSError"} \cup (IF route[t][1] = "local" /\ written[t] = "nothing"
                          THEN {"FileNotFoundError"} ELSE {})

Raised(t) ==
  /\ \E place \in Transferring : Running(t, place)
  /\ \E error \in Raises(t) : Fail(t, error)
  /\ tasks_in_progress' = tasks_in_progress - 1
  /\ UNCHANGED << permits, written, timeouts >>

\* asyncio.timeout, also when the last byte has just been written.
TimedOut(t) ==
  /\ \E place \in Transferring : Running(t, place)
  /\ Fail(t, "TransferTimeoutError")
  /\ tasks_in_progress' = tasks_in_progress - 1
  /\ timeouts' = timeouts + 1
  /\ UNCHANGED << permits, written >>

\* Mutant: the callbacks are called without _safe_callback, and on_success raises.
SuccessToldUnsafely(t) ==
  /\ Running(t, "telling success")
  /\ Fail(t, "Exception")
  /\ tasks_in_progress' = tasks_in_progress - 1
  /\ UNCHANGED << permits, written, timeouts >>

\* on_success has returned, or raised: _safe_callback only counts that.  The
\* finally clause, and the way out of the semaphore.
SuccessTold(t) ==
  /\ Running(t, "telling success")
  /\ Goto(t, "done")
  /\ tasks_in_progress' = tasks_in_progress - 1
  /\ permits' = permits + 1
  /\ UNCHANGED << batch, route, written, result, told, timeouts >>

\* Mutant: the semaphore is not released.
FailureToldKeepsPermit(t) ==
  /\ Running(t, "telling failure")
  /\ Goto(t, "done")
  /\ UNCHANGED << batch, permits, route, written, result, told, tasks_in_progress,
                  timeouts >>

FailureTold(t) ==
  /\ Running(t, "telling failure")
  /\ Goto(t, "done")
  /\ permits' = permits + 1
  /\ UNCHANGED << batch, route, written, result, told, tasks_in_progress, timeouts >>

-----------------------------------------------------------------------------
(* execute_batch                                                            *)

\* gather() has all results.
Return ==
  /\ batch = "running"
  /\ \A t \in Task : pc[t] = "done"
  /\ batch' = "returned"
  /\ UNCHANGED << permits, pc, route, written, result, told, tasks_in_progress, timeouts >>

\* The caller is cancelled, and gather() cancels what it has started.
Cancel ==
  /\ batch = "running"
  /\ \E t \in Task : pc[t] # "done"
  /\ batch' = "cancelling"
  /\ UNCHANGED << permits, pc, route, written, result, told, tasks_in_progress, timeouts >>

\* Mutant: the semaphore is acquired within the try that releases it.
CancelledReleasing(t) ==
  /\ batch = "cancelling" /\ pc[t] \notin {"done", "cancelled"}
  /\ Goto(t, "cancelled")
  /\ tasks_in_progress' = IF pc[t] \in Counted THEN tasks_in_progress - 1
                                               ELSE tasks_in_progress
  /\ permits' = permits + 1
  /\ UNCHANGED << batch, route, written, result, told, timeouts >>

\* CancelledError at whichever await the task is: no except clause sees it.
Cancelled(t) ==
  /\ batch = "cancelling" /\ pc[t] \notin {"done", "cancelled"}
  /\ Goto(t, "cancelled")
  /\ tasks_in_progress' = IF pc[t] \in Counted THEN tasks_in_progress - 1
                                               ELSE tasks_in_progress
  /\ permits' = IF pc[t] \in Admitted THEN permits + 1 ELSE permits
  /\ UNCHANGED << batch, route, written, result, told, timeouts >>

CancelEnd ==
  /\ batch = "cancelling"
  /\ \A t \in Task : pc[t] \in {"done", "cancelled"}
  /\ batch' = "cancelled"
  /\ UNCHANGED << permits, pc, route, written, result, told, tasks_in_progress, timeouts >>

Stay == batch \in {"returned", "cancelled"} /\ UNCHANGED vars

-----------------------------------------------------------------------------
EndTransfer(t) == Moved(t) \/ Raised(t) \/ TimedOut(t)

Next ==
  \/ \E t \in Task :
       \/ Execute(t) \/ Reject(t)
       \/ Acquired(t) \/ Write(t) \/ EndTransfer(t)
       \/ SuccessTold(t) \/ FailureTold(t)
       \/ Cancelled(t)
  \/ Return
  \/ Cancel
  \/ CancelEnd
  \/ Stay

Spec == Init /\ [][Next]_vars

-----------------------------------------------------------------------------
(* Properties                                                               *)

At(places) == {t \in Task : pc[t] \in places}

\* The counters and the semaphore, over every way out of execute(): a task is in
\* progress from its counting to its finally clause, and a timeout is counted
\* when it becomes a result.
CountersAgree ==
  /\ tasks_in_progress = Cardinality(At(Counted))
  /\ permits + Cardinality(At(Admitted)) = MaxConcurrent
  /\ timeouts = Cardinality({t \in Task : result[t] = "TRANSFER_TIMEOUT"})

\* One outcome per task: whatever a callback does, the other one is not called
\* for the same task, and a batch that returns has told the outcome of each.
ToldOnce ==
  /\ \A t \in Task :
       told[t] = CASE result[t] = "none" -> {}
                   [] result[t] = "SUCCESS" -> {"on_success"}
                   [] OTHER -> {"on_failure"}
  /\ batch = "returned" => \A t \in Task : result[t] # "none"

\* What a result says of the destination: all of the file, or, for the errors
\* before the transfer, nothing of it.  IO_ERROR and TRANSFER_TIMEOUT say nothing.
ResultTellsWritten ==
  \A t \in Task :
    /\ result[t] = "SUCCESS" => written[t] = "whole"
    /\ result[t] \in {"INVALID_CONFIG", "FILE_NOT_FOUND", "CONNECTION_ERROR",
                      "UNKNOWN_ERROR"} => written[t] = "nothing"

\* A batch ends, whatever the servers do.
BatchEnds == batch = "running" ~> batch \in {"returned", "cancelled"}

\* Fairness: the loop runs what is ready, the timers of asyncio.timeout fire, and
\* callbacks end (_send_with_retry is bounded).
FairSpec ==
  /\ Spec
  /\ \A t \in Task :
       /\ WF_vars(Execute(t) \/ Reject(t))
       /\ WF_vars(EndTransfer(t))
       /\ WF_vars(SuccessTold(t) \/ FailureTold(t))
       /\ WF_vars(Cancelled(t))
  /\ WF_vars(Return)
  /\ WF_vars(CancelEnd)

=============================================================================
