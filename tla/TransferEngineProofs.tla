------------------------- MODULE TransferEngineProofs -------------------------
(***************************************************************************)
(* The safety of TransferEngine for any batch, any routes and any limit.   *)
(* The place of a task says what its result, its callbacks and its         *)
(* destination can be (Outcome); the counters are followed on their own.   *)
(***************************************************************************)
EXTENDS TransferEngine, FiniteSetTheorems, TLAPS

Types ==
  /\ batch \in {"running", "returned", "cancelling", "cancelled"}
  /\ pc \in [Task -> {"queued", "done", "cancelled"} \cup Admitted]
  /\ route \in [Task -> Routes]
  /\ written \in [Task -> {"nothing", "part", "whole"}]
  /\ result \in [Task -> {"none", "SUCCESS"} \cup Code]
  /\ told \in [Task -> SUBSET Callback]

Outcome ==
  /\ \A t \in Task : pc[t] \in {"queued", "acquiring", "moving"} => result[t] = "none"
  /\ \A t \in Task : pc[t] \in {"queued", "acquiring"} => written[t] = "nothing"
  /\ \A t \in Task : pc[t] \in {"telling success", "telling failure", "done"} =>
                    result[t] # "none"
  /\ batch = "returned" => \A t \in Task : pc[t] = "done"

Numbers ==
  /\ permits \in Nat
  /\ tasks_in_progress \in Nat
  /\ timeouts \in Nat

IInv == Types /\ Outcome /\ ToldOnce /\ ResultTellsWritten /\ Numbers /\ CountersAgree

-----------------------------------------------------------------------------
(* Outcomes                                                                 *)

\* The code of every exception that execute() meets.
LEMMA Codes ==
  /\ ErrorCode("ValueError") = "INVALID_CONFIG"
  /\ ErrorCode("FileNotFoundError") = "FILE_NOT_FOUND"
  /\ ErrorCode("ConnectionError") = "CONNECTION_ERROR"
  /\ ErrorCode("OSError") = "IO_ERROR"
  /\ ErrorCode("TransferTimeoutError") = "TRANSFER_TIMEOUT"
  /\ ErrorCode("KeyError") = "UNKNOWN_ERROR"
  /\ ErrorCode("RuntimeError") = "UNKNOWN_ERROR"
BY DEF ErrorCode, IsA

\* A failure keeps the outcomes in order, if its code says no more of the
\* destination than what is there.
LEMMA FailStep ==
  ASSUME Types, Outcome, ToldOnce, ResultTellsWritten,
         NEW t \in Task, NEW error, Fail(t, error), batch = "running",
         result[t] = "none", written' = written,
         ErrorCode(error) \in Code,
         ErrorCode(error) \in {"IO_ERROR", "TRANSFER_TIMEOUT"} \/ written[t] = "nothing"
  PROVE  Types' /\ Outcome' /\ ToldOnce' /\ ResultTellsWritten'
PROOF
  <1> USE DEF Types, Fail, Goto, Admitted, Counted, Transferring, Code, Callback
  <1>1. Types'
    OBVIOUS
  <1>2. Outcome'
    BY DEF Outcome
  <1>3. ToldOnce'
    BY DEF ToldOnce
  <1>4. ResultTellsWritten'
    BY DEF ResultTellsWritten
  <1>5. QED
    BY <1>1, <1>2, <1>3, <1>4

\* Every step keeps the outcomes in order.
LEMMA OutcomeStep ==
  ASSUME Types, Outcome, ToldOnce, ResultTellsWritten, [Next]_vars
  PROVE  Types' /\ Outcome' /\ ToldOnce' /\ ResultTellsWritten'
PROOF
  <1> DEFINE Kept == Types' /\ Outcome' /\ ToldOnce' /\ ResultTellsWritten'
  <1> USE DEF Types, Outcome, ToldOnce, ResultTellsWritten, Running, Goto, Admitted,
              Counted, Transferring
  <1>1. ASSUME NEW t \in Task, Execute(t) PROVE Kept
    BY <1>1 DEF Execute
  <1>2. ASSUME NEW t \in Task, Reject(t) PROVE Kept
    <2>1. PICK error \in RouteErrors(route[t]) : Fail(t, error)
      BY <1>2 DEF Reject
    <2>2. error \in {"KeyError", "ValueError"}
      BY DEF RouteErrors
    <2>3. ErrorCode(error) \in {"INVALID_CONFIG", "UNKNOWN_ERROR"}
      BY <2>2, Codes
    <2>4. batch = "running" /\ result[t] = "none" /\ written[t] = "nothing"
          /\ written' = written
      BY <1>2 DEF Reject
    <2> QED
      BY <2>1, <2>3, <2>4, FailStep DEF Code
  <1>3. ASSUME NEW t \in Task, Acquired(t) PROVE Kept
    BY <1>3 DEF Acquired
  <1>4. ASSUME NEW t \in Task, Write(t) PROVE Kept
    <2>1. PICK some \in {"part", "whole"} : written' = [written EXCEPT ![t] = some]
      BY <1>4 DEF Write
    <2> QED
      BY <1>4, <2>1 DEF Write
  <1>5. ASSUME NEW t \in Task, Moved(t) PROVE Kept
    BY <1>5 DEF Moved, Callback
  <1>6. ASSUME NEW t \in Task, Raised(t) PROVE Kept
    <2>1. PICK error \in Raises(t) : Fail(t, error)
      BY <1>6 DEF Raised
    <2>2. batch = "running" /\ pc[t] \in Transferring /\ written' = written
      BY <1>6 DEF Raised
    <2>3. CASE pc[t] = "acquiring"
      <3>1. ErrorCode(error) \in {"CONNECTION_ERROR", "UNKNOWN_ERROR"}
        BY <2>3, Codes DEF Raises
      <3> QED
        BY <2>1, <2>2, <2>3, <3>1, FailStep DEF Code
    <2>4. CASE pc[t] = "moving"
      <3>1. \/ ErrorCode(error) = "IO_ERROR"
            \/ ErrorCode(error) = "FILE_NOT_FOUND" /\ written[t] = "nothing"
        BY <2>4, Codes DEF Raises
      <3> QED
        BY <2>1, <2>2, <2>4, <3>1, FailStep DEF Code
    <2> QED
      BY <2>2, <2>3, <2>4
  <1>7. ASSUME NEW t \in Task, TimedOut(t) PROVE Kept
    <2>1. /\ Fail(t, "TransferTimeoutError") /\ batch = "running"
          /\ pc[t] \in Transferring /\ written' = written
      BY <1>7 DEF TimedOut
    <2> QED
      BY <2>1, Codes, FailStep DEF Code
  <1>8. ASSUME NEW t \in Task, SuccessTold(t) PROVE Kept
    BY <1>8 DEF SuccessTold
  <1>9. ASSUME NEW t \in Task, FailureTold(t) PROVE Kept
    BY <1>9 DEF FailureTold
  <1>10. ASSUME NEW t \in Task, Cancelled(t) PROVE Kept
    BY <1>10 DEF Cancelled
  <1>11. CASE Return
    BY <1>11 DEF Return
  <1>12. CASE Cancel
    BY <1>12 DEF Cancel
  <1>13. CASE CancelEnd
    BY <1>13 DEF CancelEnd
  <1>14. CASE UNCHANGED vars
    BY <1>14 DEF vars
  <1>15. QED
    BY <1>1, <1>2, <1>3, <1>4, <1>5, <1>6, <1>7, <1>8, <1>9, <1>10, <1>11, <1>12,
       <1>13, <1>14 DEF Next, EndTransfer, Stay

-----------------------------------------------------------------------------
(* Counters                                                                 *)

\* One task more or less in a set of tasks.
LEMMA OneMore ==
  ASSUME NEW S \in SUBSET Task, NEW t \in Task, t \notin S
  PROVE  Cardinality(S \cup {t}) = Cardinality(S) + 1
BY TaskAssumption, FS_Subset, FS_AddElement

LEMMA OneLess ==
  ASSUME NEW S \in SUBSET Task, NEW t \in S
  PROVE  Cardinality(S \ {t}) = Cardinality(S) - 1 /\ Cardinality(S) \in Nat \ {0}
<1>1. IsFiniteSet(S) /\ IsFiniteSet(S \ {t})
  BY TaskAssumption, FS_Subset
<1>2. /\ Cardinality(S \ {t}) = Cardinality(S) - 1
      /\ Cardinality(S) \in Nat /\ Cardinality(S \ {t}) \in Nat
  BY <1>1, FS_RemoveElement, FS_CardinalityType
<1>3. QED
  BY <1>2

LateTasks == {t \in Task : result[t] = "TRANSFER_TIMEOUT"}

\* The counters before and after a step that moves one task to another place: of
\* each counter, whether the task leaves what it counts, stays, or joins it.
Moves(S, next, t, n) ==
  \/ next = S /\ n = 0
  \/ t \notin S /\ next = S \cup {t} /\ n = 1
  \/ t \in S /\ next = S \ {t} /\ n = -1

\* The cardinality follows.
LEMMA MovesCount ==
  ASSUME NEW S \in SUBSET Task, NEW next, NEW t \in Task, NEW n \in {-1, 0, 1},
         Moves(S, next, t, n)
  PROVE  /\ Cardinality(next) = Cardinality(S) + n
         /\ Cardinality(next) \in Nat /\ Cardinality(S) \in Nat
<1>1. IsFiniteSet(S) /\ IsFiniteSet(next)
  BY TaskAssumption, FS_Subset DEF Moves
<1>2. Cardinality(next) \in Nat /\ Cardinality(S) \in Nat
  BY <1>1, FS_CardinalityType
<1>3. CASE next = S /\ n = 0
  BY <1>2, <1>3
<1>4. CASE t \notin S /\ next = S \cup {t} /\ n = 1
  BY <1>2, <1>4, OneMore
<1>5. CASE t \in S /\ next = S \ {t} /\ n = -1
  BY <1>2, <1>5, OneLess
<1>6. QED
  BY <1>2, <1>3, <1>4, <1>5 DEF Moves

\* The counters agree after a step if each has moved as its tasks have.
LEMMA CountsFollow ==
  ASSUME Numbers, CountersAgree, NEW t \in Task,
         NEW a \in {-1, 0, 1}, NEW b \in {-1, 0, 1}, NEW c \in {-1, 0, 1},
         Moves(At(Counted), At(Counted)', t, a), tasks_in_progress' = tasks_in_progress + a,
         Moves(At(Admitted), At(Admitted)', t, b), permits' = permits - b,
         permits > 0 \/ b # 1,
         Moves(LateTasks, LateTasks', t, c), timeouts' = timeouts + c
  PROVE  Numbers' /\ CountersAgree'
<1>1. /\ At(Counted) \in SUBSET Task /\ At(Admitted) \in SUBSET Task
      /\ LateTasks \in SUBSET Task
  BY DEF At, LateTasks
<1>2. /\ Cardinality(At(Counted)') = Cardinality(At(Counted)) + a
      /\ Cardinality(At(Counted)') \in Nat /\ Cardinality(At(Counted)) \in Nat
  BY <1>1, MovesCount
<1>3. /\ Cardinality(At(Admitted)') = Cardinality(At(Admitted)) + b
      /\ Cardinality(At(Admitted)') \in Nat /\ Cardinality(At(Admitted)) \in Nat
  BY <1>1, MovesCount
<1>4. /\ Cardinality(LateTasks') = Cardinality(LateTasks) + c
      /\ Cardinality(LateTasks') \in Nat /\ Cardinality(LateTasks) \in Nat
  BY <1>1, MovesCount
<1>5. tasks_in_progress' = Cardinality(At(Counted)')
  BY <1>2 DEF CountersAgree
<1>6. permits' + Cardinality(At(Admitted)') = MaxConcurrent
  BY <1>3, ConcurrencyAssumption DEF CountersAgree, Numbers
<1>7. timeouts' = Cardinality(LateTasks')
  BY <1>4 DEF CountersAgree, LateTasks
<1>8. permits' \in Nat
  BY DEF Numbers
<1>9. QED
  BY <1>2, <1>4, <1>5, <1>6, <1>7, <1>8 DEF Numbers, CountersAgree, LateTasks

\* Every step moves the counters with the tasks.
LEMMA CountersStep ==
  ASSUME Types, Outcome, Numbers, CountersAgree, [Next]_vars
  PROVE  Numbers' /\ CountersAgree'
PROOF
  <1> DEFINE Kept == Numbers' /\ CountersAgree'
  <1>a. ASSUME permits' = permits, tasks_in_progress' = tasks_in_progress,
               timeouts' = timeouts, result' = result,
               At(Counted)' = At(Counted), At(Admitted)' = At(Admitted)
        PROVE  Kept
    BY <1>a DEF Numbers, CountersAgree
  <1>b. ASSUME NEW t \in Task, result[t] = "none", NEW code \in Code,
               result' = [result EXCEPT ![t] = code]
        PROVE  Moves(LateTasks, LateTasks', t, IF code = "TRANSFER_TIMEOUT" THEN 1 ELSE 0)
    BY <1>b DEF Moves, LateTasks, Types, Code
  <1>c. ASSUME NEW t \in Task, result' = result PROVE Moves(LateTasks, LateTasks', t, 0)
    BY <1>c DEF Moves, LateTasks
  <1> USE DEF Running, Goto
  <1>1. ASSUME NEW t \in Task, Execute(t) PROVE Kept
    <2>1. /\ Moves(At(Counted), At(Counted)', t, 1)
          /\ Moves(At(Admitted), At(Admitted)', t, 1)
      BY <1>1 DEF Execute, Moves, At, Types, Counted, Admitted, Transferring
    <2>2. Moves(LateTasks, LateTasks', t, 0)
      BY <1>1, <1>c DEF Execute
    <2>3. /\ permits' = permits - 1 /\ permits > 0
          /\ tasks_in_progress' = tasks_in_progress + 1 /\ timeouts' = timeouts + 0
      BY <1>1 DEF Execute, Numbers
    <2> QED
      BY <2>1, <2>2, <2>3, CountsFollow
  <1>2. ASSUME NEW t \in Task, Reject(t) PROVE Kept
    <2>1. PICK error \in RouteErrors(route[t]) : Fail(t, error)
      BY <1>2 DEF Reject
    <2>2. ErrorCode(error) \in Code \ {"TRANSFER_TIMEOUT"}
      <3>1. error \in {"KeyError", "ValueError"}
        BY DEF RouteErrors
      <3> QED
        BY <3>1, Codes DEF Code
    <2>3. /\ Moves(At(Counted), At(Counted)', t, 0)
          /\ Moves(At(Admitted), At(Admitted)', t, 1)
      <3>1. pc[t] = "queued" /\ pc' = [pc EXCEPT ![t] = "telling failure"]
        BY <1>2, <2>1 DEF Reject, Fail
      <3> QED
        BY <3>1 DEF Moves, At, Types, Counted, Admitted, Transferring
    <2>4. Moves(LateTasks, LateTasks', t, 0)
      BY <1>2, <2>1, <2>2, <1>b DEF Reject, Fail, Outcome
    <2>5. /\ permits' = permits - 1 /\ permits > 0
          /\ tasks_in_progress' = tasks_in_progress + 0 /\ timeouts' = timeouts + 0
      BY <1>2 DEF Reject, Numbers
    <2> QED
      BY <2>3, <2>4, <2>5, CountsFollow
  <1>3. ASSUME NEW t \in Task, Acquired(t) PROVE Kept
    <2>1. At(Counted)' = At(Counted) /\ At(Admitted)' = At(Admitted)
      BY <1>3 DEF Acquired, At, Types, Counted, Admitted, Transferring
    <2> QED
      BY <1>3, <2>1, <1>a DEF Acquired
  <1>4. ASSUME NEW t \in Task, Write(t) PROVE Kept
    BY <1>4, <1>a DEF Write, At
  <1>5. ASSUME NEW t \in Task, Moved(t) PROVE Kept
    <2>1. At(Counted)' = At(Counted) /\ At(Admitted)' = At(Admitted)
      BY <1>5 DEF Moved, At, Types, Counted, Admitted, Transferring
    <2>2. LateTasks' = LateTasks
      BY <1>5 DEF Moved, LateTasks, Types, Outcome
    <2>3. /\ permits' = permits /\ tasks_in_progress' = tasks_in_progress
          /\ timeouts' = timeouts
      BY <1>5 DEF Moved
    <2> QED
      BY <2>1, <2>2, <2>3 DEF Numbers, CountersAgree, LateTasks
  <1>6. ASSUME NEW t \in Task, Raised(t) PROVE Kept
    <2>1. PICK error \in Raises(t) : Fail(t, error)
      BY <1>6 DEF Raised
    <2>2. ErrorCode(error) \in Code \ {"TRANSFER_TIMEOUT"}
      <3>1. error \in {"ConnectionError", "RuntimeError", "OSError", "FileNotFoundError"}
        BY DEF Raises
      <3> QED
        BY <3>1, Codes DEF Code
    <2>3. pc[t] \in Transferring
      BY <1>6 DEF Raised
    <2>4. /\ Moves(At(Counted), At(Counted)', t, -1)
          /\ Moves(At(Admitted), At(Admitted)', t, 0)
      BY <2>1, <2>3 DEF Fail, Moves, At, Types, Counted, Admitted, Transferring
    <2>5. Moves(LateTasks, LateTasks', t, 0)
      BY <2>1, <2>2, <2>3, <1>b DEF Fail, Outcome, Transferring
    <2>6. /\ permits' = permits - 0
          /\ tasks_in_progress' = tasks_in_progress + (-1) /\ timeouts' = timeouts + 0
      BY <1>6 DEF Raised, Numbers
    <2> QED
      BY <2>4, <2>5, <2>6, CountsFollow
  <1>7. ASSUME NEW t \in Task, TimedOut(t) PROVE Kept
    <2>1. Fail(t, "TransferTimeoutError") /\ pc[t] \in Transferring
      BY <1>7 DEF TimedOut
    <2>2. /\ Moves(At(Counted), At(Counted)', t, -1)
          /\ Moves(At(Admitted), At(Admitted)', t, 0)
      BY <2>1 DEF Fail, Moves, At, Types, Counted, Admitted, Transferring
    <2>3. Moves(LateTasks, LateTasks', t, 1)
      BY <2>1, Codes, <1>b DEF Fail, Outcome, Transferring, Code
    <2>4. /\ permits' = permits - 0
          /\ tasks_in_progress' = tasks_in_progress + (-1) /\ timeouts' = timeouts + 1
      BY <1>7 DEF TimedOut, Numbers
    <2> QED
      BY <2>2, <2>3, <2>4, CountsFollow
  <1>8. ASSUME NEW t \in Task, SuccessTold(t) PROVE Kept
    <2>1. /\ Moves(At(Counted), At(Counted)', t, -1)
          /\ Moves(At(Admitted), At(Admitted)', t, -1)
      BY <1>8 DEF SuccessTold, Moves, At, Types, Counted, Admitted, Transferring
    <2>2. Moves(LateTasks, LateTasks', t, 0)
      BY <1>8, <1>c DEF SuccessTold
    <2>3. /\ permits' = permits - (-1)
          /\ tasks_in_progress' = tasks_in_progress + (-1) /\ timeouts' = timeouts + 0
      <3>1. /\ permits \in Nat /\ permits' = permits + 1
            /\ tasks_in_progress \in Nat
            /\ tasks_in_progress' = tasks_in_progress - 1
            /\ timeouts \in Nat /\ timeouts' = timeouts
        BY <1>8 DEF SuccessTold, Numbers
      <3> QED
        BY <3>1
    <2> QED
      BY <2>1, <2>2, <2>3, CountsFollow
  <1>9. ASSUME NEW t \in Task, FailureTold(t) PROVE Kept
    <2>1. /\ Moves(At(Counted), At(Counted)', t, 0)
          /\ Moves(At(Admitted), At(Admitted)', t, -1)
      BY <1>9 DEF FailureTold, Moves, At, Types, Counted, Admitted, Transferring
    <2>2. Moves(LateTasks, LateTasks', t, 0)
      BY <1>9, <1>c DEF FailureTold
    <2>3. /\ permits' = permits - (-1)
          /\ tasks_in_progress' = tasks_in_progress + 0 /\ timeouts' = timeouts + 0
      <3>1. /\ permits \in Nat /\ permits' = permits + 1
            /\ tasks_in_progress \in Nat
            /\ tasks_in_progress' = tasks_in_progress
            /\ timeouts \in Nat /\ timeouts' = timeouts
        BY <1>9 DEF FailureTold, Numbers
      <3> QED
        BY <3>1
    <2> QED
      BY <2>1, <2>2, <2>3, CountsFollow
  <1>10. ASSUME NEW t \in Task, Cancelled(t) PROVE Kept
    <2> DEFINE a == IF pc[t] \in Counted THEN -1 ELSE 0
               b == IF pc[t] \in Admitted THEN -1 ELSE 0
    <2>1. /\ Moves(At(Counted), At(Counted)', t, a)
          /\ Moves(At(Admitted), At(Admitted)', t, b)
      BY <1>10 DEF Cancelled, Moves, At, Types, Counted, Admitted, Transferring
    <2>2. Moves(LateTasks, LateTasks', t, 0)
      BY <1>10, <1>c DEF Cancelled
    <2>3. /\ permits' = permits - b /\ b # 1
          /\ tasks_in_progress' = tasks_in_progress + a /\ timeouts' = timeouts + 0
      BY <1>10 DEF Cancelled, Numbers
    <2>4. a \in {-1, 0, 1} /\ b \in {-1, 0, 1}
      OBVIOUS
    <2> HIDE DEF a, b
    <2> QED
      BY <2>1, <2>2, <2>3, <2>4, CountsFollow
  <1>11. CASE Return
    BY <1>11, <1>a DEF Return, At
  <1>12. CASE Cancel
    BY <1>12, <1>a DEF Cancel, At
  <1>13. CASE CancelEnd
    BY <1>13, <1>a DEF CancelEnd, At
  <1>14. CASE UNCHANGED vars
    BY <1>14, <1>a DEF vars, At
  <1>15. QED
    BY <1>1, <1>2, <1>3, <1>4, <1>5, <1>6, <1>7, <1>8, <1>9, <1>10, <1>11, <1>12,
       <1>13, <1>14 DEF Next, EndTransfer, Stay

-----------------------------------------------------------------------------
(* Theorems                                                                 *)

\* The invariant holds in every reachable state.
THEOREM InvCorrect == Spec => []IInv
<1>1. Init => IInv
  <2> SUFFICES ASSUME Init PROVE IInv
    OBVIOUS
  <2>1. Types
    BY DEF Init, Types
  <2>2. Outcome /\ ToldOnce /\ ResultTellsWritten
    BY DEF Init, Outcome, ToldOnce, ResultTellsWritten
  <2>3. permits = MaxConcurrent /\ tasks_in_progress = 0 /\ timeouts = 0
    BY DEF Init
  <2>4. At(Counted) = {} /\ At(Admitted) = {} /\ LateTasks = {}
    BY DEF Init, At, Counted, Admitted, Transferring, LateTasks
  <2>5. Numbers /\ CountersAgree
    BY <2>3, <2>4, FS_EmptySet, ConcurrencyAssumption DEF Numbers, CountersAgree, LateTasks
  <2> QED
    BY <2>1, <2>2, <2>5 DEF IInv
<1>2. IInv /\ [Next]_vars => IInv'
  BY OutcomeStep, CountersStep DEF IInv
<1>3. QED
  BY <1>1, <1>2, PTL DEF Spec

\* The types: among them that no more than max_concurrent tasks are let through.
THEOREM TypeCorrect == Spec => []TypeOK
<1>1. IInv => TypeOK
  <2> SUFFICES ASSUME IInv PROVE TypeOK
    OBVIOUS
  <2>1. Cardinality(At(Admitted)) \in Nat
    BY TaskAssumption, FS_Subset, FS_CardinalityType DEF At
  <2>2. permits \in 0..MaxConcurrent
    BY <2>1, ConcurrencyAssumption DEF IInv, Numbers, CountersAgree
  <2> QED
    BY <2>2 DEF IInv, Types, Numbers, TypeOK
<1>2. QED
  BY <1>1, InvCorrect, PTL

\* The counters and the semaphore agree with where the tasks are.
THEOREM CountersCorrect == Spec => []CountersAgree
<1>1. IInv => CountersAgree
  BY DEF IInv
<1>2. QED
  BY <1>1, InvCorrect, PTL

\* No task's outcome is told twice or differently.
THEOREM ToldCorrect == Spec => []ToldOnce
<1>1. IInv => ToldOnce
  BY DEF IInv
<1>2. QED
  BY <1>1, InvCorrect, PTL

\* Results tell the truth about the destination.
THEOREM ResultCorrect == Spec => []ResultTellsWritten
<1>1. IInv => ResultTellsWritten
  BY DEF IInv
<1>2. QED
  BY <1>1, InvCorrect, PTL

=============================================================================
