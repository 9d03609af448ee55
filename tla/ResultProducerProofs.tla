------------------------ MODULE ResultProducerProofs ------------------------
(***************************************************************************)
(* The safety of ResultProducer for any number of sends and any            *)
(* max_retries.  Neither PendingTracksTasks nor StopWaitsForTasks is       *)
(* inductive: WaitersSnapshot adds what a waiting flush or stop knows, and *)
(* ClosedIsDrained what remains of it when stop has gone on.               *)
(***************************************************************************)
EXTENDS ResultProducer, FiniteSetTheorems, TLAPS

\* Who is running can be told from the sets the code keeps.
CallbacksEnded ==
  /\ \A s \in callbacks : pc[s] \in Ended
  /\ \A s \in cancelling : pc[s] \in Running
  /\ \A s \in tasks : pc[s] # "new"

\* A snapshot that flush or stop waits for has every task that was not created
\* during the wait.
WaitersSnapshot ==
  /\ flusher # "idle" => pending \ overlapped \subseteq flushing
  /\ stopper = "draining" => pending \ overlapped \subseteq drain

\* stop() and its client: the client is let go of only after the wait.
ClosedIsDrained ==
  /\ stopper = "closing" <=> client = "closing"
  /\ stopper = "draining" => client \in {"unstarted", "started"}
  /\ client \in {"none", "connecting"} => tasks = {}
  /\ \A s \in Sends : pc[s] = "broken" => client = "closed"
  /\ client \in {"closing", "closed"} =>
       \A s \in tasks \ overlapped : pc[s] \in Ended \ {"broken"}

IInv ==
  /\ TypeOK
  /\ CallbacksEnded
  /\ WaitersSnapshot
  /\ PendingTracksTasks
  /\ ClosedIsDrained

\* Every action keeps the invariant.
LEMMA InvStep ==
  ASSUME IInv, [Next]_vars
  PROVE  IInv'
PROOF
  <1> USE MaxRetriesAssumption
      DEF IInv, TypeOK, CallbacksEnded, WaitersSnapshot, PendingTracksTasks,
          ClosedIsDrained, Client, Running, Ended, sending, waiters, counters
  <1>1. CASE Connect
    BY <1>1 DEF Connect
  <1>2. CASE Started
    BY <1>2 DEF Started
  <1>3. CASE ConnectFailed
    BY <1>3 DEF ConnectFailed
  <1>4. ASSUME NEW s \in Sends, Refuse(s) PROVE IInv'
    BY <1>4 DEF Refuse, Goto
  <1>5. ASSUME NEW s \in Sends, SendWaiting(s) PROVE IInv'
    <2>1. CASE client = "started"
      BY <1>5, <2>1 DEF SendWaiting, Goto
    <2>2. CASE client = "closing"
      BY <1>5, <2>2 DEF SendWaiting, KafkaError, Finish, Goto
    <2>3. QED
      BY <1>5, <2>1, <2>2 DEF SendWaiting
  <1>6. ASSUME NEW s \in Sends, Attempt(s) PROVE IInv'
    BY <1>6 DEF Attempt, Goto
  <1>7. ASSUME NEW s \in Sends, AttemptClosing(s) PROVE IInv'
    BY <1>7 DEF AttemptClosing, KafkaError, Finish, Goto
  <1>8. ASSUME NEW s \in Sends, AttemptClosed(s) PROVE IInv'
    BY <1>8 DEF AttemptClosed, Finish, Goto
  <1>9. ASSUME NEW s \in Sends, Acknowledge(s) PROVE IInv'
    BY <1>9 DEF Acknowledge, Goto
  <1>10. ASSUME NEW s \in Sends, AttemptFailed(s) PROVE IInv'
    BY <1>10 DEF AttemptFailed, KafkaError, Finish, Goto
  <1>11. ASSUME NEW s \in Sends, Count(s) PROVE IInv'
    BY <1>11 DEF Count, Finish, Goto
  <1>12. ASSUME NEW s \in Sends, Cancelled(s) PROVE IInv'
    BY <1>12 DEF Cancelled, Finish, Goto
  <1>13. ASSUME NEW s \in Sends, TaskDone(s) PROVE IInv'
    BY <1>13 DEF TaskDone
  <1>14. ASSUME NEW S \in SUBSET Sends, CreateTasks(S) PROVE IInv'
    BY <1>14 DEF CreateTasks
  <1>15. CASE Flush
    BY <1>15 DEF Flush
  <1>16. CASE FlushTimesOut
    BY <1>16 DEF FlushTimesOut
  <1>17. CASE FlushReturns
    BY <1>17 DEF FlushReturns, Gathered
  <1>18. CASE Stop
    BY <1>18 DEF Stop
  <1>19. CASE StopDrained
    BY <1>19 DEF StopDrained, Gathered
  <1>20. CASE StopClosed
    BY <1>20 DEF StopClosed
  <1>21. CASE UNCHANGED vars
    BY <1>21 DEF vars
  <1>22. QED
    BY <1>1, <1>2, <1>3, <1>4, <1>5, <1>6, <1>7, <1>8, <1>9, <1>10, <1>11,
       <1>12, <1>13, <1>14, <1>15, <1>16, <1>17, <1>18, <1>19, <1>20, <1>21
       DEF Next, Own, StopGoesOn, Over

\* The invariant holds in every reachable state.
THEOREM InvCorrect == Spec => []IInv
<1>1. Init => IInv
  BY MaxRetriesAssumption
     DEF Init, IInv, TypeOK, CallbacksEnded, WaitersSnapshot, PendingTracksTasks,
         ClosedIsDrained, Client, Running, Ended
<1>2. IInv /\ [Next]_vars => IInv'
  BY InvStep
<1>3. QED
  BY <1>1, <1>2, PTL DEF Spec

\* The types: among them that no send is tried more than max_retries + 1 times
\* and that the sets the code keeps only hold tasks.
THEOREM TypeCorrect == Spec => []TypeOK
<1>1. IInv => TypeOK
  BY DEF IInv
<1>2. QED
  BY <1>1, InvCorrect, PTL

\* flush and stop find every task that runs, but for those created while one of
\* them was waiting.
THEOREM PendingCorrect == Spec => []PendingTracksTasks
<1>1. IInv => PendingTracksTasks
  BY DEF IInv
<1>2. QED
  BY <1>1, InvCorrect, PTL

\* stop() leaves no task behind but those created during a wait.
THEOREM StopCorrect == Spec => []StopWaitsForTasks
<1>1. IInv => StopWaitsForTasks
  BY DEF IInv, ClosedIsDrained, StopWaitsForTasks
<1>2. QED
  BY <1>1, InvCorrect, PTL

-----------------------------------------------------------------------------
(* The counters of get_stats                                                *)

\* A send that is about to return has its result on a topic.
StatsInv == StatsAgree /\ \A s \in Sends : pc[s] = "acked" => s \in topic

\* One send ends as `how`: that many are counted, no other count changes.
LEMMA OneMoreEnds ==
  ASSUME TypeOK, NEW s \in Sends, NEW how, pc[s] # how, pc' = [pc EXCEPT ![s] = how]
  PROVE  Cardinality(EndedAs(how)') = Cardinality(EndedAs(how)) + 1
<1>1. EndedAs(how)' = EndedAs(how) \cup {s} /\ s \notin EndedAs(how)
  BY DEF EndedAs, TypeOK
<1>2. IsFiniteSet(EndedAs(how))
  BY SendsAssumption, FS_Subset DEF EndedAs
<1>3. QED
  BY <1>1, <1>2, FS_AddElement

\* Steps that end no send as sent or failed leave the counters right.
LEMMA StatsUnchanged ==
  ASSUME StatsInv, UNCHANGED counters, topic \subseteq topic',
         \A s \in Sends : /\ pc'[s] = "sent" <=> pc[s] = "sent"
                          /\ pc'[s] = "failed" <=> pc[s] = "failed"
                          /\ pc'[s] = "failed" => retries'[s] = retries[s]
                          /\ pc'[s] = "acked" => s \in topic'
  PROVE  StatsInv'
PROOF
  <1>1. EndedAs("sent")' = EndedAs("sent") /\ EndedAs("failed")' = EndedAs("failed")
    BY DEF EndedAs
  <1>2. \A s \in EndedAs("failed") : retries'[s] = MaxRetries
    BY <1>1 DEF EndedAs, StatsInv, StatsAgree
  <1>3. EndedAs("sent") \subseteq topic'
    BY DEF StatsInv, StatsAgree
  <1>4. QED
    BY <1>1, <1>2, <1>3 DEF StatsInv, StatsAgree, counters

\* A KafkaError is counted when it is the last.
LEMMA ErrorStep ==
  ASSUME IInv, StatsInv, NEW s \in Sends, pc[s] \in Running \cup {"new"},
         pc[s] # "acked",
         KafkaError(s), topic \subseteq topic', sent' = sent
  PROVE  StatsInv'
PROOF
  <1> USE DEF IInv, TypeOK, Running, Ended
  <1>1. CASE retries[s] < MaxRetries
    <2>1. /\ pc' = [pc EXCEPT ![s] = "backoff"] /\ UNCHANGED counters
          /\ retries' = [retries EXCEPT ![s] = @ + 1]
      BY <1>1 DEF KafkaError, Goto, counters
    <2>2. QED
      BY <2>1, StatsUnchanged DEF StatsInv
  <1>2. CASE ~(retries[s] < MaxRetries)
    <2>1. /\ pc' = [pc EXCEPT ![s] = "failed"] /\ errors' = errors + 1
          /\ retries' = retries
      BY <1>2 DEF KafkaError, Finish, Goto
    <2>2. retries[s] = MaxRetries
      BY <1>2, MaxRetriesAssumption
    <2>3. Cardinality(EndedAs("failed")') = Cardinality(EndedAs("failed")) + 1
      BY <2>1, OneMoreEnds
    <2>4. EndedAs("sent")' = EndedAs("sent")
      BY <2>1 DEF EndedAs
    <2>5. \A t \in EndedAs("failed")' : retries'[t] = MaxRetries
      BY <2>1, <2>2 DEF EndedAs, StatsInv, StatsAgree
    <2>6. \A t \in Sends : pc'[t] = "acked" => t \in topic'
      BY <2>1 DEF StatsInv
    <2>7. EndedAs("sent") \subseteq topic'
      BY DEF StatsInv, StatsAgree
    <2>8. QED
      BY <2>1, <2>3, <2>4, <2>5, <2>6, <2>7 DEF StatsInv, StatsAgree
  <1>3. QED
    BY <1>1, <1>2

\* Every step keeps the counters right.
LEMMA StatsStep ==
  ASSUME IInv, StatsInv, [Next]_vars
  PROVE  StatsInv'
PROOF
  <1> USE DEF IInv, TypeOK, CallbacksEnded, Running, Ended
  <1>1. ASSUME NEW s \in Sends, Count(s) PROVE StatsInv'
    <2>1. /\ pc[s] = "acked" /\ sent' = sent + 1
          /\ UNCHANGED << topic, errors, retries >>
          /\ pc' = [pc EXCEPT ![s] = "sent"]
      BY <1>1 DEF Count, Finish, Goto
    <2>2. Cardinality(EndedAs("sent")') = Cardinality(EndedAs("sent")) + 1
      BY <2>1, OneMoreEnds
    <2>3. EndedAs("failed")' = EndedAs("failed")
      BY <2>1 DEF EndedAs
    <2>4. EndedAs("sent")' \subseteq topic
      BY <2>1 DEF EndedAs, StatsInv, StatsAgree
    <2>5. \A t \in Sends : pc'[t] = "acked" => t \in topic
      BY <2>1 DEF StatsInv
    <2>6. QED
      BY <2>1, <2>2, <2>3, <2>4, <2>5 DEF StatsInv, StatsAgree
  <1>2. ASSUME NEW s \in Sends, Own(s), ~Count(s) PROVE StatsInv'
    <2>1. CASE AttemptClosing(s)
      BY <2>1, ErrorStep DEF AttemptClosing
    <2>2. CASE AttemptFailed(s)
      BY <2>2, ErrorStep DEF AttemptFailed
    <2>3. CASE Attempt(s)
      BY <2>3, StatsUnchanged DEF Attempt, Goto, StatsInv
    <2>4. CASE AttemptClosed(s)
      BY <2>4, StatsUnchanged DEF AttemptClosed, Finish, Goto, StatsInv
    <2>5. CASE Acknowledge(s)
      BY <2>5, StatsUnchanged DEF Acknowledge, Goto, StatsInv
    <2>6. CASE Cancelled(s)
      BY <2>6, StatsUnchanged DEF Cancelled, Finish, Goto, StatsInv
    <2>7. CASE TaskDone(s)
      BY <2>7, StatsUnchanged DEF TaskDone, StatsInv
    <2>8. QED
      BY <1>2, <2>1, <2>2, <2>3, <2>4, <2>5, <2>6, <2>7 DEF Own
  <1>3. ASSUME NEW s \in Sends, Refuse(s) \/ SendWaiting(s) PROVE StatsInv'
    <2>1. CASE Refuse(s)
      BY <2>1, StatsUnchanged DEF Refuse, Goto, StatsInv
    <2>2. CASE SendWaiting(s) /\ client = "started"
      BY <2>2, StatsUnchanged DEF SendWaiting, Goto, counters, StatsInv
    <2>3. CASE SendWaiting(s) /\ client = "closing"
      BY <2>3, ErrorStep DEF SendWaiting
    <2>4. QED
      BY <1>3, <2>1, <2>2, <2>3 DEF SendWaiting
  <1>4. ASSUME NEW S \in SUBSET Sends, CreateTasks(S) PROVE StatsInv'
    BY <1>4, StatsUnchanged DEF CreateTasks, StatsInv
  <1>5. CASE \/ Connect \/ Started \/ ConnectFailed \/ Flush \/ FlushTimesOut
             \/ FlushReturns \/ Stop \/ StopGoesOn \/ Over \/ UNCHANGED vars
    <2>1. UNCHANGED << pc, retries, counters, topic >>
      BY <1>5 DEF Connect, Started, ConnectFailed, Flush, FlushTimesOut, FlushReturns,
                  Stop, StopGoesOn, StopDrained, StopClosed, Over, vars, sending,
                  counters
    <2>2. QED
      BY <2>1, StatsUnchanged DEF StatsInv
  <1>6. QED
    BY <1>1, <1>2, <1>3, <1>4, <1>5 DEF Next

\* results_sent, failures_sent and send_errors agree with what became of each
\* send, for any number of sends and retries.
THEOREM StatsCorrect == Spec => []StatsAgree
<1>1. Init => StatsInv
  <2> SUFFICES ASSUME Init PROVE StatsInv
    OBVIOUS
  <2>1. EndedAs("sent") = {} /\ EndedAs("failed") = {}
    BY DEF Init, EndedAs
  <2>2. QED
    BY <2>1, FS_EmptySet DEF Init, StatsInv, StatsAgree
<1>2. IInv /\ StatsInv /\ [Next]_vars => StatsInv'
  BY StatsStep
<1>3. StatsInv => StatsAgree
  BY DEF StatsInv
<1>4. QED
  BY <1>1, <1>2, <1>3, InvCorrect, PTL DEF Spec
=============================================================================
