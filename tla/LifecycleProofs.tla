--------------------------- MODULE LifecycleProofs ---------------------------
(***************************************************************************)
(* The safety of Lifecycle for any number of retries.  What is up depends  *)
(* on the place of run_forever alone, which Stage spells out; the places   *)
(* after an exit are told apart by what went wrong.                        *)
(***************************************************************************)
EXTENDS Lifecycle, TLAPS

\* TypeOK in two parts: numbers and strings are for the prover to meet apart.
Tries == retries \in 0..MaxRetries

Types ==
  /\ pc \in Place
  /\ client \in [Component -> {"none", "unstarted", "up"}]
  /\ sessions \in {"none", "open", "closed"}
  /\ running \in {"yes", "no"}
  /\ event \in {"set", "clear"}
  /\ api \in {"none", "serving", "ended", "failed"}
  /\ causes \subseteq Cause

\* From the end of start() to the beginning of stop().
Running == {"waiting", "handling", "ending api"}

Stage ==
  /\ pc \in {"starting dlq", "starting consumer"} \cup Running \cup
           {"stopping consumer", "closing pools", "stopping producer"} =>
       client["producer"] = "up"
  /\ pc \in {"starting consumer"} \cup Running \cup Stopping => client["dlq"] = "up"
  /\ pc \in Starting \cup Running \cup {"stopping consumer", "closing pools"} =>
       sessions = "open"
  /\ pc \in {"stopping producer", "stopping dlq"} => sessions = "closed"
  /\ pc \in {"warming up"} \cup Starting => client["consumer"] # "up"
  /\ pc = "handling" => client["consumer"] = "up"
  /\ pc \in Running => client["consumer"] # "none"
  /\ pc \in {"closing pools", "stopping producer", "stopping dlq"} =>
       client["consumer"] = "none"
  /\ pc = "stopping dlq" => client["producer"] = "none"

\* The application's flag and the API.
Flags ==
  /\ pc \in {"warming up"} \cup Starting => api = "none"
  /\ pc \in Running => api # "none"
  /\ pc \in Stopping => api = "ended" /\ running = "no"

\* What has gone wrong where nothing is known to be left behind.
Causes ==
  /\ pc \in {"warming up"} \cup Starting => causes = {}
  /\ pc \in Running => causes \subseteq {"task loop", "api"}
  /\ api = "failed" => "api" \in causes
  /\ pc \in Running /\ "api" \in causes => api = "failed"
  /\ pc \in Stopping => causes \subseteq {"task loop"}

\* A process that has exited by itself left in one of four ways.
Ways ==
  /\ pc = "exited 0" => causes = {}
  /\ pc \in {"exited 0", "exited 1"} =>
       Down \/ "start" \in causes \/ "api" \in causes \/ "stop" \in causes
  /\ pc \in Exited => ProvidersUp
  /\ pc \in Exited => ReadyMeansStarted

IInv == Tries /\ Types /\ Stage /\ Flags /\ Causes /\ Ways

\* The attempts of a start() are counted up to the limit and then from 0.
LEMMA TriesStep ==
  ASSUME Tries, [Next]_vars
  PROVE  Tries'
PROOF
  <1>1. 0 \in 0..MaxRetries
    BY MaxRetriesAssumption
  <1>2. ASSUME retries < MaxRetries
        PROVE  retries + 1 \in 0..MaxRetries
    BY <1>2, MaxRetriesAssumption DEF Tries
  <1>3. \/ retries' = retries
        \/ retries' = 0
        \/ retries < MaxRetries /\ retries' = retries + 1
    BY Zenon DEF Next, StartMoves, RunMoves, StopMoves, WarmedUp, ProducerStarted,
         DlqStarted, ConsumerStarted, StartRetried, StartFailed, TaskHandled,
         ReconnectBegins, Reconnected, TaskLoopRaises, TaskYielded, ApiFailed,
         SignalKills, SignalSetsEvent, SignalEndsApi, ApiCancelled, ApiRaises,
         ConsumerStopped, PoolsClosed, ProducerStopped, DlqStopped, StopFailed,
         Stay, vars
  <1>4. QED
    BY <1>1, <1>2, <1>3, Zenon DEF Tries

\* Every action keeps the types, and what is up at each place.
LEMMA StageStep ==
  ASSUME Types, Stage, [Next]_vars
  PROVE  Types' /\ Stage'
PROOF
  <1> USE DEF Types, Stage, Cause, Component, Starting, Stopping, Exited, Place, Running
  <1>1. CASE WarmedUp
    <2>1. /\ client' \in [Component -> {"none", "unstarted", "up"}]
          /\ client'["consumer"] = client["consumer"]
      BY <1>1 DEF WarmedUp, Construct
    <2>2. pc = "warming up" /\ pc' = "starting producer"
      BY <1>1 DEF WarmedUp
    <2>3. Types'
      BY <1>1, <2>1, <2>2 DEF WarmedUp
    <2>4. Stage'
      BY <1>1, <2>1, <2>2 DEF WarmedUp
    <2>5. QED
      BY <2>3, <2>4
  <1>2. CASE ProducerStarted
    <2>1. /\ client' \in [Component -> {"none", "unstarted", "up"}]
          /\ client'["producer"] = "up"
          /\ client'["consumer"] = client["consumer"]
      BY <1>2 DEF ProducerStarted, Construct
    <2>2. pc = "starting producer" /\ pc' = "starting dlq"
      BY <1>2 DEF ProducerStarted
    <2>3. Types'
      BY <1>2, <2>1, <2>2 DEF ProducerStarted
    <2>4. Stage'
      BY <1>2, <2>1, <2>2 DEF ProducerStarted
    <2>5. QED
      BY <2>3, <2>4
  <1>3. CASE DlqStarted
    <2>1. /\ client' \in [Component -> {"none", "unstarted", "up"}]
          /\ client'["producer"] = client["producer"]
          /\ client'["dlq"] = "up"
          /\ client'["consumer"] = "unstarted"
      BY <1>3 DEF DlqStarted, Construct
    <2>2. pc = "starting dlq" /\ pc' = "starting consumer"
      BY <1>3 DEF DlqStarted
    <2>3. Types'
      BY <1>3, <2>1, <2>2 DEF DlqStarted
    <2>4. Stage'
      BY <1>3, <2>1, <2>2 DEF DlqStarted
    <2>5. QED
      BY <2>3, <2>4
  <1>4. CASE ConsumerStarted
    <2>1. /\ client' \in [Component -> {"none", "unstarted", "up"}]
          /\ client'["producer"] = client["producer"]
          /\ client'["dlq"] = client["dlq"]
          /\ client'["consumer"] = "up"
      BY <1>4 DEF ConsumerStarted
    <2>2. pc = "starting consumer" /\ pc' = "waiting"
      BY <1>4 DEF ConsumerStarted
    <2>3. Types'
      BY <1>4, <2>1, <2>2 DEF ConsumerStarted
    <2>4. Stage'
      BY <1>4, <2>1, <2>2 DEF ConsumerStarted
    <2>5. QED
      BY <2>3, <2>4
  <1>5. CASE StartRetried
    BY <1>5 DEF StartRetried
  <1>6. CASE StartFailed
    BY <1>6 DEF StartFailed, Blame
  <1>7. CASE TaskHandled
    BY <1>7 DEF TaskHandled
  <1>8. CASE ReconnectBegins
    BY <1>8 DEF ReconnectBegins
  <1>9. CASE Reconnected
    BY <1>9 DEF Reconnected
  <1>10. CASE TaskLoopRaises
    BY <1>10 DEF TaskLoopRaises, Blame
  <1>11. CASE TaskYielded
    BY <1>11 DEF TaskYielded
  <1>12. CASE ApiFailed
    BY <1>12 DEF ApiFailed, Blame
  <1>13. CASE SignalKills
    BY <1>13 DEF SignalKills, Blame
  <1>14. CASE SignalSetsEvent
    BY <1>14 DEF SignalSetsEvent
  <1>15. CASE SignalEndsApi
    BY <1>15 DEF SignalEndsApi
  <1>16. CASE ApiCancelled
    BY <1>16 DEF ApiCancelled
  <1>17. CASE ApiRaises
    BY <1>17 DEF ApiRaises
  <1>18. CASE ConsumerStopped
    BY <1>18 DEF ConsumerStopped
  <1>19. CASE PoolsClosed
    BY <1>19 DEF PoolsClosed
  <1>20. CASE ProducerStopped
    BY <1>20 DEF ProducerStopped
  <1>21. CASE DlqStopped
    BY <1>21 DEF DlqStopped, ExitCode
  <1>22. CASE StopFailed
    BY <1>22 DEF StopFailed, Blame
  <1>23. CASE Stay
    BY <1>23 DEF Stay, vars
  <1>24. CASE UNCHANGED vars
    BY <1>24 DEF vars
  <1>25. QED
    BY <1>1, <1>2, <1>3, <1>4, <1>5, <1>6, <1>7, <1>8, <1>9, <1>10, <1>11,
       <1>12, <1>13, <1>14, <1>15, <1>16, <1>17, <1>18, <1>19, <1>20, <1>21, <1>22,
       <1>23, <1>24
       DEF Next, StartMoves, RunMoves, StopMoves

\* And what goes with it: the flags, the causes and the ways out.
LEMMA FlagsStep ==
  ASSUME Types, Flags, Causes, [Next]_vars
  PROVE  Flags' /\ Causes'
PROOF
  <1> USE DEF Types, Flags, Causes, Starting, Stopping, Exited, Place, Running
  <1>1. CASE WarmedUp
    BY <1>1 DEF WarmedUp, Construct
  <1>2. CASE ProducerStarted
    BY <1>2 DEF ProducerStarted, Construct
  <1>3. CASE DlqStarted
    BY <1>3 DEF DlqStarted, Construct
  <1>4. CASE ConsumerStarted
    BY <1>4 DEF ConsumerStarted
  <1>5. CASE StartRetried
    BY <1>5 DEF StartRetried
  <1>6. CASE StartFailed
    BY <1>6 DEF StartFailed, Blame
  <1>7. CASE TaskHandled
    BY <1>7 DEF TaskHandled
  <1>8. CASE ReconnectBegins
    BY <1>8 DEF ReconnectBegins
  <1>9. CASE Reconnected
    BY <1>9 DEF Reconnected
  <1>10. CASE TaskLoopRaises
    BY <1>10 DEF TaskLoopRaises, Blame
  <1>11. CASE TaskYielded
    BY <1>11 DEF TaskYielded
  <1>12. CASE ApiFailed
    BY <1>12 DEF ApiFailed, Blame
  <1>13. CASE SignalKills
    BY <1>13 DEF SignalKills, Blame
  <1>14. CASE SignalSetsEvent
    BY <1>14 DEF SignalSetsEvent
  <1>15. CASE SignalEndsApi
    BY <1>15 DEF SignalEndsApi
  <1>16. CASE ApiCancelled
    BY <1>16 DEF ApiCancelled
  <1>17. CASE ApiRaises
    BY <1>17 DEF ApiRaises
  <1>18. CASE ConsumerStopped
    BY <1>18 DEF ConsumerStopped
  <1>19. CASE PoolsClosed
    BY <1>19 DEF PoolsClosed
  <1>20. CASE ProducerStopped
    BY <1>20 DEF ProducerStopped
  <1>21. CASE DlqStopped
    BY <1>21 DEF DlqStopped, ExitCode
  <1>22. CASE StopFailed
    BY <1>22 DEF StopFailed, Blame
  <1>23. CASE Stay
    BY <1>23 DEF Stay, vars
  <1>24. CASE UNCHANGED vars
    BY <1>24 DEF vars
  <1>25. QED
    BY <1>1, <1>2, <1>3, <1>4, <1>5, <1>6, <1>7, <1>8, <1>9, <1>10, <1>11,
       <1>12, <1>13, <1>14, <1>15, <1>16, <1>17, <1>18, <1>19, <1>20, <1>21, <1>22,
       <1>23, <1>24
       DEF Next, StartMoves, RunMoves, StopMoves

LEMMA WaysStep ==
  ASSUME IInv, [Next]_vars
  PROVE  Ways'
PROOF
  <1> USE DEF IInv, Types, Stage, Flags, Causes, Ways, Down, ProvidersUp,
              ReadyMeansStarted, Ready, Component, Starting, Stopping, Exited, Place,
              Running
  <1>1. CASE WarmedUp
    BY <1>1 DEF WarmedUp, Construct
  <1>2. CASE ProducerStarted
    BY <1>2 DEF ProducerStarted, Construct
  <1>3. CASE DlqStarted
    BY <1>3 DEF DlqStarted, Construct
  <1>4. CASE ConsumerStarted
    BY <1>4 DEF ConsumerStarted
  <1>5. CASE StartRetried
    BY <1>5 DEF StartRetried
  <1>6. CASE StartFailed
    BY <1>6 DEF StartFailed, Blame
  <1>7. CASE TaskHandled
    BY <1>7 DEF TaskHandled
  <1>8. CASE ReconnectBegins
    BY <1>8 DEF ReconnectBegins
  <1>9. CASE Reconnected
    BY <1>9 DEF Reconnected
  <1>10. CASE TaskLoopRaises
    BY <1>10 DEF TaskLoopRaises, Blame
  <1>11. CASE TaskYielded
    BY <1>11 DEF TaskYielded
  <1>12. CASE ApiFailed
    BY <1>12 DEF ApiFailed, Blame
  <1>13. CASE SignalKills
    BY <1>13 DEF SignalKills, Blame
  <1>14. CASE SignalSetsEvent
    BY <1>14 DEF SignalSetsEvent
  <1>15. CASE SignalEndsApi
    BY <1>15 DEF SignalEndsApi
  <1>16. CASE ApiCancelled
    BY <1>16 DEF ApiCancelled
  <1>17. CASE ApiRaises
    BY <1>17 DEF ApiRaises
  <1>18. CASE ConsumerStopped
    BY <1>18 DEF ConsumerStopped
  <1>19. CASE PoolsClosed
    BY <1>19 DEF PoolsClosed
  <1>20. CASE ProducerStopped
    BY <1>20 DEF ProducerStopped
  <1>21. CASE DlqStopped
    BY <1>21 DEF DlqStopped, ExitCode
  <1>22. CASE StopFailed
    BY <1>22 DEF StopFailed, Blame
  <1>23. CASE Stay
    BY <1>23 DEF Stay, vars
  <1>24. CASE UNCHANGED vars
    BY <1>24 DEF vars
  <1>25. QED
    BY <1>1, <1>2, <1>3, <1>4, <1>5, <1>6, <1>7, <1>8, <1>9, <1>10, <1>11,
       <1>12, <1>13, <1>14, <1>15, <1>16, <1>17, <1>18, <1>19, <1>20, <1>21, <1>22,
       <1>23, <1>24
       DEF Next, StartMoves, RunMoves, StopMoves

\* The invariant holds in every reachable state.
THEOREM InvCorrect == Spec => []IInv
<1>1. Init => IInv
  <2> SUFFICES ASSUME Init PROVE IInv
    OBVIOUS
  <2>1. pc = "warming up" /\ api = "none" /\ causes = {}
    BY DEF Init
  <2>2. client["consumer"] = "none"
    BY DEF Init, Component
  <2>3. Tries
    <3>1. 0 \in 0..MaxRetries
      BY MaxRetriesAssumption
    <3>2. retries = 0
      BY DEF Init
    <3>3. QED
      BY <3>1, <3>2 DEF Tries
  <2>4. Types
    BY <2>1 DEF Init, Types, Place, Component
  <2>5. Stage /\ Flags /\ Causes /\ Ways
    BY <2>1, <2>2 DEF Stage, Flags, Causes, Ways, Starting, Stopping, Exited, Running
  <2>6. QED
    BY <2>3, <2>4, <2>5 DEF IInv
<1>2. IInv /\ [Next]_vars => IInv'
  BY TriesStep, StageStep, FlagsStep, WaysStep DEF IInv
<1>3. QED
  BY <1>1, <1>2, PTL DEF Spec

\* The types: among them that no start() is tried more than max_retries + 1 times.
THEOREM TypeCorrect == Spec => []TypeOK
<1>1. IInv => TypeOK
  BY DEF IInv, Tries, Types, TypeOK
<1>2. QED
  BY <1>1, InvCorrect, PTL

\* A process that ends by itself has stopped everything, but for a start, an API
\* or a stop() that failed.
THEOREM ExitCorrect == Spec => []CleanExit
<1>1. IInv => CleanExit
  BY DEF IInv, Ways, CleanExit
<1>2. QED
  BY <1>1, InvCorrect, PTL

\* Whoever consumes tasks has a producer, a dead letter queue and the pools.
THEOREM ProvidersCorrect == Spec => []ProvidersUp
<1>1. IInv => ProvidersUp
  BY DEF IInv, Types, Stage, Ways, ProvidersUp, Component, Place, Starting, Stopping,
         Exited, Running
<1>2. QED
  BY <1>1, InvCorrect, PTL

\* Nobody is told that a pod is ready that has not started or that is stopping.
THEOREM ReadyCorrect == Spec => []ReadyMeansStarted
<1>1. IInv => ReadyMeansStarted
  BY DEF IInv, Types, Stage, Flags, Ways, ReadyMeansStarted, Ready, Component, Place,
         Starting, Stopping, Exited, Running
<1>2. QED
  BY <1>1, InvCorrect, PTL

=============================================================================
