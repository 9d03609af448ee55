------------------------------ MODULE Lifecycle ------------------------------
(***************************************************************************)
(* The life of one pod (main.py: Application and main): initialize, start, *)
(* run and stop, with start() and stop() of the result producer            *)
(* (kafka/producer.py), the dead letter producer (kafka/dlq.py) and the    *)
(* consumer (kafka/consumer.py), and what GET /ready answers meanwhile.    *)
(*                                                                         *)
(* The task loop is that of TaskPipeline, reduced to "waiting for a task", *)
(* "handling one" and "raising".                                           *)
(*                                                                         *)
(* External: the Kafka clients, which start, raise KafkaError or raise     *)
(* something else; and uvicorn's Server.serve, which runs until it is      *)
(* cancelled, fails, or ends because of a signal: it installs handlers of  *)
(* its own for the signals that the application has handlers for.          *)
(***************************************************************************)
EXTENDS Integers, FiniteSets

CONSTANTS
  MaxRetries   \* KafkaSettings.max_retries

\* config/settings.py: Field(default=5, ge=0).
ASSUME MaxRetriesAssumption == MaxRetries \in Nat

VARIABLES
  pc,         \* where Application.run_forever is, or how the process ended
  client,     \* each component's Kafka client: "none", "unstarted" or "up"
  retries,    \* retry_count of the start() that is running
  sessions,   \* the pools: "none", or "open" or "closed" sessions
  running,    \* Application._running: "yes" or "no"
  event,      \* _shutdown_event: "set" or "clear"
  api,        \* the API task
  causes      \* history: what has gone wrong

vars == << pc, client, retries, sessions, running, event, api, causes >>

Component == {"producer", "dlq", "consumer"}
Starting == {"starting producer", "starting dlq", "starting consumer"}
Stopping == {"stopping consumer", "closing pools", "stopping producer", "stopping dlq"}
Exited   == {"exited 0", "exited 1", "killed"}
Place == {"warming up", "waiting", "handling", "ending api"} \cup Starting \cup Stopping
           \cup Exited
Cause == {"start", "task loop", "api", "stop", "signal"}

TypeOK ==
  /\ pc \in Place
  /\ client \in [Component -> {"none", "unstarted", "up"}]
  /\ retries \in 0..MaxRetries
  /\ sessions \in {"none", "open", "closed"}
  /\ running \in {"yes", "no"}
  /\ event \in {"set", "clear"}
  /\ api \in {"none", "serving", "ended", "failed"}
  /\ causes \subseteq Cause

Init ==
  /\ pc = "warming up"
  /\ client = [c \in Component |-> "none"]
  /\ retries = 0
  /\ sessions = "none"
  /\ running = "no" /\ event = "clear"
  /\ api = "none"
  /\ causes = {}

Blame(what) == causes' = causes \cup {what}

-----------------------------------------------------------------------------
(* initialize and start                                                     *)

\* start() of a component has assigned its client and awaits the client's start.
Construct(c, state) == [state EXCEPT ![c] = "unstarted"]

\* warm_up_all never raises.
WarmedUp ==
  /\ pc = "warming up"
  /\ pc' = "starting producer"
  /\ sessions' = "open"
  /\ client' = Construct("producer", client)
  /\ UNCHANGED << retries, running, event, api, causes >>

ProducerStarted ==
  /\ pc = "starting producer"
  /\ pc' = "starting dlq"
  /\ client' = Construct("dlq", [client EXCEPT !["producer"] = "up"])
  /\ retries' = 0
  /\ UNCHANGED << sessions, running, event, api, causes >>

\* initialize() returns; start() sets _running and installs the handlers of the
\* signals before it starts the consumer.
DlqStarted ==
  /\ pc = "starting dlq"
  /\ pc' = "starting consumer"
  /\ client' = Construct("consumer", [client EXCEPT !["dlq"] = "up"])
  /\ retries' = 0
  /\ running' = "yes"
  /\ UNCHANGED << sessions, event, api, causes >>

\* The API task is created, and run() begins to consume.
ConsumerStarted ==
  /\ pc = "starting consumer"
  /\ pc' = "waiting"
  /\ client' = [client EXCEPT !["consumer"] = "up"]
  /\ retries' = 0
  /\ api' = "serving"
  /\ UNCHANGED << sessions, running, event, causes >>

\* Mutant: one attempt too many.
StartRetriedOnceMore ==
  /\ pc \in Starting /\ retries <= MaxRetries
  /\ retries' = retries + 1
  /\ UNCHANGED << pc, client, sessions, running, event, api, causes >>

\* A KafkaError with retries left: a backoff, and a new client.
StartRetried ==
  /\ pc \in Starting /\ retries < MaxRetries
  /\ retries' = retries + 1
  /\ UNCHANGED << pc, client, sessions, running, event, api, causes >>

\* The last KafkaError, or any other exception (connections that cannot be loaded
\* among them), leaves run_forever before its try: main() returns 1 and stop() is
\* never called.
StartFailed ==
  /\ pc \in {"warming up"} \cup Starting
  /\ pc' = "exited 1"
  /\ Blame("start")
  /\ UNCHANGED << client, retries, sessions, running, event, api >>

-----------------------------------------------------------------------------
(* run                                                                      *)

\* Mutant: the event is not looked at.
TaskYieldedUnseen ==
  /\ pc = "waiting" /\ client["consumer"] = "up"
  /\ pc' = "handling"
  /\ UNCHANGED << client, retries, sessions, running, event, api, causes >>

\* consume() yields a task; run() looks at the event first.
TaskYielded ==
  /\ pc = "waiting" /\ client["consumer"] = "up"
  /\ pc' = IF event = "set" THEN "ending api" ELSE "handling"
  /\ UNCHANGED << client, retries, sessions, running, event, api, causes >>

\* _process_task: whatever happens in a transfer ends in a result.
TaskHandled ==
  /\ pc = "handling"
  /\ pc' = "waiting"
  /\ UNCHANGED << client, retries, sessions, running, event, api, causes >>

\* consume() has lost its broker: _reconnect stops the client and starts another.
ReconnectBegins ==
  /\ pc = "waiting" /\ client["consumer"] = "up"
  /\ client' = [client EXCEPT !["consumer"] = "unstarted"]
  /\ UNCHANGED << pc, retries, sessions, running, event, api, causes >>

Reconnected ==
  /\ pc = "waiting" /\ client["consumer"] = "unstarted"
  /\ client' = [client EXCEPT !["consumer"] = "up"]
  /\ UNCHANGED << pc, retries, sessions, running, event, api, causes >>

\* consume() raises: the finally clause of run_forever, then main() returns 1.
TaskLoopRaises ==
  /\ pc = "waiting"
  /\ pc' = "ending api"
  /\ Blame("task loop")
  /\ UNCHANGED << client, retries, sessions, running, event, api >>

\* The API task fails.  It is not awaited before the task loop ends, unless what
\* it raised is SystemExit (a port in use): then asyncio.run cancels the loop,
\* and run() takes the CancelledError for its end.
ApiFailed ==
  /\ pc \in {"waiting", "handling"} /\ api = "serving"
  /\ api' = "failed"
  /\ pc' \in {pc, "ending api"}
  /\ Blame("api")
  /\ UNCHANGED << client, retries, sessions, running, event >>

-----------------------------------------------------------------------------
(* Signals                                                                  *)

\* Nobody handles them before start() does.
SignalKills ==
  /\ pc \in {"warming up", "starting producer", "starting dlq"}
  /\ pc' = "killed"
  /\ Blame("signal")
  /\ UNCHANGED << client, retries, sessions, running, event, api >>

\* The application's handler.
SignalSetsEvent ==
  /\ pc \in {"starting consumer", "waiting", "handling", "ending api"} \cup Stopping
  /\ event' = "set"
  /\ UNCHANGED << pc, client, retries, sessions, running, api, causes >>

\* The handler of uvicorn, once serve() has replaced the application's.
SignalEndsApi ==
  /\ pc \in {"waiting", "handling"} /\ api = "serving"
  /\ api' = "ended"
  /\ UNCHANGED << pc, client, retries, sessions, running, event, causes >>

-----------------------------------------------------------------------------
(* The finally clause of run_forever, and stop                              *)

\* Mutant: the API goes on answering until the process ends.
ApiLeftServing ==
  /\ pc = "ending api" /\ api \in {"serving", "ended"}
  /\ pc' = "stopping consumer"
  /\ UNCHANGED << client, retries, sessions, running, event, api, causes >>

\* The API task is cancelled and awaited; stop() clears _running, and awaits the
\* consumer's stop().
ApiCancelled ==
  /\ pc = "ending api" /\ api \in {"serving", "ended"}
  /\ pc' = "stopping consumer"
  /\ api' = "ended"
  /\ running' = "no"
  /\ UNCHANGED << client, retries, sessions, event, causes >>

\* Awaiting a task that has failed raises what it raised: stop() is not reached.
ApiRaises ==
  /\ pc = "ending api" /\ api = "failed"
  /\ pc' = "exited 1"
  /\ UNCHANGED << client, retries, sessions, running, event, api, causes >>

\* Mutant: stop() begins with the producer.
ConsumerStoppedLast ==
  /\ pc = "stopping consumer"
  /\ pc' = "closing pools"
  /\ client' = [client EXCEPT !["producer"] = "none"]
  /\ UNCHANGED << retries, sessions, running, event, api, causes >>

ConsumerStopped ==
  /\ pc = "stopping consumer"
  /\ pc' = "closing pools"
  /\ client' = [client EXCEPT !["consumer"] = "none"]
  /\ UNCHANGED << retries, sessions, running, event, api, causes >>

\* close_all swallows the errors of disconnecting.
PoolsClosed ==
  /\ pc = "closing pools"
  /\ pc' = "stopping producer"
  /\ sessions' = "closed"
  /\ UNCHANGED << client, retries, running, event, api, causes >>

ProducerStopped ==
  /\ pc = "stopping producer"
  /\ pc' = "stopping dlq"
  /\ client' = [client EXCEPT !["producer"] = "none"]
  /\ UNCHANGED << retries, sessions, running, event, api, causes >>

\* main() returns 0, or 1 if run() had raised.
ExitCode == IF causes = {} THEN "exited 0" ELSE "exited 1"

\* Mutant: the dead letter producer is forgotten.
DlqForgotten ==
  /\ pc = "stopping dlq"
  /\ pc' = ExitCode
  /\ UNCHANGED << client, retries, sessions, running, event, api, causes >>

DlqStopped ==
  /\ pc = "stopping dlq"
  /\ pc' = ExitCode
  /\ client' = [client EXCEPT !["dlq"] = "none"]
  /\ UNCHANGED << retries, sessions, running, event, api, causes >>

\* A Kafka client's stop() raises: what comes after it is skipped.
StopFailed ==
  /\ pc \in Stopping \ {"closing pools"}
  /\ pc' = "exited 1"
  /\ Blame("stop")
  /\ UNCHANGED << client, retries, sessions, running, event, api >>

-----------------------------------------------------------------------------
StartMoves ==
  \/ WarmedUp \/ ProducerStarted \/ DlqStarted \/ ConsumerStarted
  \/ StartRetried \/ StartFailed

RunMoves ==
  TaskHandled \/ ReconnectBegins \/ Reconnected \/ TaskLoopRaises

StopMoves ==
  \/ ApiCancelled \/ ApiRaises
  \/ ConsumerStopped \/ PoolsClosed \/ ProducerStopped \/ DlqStopped \/ StopFailed

Stay == pc \in Exited /\ UNCHANGED vars

Next ==
  \/ StartMoves
  \/ TaskYielded
  \/ RunMoves
  \/ ApiFailed
  \/ SignalKills
  \/ SignalSetsEvent
  \/ SignalEndsApi
  \/ StopMoves
  \/ Stay

Spec == Init /\ [][Next]_vars

-----------------------------------------------------------------------------
(* Properties                                                               *)

Down ==
  /\ \A c \in Component : client[c] = "none"
  /\ sessions = "closed" /\ running = "no" /\ api = "ended"

\* Exit code 0 means that nothing went wrong, and a process that ends by itself
\* has stopped everything in order, also when the task loop raised.  Only a
\* start, an API or a stop() that fails leaves something behind.
CleanExit ==
  /\ pc = "exited 0" => causes = {}
  /\ pc \in {"exited 0", "exited 1"} /\ causes \subseteq {"task loop"} => Down

\* Tasks are only consumed while their results, their dead letters and their
\* transfers have somewhere to go: over starting in order, reconnecting, and
\* stopping in reverse order.
ProvidersUp ==
  pc = "handling" \/ client["consumer"] = "up" =>
    client["producer"] = "up" /\ client["dlq"] = "up" /\ sessions = "open"

\* GET /ready, which looks at _running only (api/routes.py).
Ready == api = "serving" /\ running = "yes"

\* A pod that says it is ready has started everything and stopped nothing, though
\* its consumer may be reconnecting.
ReadyMeansStarted ==
  Ready => /\ client["consumer"] # "none" /\ sessions = "open"
           /\ client["producer"] = "up" /\ client["dlq"] = "up"

\* No phase of a pod's life goes on for ever: every start serves in the end, or
\* the process exits; and once the application has been told to shut down, it
\* exits, if tasks keep arriving.
PhasesEnd ==
  /\ pc = "warming up" ~> pc \in {"waiting"} \cup Exited
  /\ event = "set" ~> pc \in Exited

\* Fairness: the loop runs what is ready, brokers answer or fail, and (strong)
\* the topic is never idle for ever.
FairSpec ==
  /\ Spec
  /\ WF_vars(StartMoves)
  /\ WF_vars(TaskHandled)
  /\ WF_vars(Reconnected)
  /\ WF_vars(StopMoves)
  /\ SF_vars(TaskYielded)

=============================================================================
