# FTP Pooler: a TLA+ model of the transfer service

FTP Pooler is an asyncio service that runs as a set of pods. Each pod reads
transfer tasks from a Kafka topic, moves files over pooled FTP sessions, sends
the outcome of every transfer to a result topic, and sends what it cannot read
to a dead letter queue. This directory holds TLA+ modules for the parts of it
that are hard to test, TLC configurations that check them on small instances,
and TLAPS proofs of their safety properties for every value of the constants.

Paths below are relative to `src/src/ftp_pooler/` unless they say otherwise.

## 1. Inventory

| Component | State it keeps | Operations | Modelled in |
|---|---|---|---|
| `SessionPool` (`pool/manager.py`) | `_sessions`, `_semaphore`, `_lock` | `warm_up`, `acquire`, `_get_or_create_session`, `_create_session`, `health_check`, `close_all` | `SessionPool`; what it promises in `LimitedPool`, its counts in `CountedPool` |
| `FTPSession` (`pool/session.py`) | `_state`, `_client` | `connect`, `disconnect`, `download`, `upload`, `check_health`, `acquire` | `SessionPool`; what a transfer writes in `TransferEngine` |
| `CircuitBreaker` (`pool/circuit_breaker.py`) | `_state`, three counters, `_last_failure_time` | `can_execute`, `before_call`, `record_success`, `record_failure` | `CircuitBreaker` |
| `CircuitBreakerRegistry` | dictionary of breakers | `get_breaker`, `get_all_states`, `get_open_circuits` | `PoolManager`, only the call of its missing `get` |
| `SessionPoolManager` (`pool/manager.py`) | `_pools`, `_total_semaphore`, `_lock` | `acquire`, `_get_or_create_pool`, `warm_up_all`, `health_check`, `close_all` | `PoolManager` |
| `TaskConsumer` (`kafka/consumer.py`) | the consumer, `retry_count`, the position | `start`, `stop`, `consume`, `_parse_message`, `_reconnect`, `consume_batch` | `TaskPipeline`, all but `consume_batch` |
| `ResultProducer` (`kafka/producer.py`) | `_producer`, `_pending_tasks`, counters | `start`, `send_result`, `send_batch`, `_send_with_retry`, `flush`, `stop` | `ResultProducer` |
| `DLQProducer` (`kafka/dlq.py`) | the producer | `start`, `send_to_dlq`, `send_parse_error`, `stop` | `TaskPipeline`, `Lifecycle` |
| `TransferEngine` (`transfer/engine.py`) | counters | `execute`, `execute_batch`, `_determine_direction`, `_safe_callback` | `TransferEngine` |
| `Application` (`main.py`) | `_running`, `_shutdown_event`, the components | `initialize`, `start`, `run`, `run_forever`, `stop`, `_handle_shutdown` | `Lifecycle`, its task loop in `TaskPipeline` |
| Transfer models (`transfer/models.py`) | none | `from_dict`, `success`, `failure` | the kinds of messages and of results |
| HTTP API (`api/routes.py`) | none | `/ready`, `/pool/health`, `/health`, `/live`, `/stats`, `/pool/stats` | `/ready` in `Lifecycle`, `/pool/health` in `PoolManager` and `SessionPool` |
| Settings, connections (`config/`) | read once | lookups of the `ConnectionRegistry` | the lookups (`Known`, `Routes`), and that loading may fail |
| Metrics, logging | output only | | no |

**How they interact.** `Application.initialize` awaits `warm_up_all` and starts
the producers; `start` sets `_running`, installs the signal handlers and starts
the consumer. `Application.run` iterates over `TaskConsumer.consume()`, an
asynchronous generator. Each task is awaited in `TransferEngine.execute`, which
acquires a session from the manager (a permit of the pod, then the pool of the
connection, then a permit of the pool, then a session), transfers, and calls back
into `ResultProducer.send_result`, all but the callback under one timeout.
Control then returns to the generator, which commits the offset of the message
before it polls again. The HTTP API runs on the same loop: `GET /pool/health`
probes sessions at any time, also sessions in use. `stop` stops the consumer,
closes the pools, and stops the producers.

**What is hard here.**

* *One loop, many awaits.* Nothing runs in parallel inside a pod, but every
  `await` is a point where timeouts cancel, probes and `close_all` cut in, and
  values read before may be stale after.
* *Three gates in a row.* A caller takes a permit of the pod, a permit of the pool
  and then a lock that is held while `connect()` waits for a server. Every exit
  (unknown connection, connect error, transfer error, exhaustion, cancellation at
  any await) has to give back what was taken, once.
* *Shutdown under way.* `close_all` disconnects sessions under transfers that go
  on, and forgets pools that callers still have.
* *Late answers.* The circuit breaker counts whatever is reported, whenever the
  call was admitted. A send that raised may have reached its topic, and one
  that a `flush` cancelled may have too.
* *At-least-once delivery.* A commit records the position of a partition that
  may have moved to another pod and back while the message was in hand; a
  commit that raises may have been recorded; a pod may die between the answer
  and the commit.
* *Retries within retries.* `consume()`, `start()` and both producers count their
  own, and some of the counters are reset by what they retry.

**What makes each component correct.** The pool: no session is shared, no more
sessions than allowed, no permit lost or returned twice, an offered session has
a client, a permit holder gets a session, everybody gets out. The manager: one
pool per connection, permits of both levels accounted for, `close_all` closes
what it can know of, a health check reports on all pools or raises. The breaker:
it opens in time, the half-open state lets a bounded number of calls through and
ends, a recovered server closes it. The pipeline: only messages that were dealt
with are committed, in order, at most one is repeated, and only after a fault,
none is stuck but behind one that ends every pod (section 6). The result
producer: it counts nothing as sent that is not, and `stop` waits for what it has
been given. The engine: one outcome per task, told once, and true. The
application: everything a task needs is up while tasks are handled, and exit
code 0 means that all went well. `PROJECT.json` lists each hazard at its line with
the properties that cover it.

## 2. Modules

| Module | What it is |
|---|---|
| `LimitedPool` | what a pool promises its callers: an abstract specification that `SessionPool` implements |
| `CountedPool` | a pool in numbers: implemented by `SessionPool` and by each pool of `PoolManager` |
| `SessionPool` | one pool with its sessions and callers |
| `PoolManager` | the dictionary of pools behind the pod-wide semaphore |
| `CircuitBreaker` | one breaker with the calls it guards |
| `TransferEngine` | a batch of executions with their routes, errors and callbacks |
| `ResultProducer` | sends of results, waiting or as tasks, with `flush` and `stop` |
| `AtLeastOnce` | what a pipeline promises: the abstract specification that `TaskPipeline` implements |
| `TaskPipeline` | the pods of the consumer group on one partition, with engine, result producer and dead letter queue |
| `Lifecycle` | one pod from its start to its exit |
| `MC...` | the instances of the runs: symmetry sets, routes |
| `SessionPoolProofs`, `PoolManagerProofs`, `CircuitBreakerProofs`, `TransferEngineProofs`, `ResultProducerProofs`, `TaskPipelineProofs`, `LifecycleProofs`, `CountedPoolProofs` | theorems |

**How they fit together.** Each module shows one component in the detail in which
its hazards lie and its neighbours by what they may do: `SessionPool` has the
engine's timeout as a cancellation at any await; `PoolManager` has of each pool
its counts (permits, listed sessions, sessions on offer, users), and that these
are the counts of a pool as `SessionPool` has it is what the two refinements of
`CountedPool` say; `TransferEngine` has of acquisition and transfer what they raise
and write; `TaskPipeline` has of an execution that it ends in one result, which
is what `ToldOnce` says of `TransferEngine`, and of a send that it is published or
fails after `MaxRetries` retries; `Lifecycle` has of the task loop whether it
waits, handles a task or raises.

Definitions whose comment begins with `Mutant:` are slips a programmer might
make in the definition that follows them (a dropped guard, an off-by-one, a
missing reset). They are no part of a specification: each stands for the question
whether a property would notice.

### SessionPool, LimitedPool and CountedPool

Variables are the attributes of the code: `sessions` is `_sessions`, `state` and
`client` are `_state` and "`_client` is set" of each session, `permits` is the
semaphore's value, `locked` the lock. `pc` says at which await a caller is
suspended: `waiting` for the semaphore, `permitted` and waiting for the lock,
`connecting` with the lock held, `transferring`. The code between two awaits is
one action, so `TakeIdle` covers the search for an idle session, its hand-over,
`FTPSession.acquire` marking it busy and the head of the transfer: none of these
suspends. `Leave` is the `finally` of `acquire()`. The four `TimeOut...` actions
are the `CancelledError` of the engine's `asyncio.timeout` at each await;
`TimeOutTransferring` shows the difference between the `except Exception` of
`download`, which does not see it, and the `finally` of `FTPSession.acquire`,
which turns the busy session idle. `ProbeStart/Ok/Failed` is a health check,
which takes no lock. `abandoned` is a history variable: connected sessions whose
last transfer was cut off.

`phase` orders the life of the pool. `warm_up` is awaited before the first task
is consumed, so callers and probes (`Served`) come after it. Sessions that
nobody refers to any more may be used for the next object the code creates.

`LimitedPool` has two variables: the sessions a pool keeps and the session each
user has. It can open, lend (an old session or a new one), take back and clear.
`SessionPool` implements it with `user <- lent`, the session each caller transfers
with: semaphore, lock, session states, warm-up and errors are all implementation.

`CountedPool` is the side that the manager sees: the value of the semaphore, how
many sessions are listed and on offer, and the place of each user. `SessionPool`
implements it with the cardinalities of its sets (`kept`, `offered`, `placed`),
where a session counts as kept until `close_all` returns. Its `Promises` are what
the counts entail: permits balance, there is room for the session that is being
connected, a session on offer is in nobody's use, and a permit holder that finds
nothing on offer and no room has a broken session to thank.

### PoolManager

`pools` is the sequence of keys of `_pools` in the order of insertion, `podPermits`
the value of `_total_semaphore`. A pool object is a pair of a connection and an
epoch, since `close_all` clears the dictionary and later callers get new objects
under the same key: `epoch` is 1 from then on and `held` says which object a
caller was given. `permits`, `listed` and `idle` are the semaphore, the number of
`_sessions` and the number of those on offer, per pool object. `pc` is where a
caller is in `acquire`: `wait_pod`, `wait_lock` (of `_get_or_create_pool`),
`wait_pool`, `entering` (with a permit, at the lock of the pool), `connecting`
(`connect()` is awaited under that lock), `using`, or `stray` when `close_all` has
taken its session away. As the pool's lock is held during `connect()`, other
callers of the pool and its `close_all` wait for it (`Unlocked`), while sessions
are returned to it and probed all the same. `closer` and `closing` are
`close_all`, which holds the manager's lock over its awaits; a caller at that lock
waits for it (`HasLock`). Each pool object is a
`CountedPool` (`Share`, `ImplementsCountedPools`). `check`, `size` and `probed` are `health_check`, which
iterates over the dictionary without the lock; Python notices that the dictionary
changed size at the next step of the iteration (`CheckRaises`). `overlap` and
`surprises` are history.

`Lookup` says what the first line of `acquire` does. In the code as it stands it
raises an `AttributeError` (`"missing"`), since the registry has no `get`. With
`"returns"` the rest of `acquire` runs as it is written: the breaker's coroutines
are not awaited there, so a caller is never refused. The liveness run and
the proofs have both, the safety run has the latter.

### CircuitBreaker

The breaker's methods never suspend while they hold its lock, so each is one
step, with an action per branch of `before_call`: `AdmitClosed`, `AdmitReset`
(open to half-open), `AdmitProbe`, `Reject`; then `Success` and `Failure`. Time is
one bit of `lastFailure`: `recent` or `expired`, with `TimeoutElapses` between
them. `Cancel` is a call that reports nothing because `except Exception` does not
catch a cancellation. `probes`, `answers` and `cancels` are history.

### TransferEngine

`batch` and `permits` are `execute_batch` and its semaphore; `pc` is where the
`execute` of each task is: `queued`, `acquiring`, `moving`, in one of the two
callbacks, or ended. `route` gives the kinds of its two connections; `Reject` is
`_determine_direction` when it raises. `written` is what the destination has.
`ErrorCode` is the sequence of `except` clauses over Python's exception hierarchy
(`IsA`), where `FileNotFoundError` and `ConnectionError` are kinds of `OSError`, so
the order of the clauses matters. `told` is history: which callbacks got a result
of the task. `tasks_in_progress` and `timeouts` are the counters.

### ResultProducer

`client` is `_producer` with the phase of the Kafka client behind it. `pc` is where
each `_send_with_retry` is: `scheduled`, `sending`, `acked` (the broker has
accepted, the coroutine has not resumed), `backoff`, or how it ended. `tasks` are
the sends that run as tasks of their own, `pending` is `_pending_tasks`,
`callbacks` the ended tasks whose `_task_done_callback` has yet to run,
`cancelling` those that a timed-out `flush` has asked to cancel. `topic` is what the
brokers have. `stopper`/`drain` and `flusher`/`flushing` are `stop` and `flush` with
the snapshot of tasks each of them waits for. `overlapped` is history: tasks
created while one of them waited, which both calls forget when they clear the
set.

### TaskPipeline and AtLeastOnce

`log`, `committed`, `owner` and `position` belong to the brokers. `pc` is where a
pod is: `starting`, `polling`, `backoff`, `executing`, `publishing`,
`deadLettering`, `committing`, `stopping`, `stopped`. A message is a member of
`Kind`, by the way it takes through the code:

| Kind | What it is | Where it goes |
|---|---|---|
| `task` | `TransferTask.from_dict` accepts it | `Execute`, then `Publish` and its failures |
| `unanswerable` | a task whose `task_id` cannot be encoded (`producer.py:289`) | executed, no result is sent, committed (`PublishUnbuilt`) |
| `undecodable` | the deserializer has turned it into `None` | dead letter; a `KafkaError` that remains reaches `consume()`, and the message comes again (`DeadLetterFailed`) |
| `malformed` | `from_dict` rejects it | dead letter; a `KafkaError` that remains is logged and the message committed (`DeadLetterFailed`) |
| `unsendable` | one of the two before, but `to_dict` cannot decode its key (`dlq.py:84`) or `send_parse_error` cannot encode its value (`dlq.py:251`) | no dead letter; the `ValueError` is logged, for an undecodable one at the second try (`consumer.py:313`), and the message committed (`DeadLetterUnbuilt`) |
| `poison` | `from_dict` raises an `AttributeError` (`models.py:59`) | leaves `consume()` and `run()`, the pod ends (`PollPoison`) |

A send that raised may have been recorded all the same (`Perhaps`), that of a
result as well as that of a dead letter, at every attempt. `Retry` is the `except
KafkaError` of `consume()`; `Reconnect` is `_reconnect`, which may leave an
unstarted consumer behind: polling it raises a `KafkaError` or, while it has no
coordinator, an `AttributeError` that ends the pod (`PollUnconnected`).
`Deliver` resets the retry counter, as the code does on every message.

`Commit` is aiokafka's `commit()` without arguments: it records the position of
what is assigned *now*, which is nothing for a pod that lost the partition, and
the old offset for one that lost it and got it back. `CommitFailed` may or may
not have been recorded.

`Faults` selects what may go wrong in a run: `connect`, `poll`, `commit`,
`result`, `dead_letter`, `rebalance`, `crash`, `signal`.

`AtLeastOnce` has three variables: how many messages were produced, how many are
committed, which are settled. A message can only be settled if it is the one after
the committed ones, and only a settled message is committed. `TaskPipeline` is
mapped to it by `produced <- Len(log)` and
`settled <- published \cup deadLetters \cup lost`. `lost` is part of it because
the code commits what it has given up with an error in its log (section 6).

### Lifecycle

`pc` is where `run_forever` is, from `warming up` to one of three ends: `exited 0`,
`exited 1`, `killed`. `client` has each component's Kafka client, `sessions` the
pools, `running` and `event` are `_running` and `_shutdown_event`, `api` the task
of the HTTP server, `causes` the history of what went wrong. Signals take three
ways: before the handlers are installed they kill the process (`SignalKills`);
then they set the event (`SignalSetsEvent`); and once uvicorn has installed its
own handlers they may only end the API (`SignalEndsApi`). `ApiRaises` is the
`finally` clause of `run_forever` that awaits an API task which has failed.

## 3. Runs

| Run | Instance | Distinct states | Shows |
|---|---|---|---|
| `pool` | 3 callers, 4 session objects, limit 2, warm-up asks for 3 | 49 297 | exclusive use, exhaustion only through ERROR, clients where states say so, and that `LimitedPool` and `CountedPool` are implemented |
| `pool_live` | 3 callers, 2 objects, limit 1 | 9 155 | `EveryCallerLeaves` |
| `pool_abandoned` | 2 callers, 3 objects, limit 2 | | violation: a session cut off in a transfer is reused |
| `breaker` | 4 calls, thresholds 3, 3, 3, cancellations | 6 894 | `StatesHoldGood` (five invariants of the circuit's states), `HalfOpenEnds`, `ClosesAfterRecovery` |
| `manager` | 2 callers, 2 known connections, pod limit 2, pool limit 2, warm-up 1 | 1 505 813 | permits of both levels, reachable pools, what `close_all` leaves, `NobodyStuck`, complete health checks, each pool a `CountedPool` |
| `manager_live` | 3 callers, 1 known and 1 unknown connection, pod limit 2, pool limit 1, both lookups | 82 713 | `EveryCallerLeaves` over two semaphores and the lock |
| `manager_acquire` | 1 caller, the code's lookup | | violation: `acquire` raises an `AttributeError` |
| `engine` | 3 tasks, 4 routes, 2 slots | 647 512 | counters, one outcome per task, truth of results, `BatchEnds` |
| `producer` | 2 sends, 1 retry | 51 518 | counters against outcomes and topics, pending tasks, `stop`, `WaitersReturn` |
| `pipeline` | 2 pods, 2 messages of 6 kinds, 2 retries, all eight faults | 1 698 674 | types, `UndecodableKept`, `InHandIsNext`, `RepeatNeedsFault`, `ImplementsPromise` |
| `pipeline_live` | 2 pods, 2 messages, failing connects, commits, results, dead letters | 63 851 | `EveryMessageCommitted` |
| `lifecycle` | 3 retries | 115 | exits, providers, readiness, `PhasesEnd` |

**Why these bounds.** *Pool:* three callers and a limit of two make one wait for a
permit while one connects and one transfers; two sessions can be full of errors
or be lost to a third caller; a warm-up that asks for more than the limit
exercises the clamp; four objects leave one free when the pool is full and one
is under way. In the liveness run a limit of one makes every caller depend on
the one before it, and one object more than the limit lets a session in ERROR,
or a failed connect, be followed by another. *Manager:* two known connections
give a dictionary that grows under a health check; two callers meet in one pool,
in two pools, at the pod's semaphore, on both sides of `close_all`, and as two
first callers of one connection. A pool limit of two lets one caller connect
under the pool's lock while the other waits for that lock, returns a session or
finds one on offer. The liveness run has the unknown connection, which fails
under both locks, and a pool limit of one with a pod limit of two, so that a
caller holds the pod's permit while it waits for the pool and a third waits for
the pod.
*Breaker:* four calls against a threshold of three let answers arrive from
before the circuit opened and from an earlier half-open period; `failures` and
`halfOpenCalls` are never compared with more than their thresholds, so they stop
there. `SuccessThreshold <= HalfOpenMaxCalls` is assumed of the instance: without
it the half-open state cannot be left (section 6). *Engine:* three tasks over
two slots make one wait; the four routes are a download, an upload and one for
each way of having no direction. *Producer:* two sends are one in a snapshot of
`flush` or `stop` and one created meanwhile, in every combination. *Pipeline:* two
pods are enough for any partition that moves, and two messages for a pod that
still has the first in hand when the other has committed both; two retries make
a counter that is reset differ from one that goes on, and separate "retried" from
"given up". The only bounds
that cut behaviour short are `MaxLength` (messages produced) in the pipeline and
the caps of the breaker's counters; the other models are finite by themselves,
and the proofs cover all other values.

**Deadlock** is checked in all runs but those of the pipeline, where all pods wait
for messages once the log has reached `MaxLength`. Where the program really ends
there is a stuttering action that says so: `Stopped`, `Over` and `Stay`.

**Symmetry** of callers, sessions and pods is used in the safety runs only; the
runs of liveness properties use none.

## 4. Fairness

* *Pool:* the loop runs what is ready and the server answers or the connection
  breaks (weak fairness of the ends of connects, transfers, probes and of
  `close_all` once it has the lock). `asyncio.Semaphore` and `asyncio.Lock` serve
  waiters first in, first out, hence strong fairness of `TakePermit` and
  `GetSession`. Nothing is assumed of timeouts, so liveness does not rest on
  them, and `close_all` need not be called.
* *Manager:* strong fairness of `Proceed` for each caller and of the steps of a
  `close_all` that has begun, for the same reason (two semaphores and two levels of
  locks, all first in, first out: `close_all` waits for the lock of each pool in
  the same queue as the callers). Again nothing of timeouts.
* *Breaker:* clocks advance, calls keep being made, and one that goes on running
  reports (all weak). A cancelled call does not report; `HalfOpenEnds` and
  `ClosesAfterRecovery` say so in their conclusions.
* *Engine:* tasks that can be admitted are, the timer of `asyncio.timeout` fires
  (which is why `EndTransfer` is fair although servers may be silent), and callbacks
  return, since `_send_with_retry` is bounded. Nobody has to cancel.
* *Producer:* each send goes on and ends in an answer or an error, and `flush` and
  `stop` go on when what they wait for has ended. No timeout has to happen.
* *Pipeline:* a pod that can go on does, the orchestrator restarts a pod that has
  exited, and the coordinator assigns an unowned partition (weak).
  `EveryMessageCommitted` also needs brokers that answer in the end: strong
  fairness of `Start`, `Commit` and `SendDeadLetter` (`BrokersRecover`), an
  assumption on the brokers: it includes that no dead letter is too large for its
  topic. A `poison` message before or at the one in question is excluded by the
  property itself, since no pod gets past it.
* *Lifecycle:* starting and stopping go on, a task in hand ends, a reconnect
  ends (weak). Strong fairness of `TaskYielded` says that the topic is never idle
  for ever. That is an assumption on the environment which the code needs: it
  looks at the shutdown event only when a task arrives (section 6).

## 5. Proofs

`tlapm` proves, with no step left open, for any finite set of callers, sessions,
tasks and sends, any connections and routes, any limits and thresholds, any set of
pods and faults:

| Module | Theorems | Obligations |
|---|---|---|
| `CountedPoolProofs` | `PromisesKept` | 381 |
| `SessionPoolProofs` | `TypeCorrect`, `PermitsCorrect`, `LockCorrect`, `UseCorrect`, `LimitCorrect`, `ExclusiveCorrect`, `ReconnectIsDead`, `IdleIsConnected`, `LeaksHaveOneCause`, `ClientsCorrect`, `ExhaustionHasOneCause`, `LimitedPoolImplemented`, `CountedPoolImplemented`, `CountsCorrect` | 1 582 |
| `PoolManagerProofs` | `InvCorrect`, `TypeCorrect`, `PermitsCorrect`, `ReachCorrect`, `UseCorrect`, `NobodyStuckCorrect`, `LeakCorrect`, `CheckCorrect`, `CountedPoolsImplemented` | 2 192 |
| `CircuitBreakerProofs` | `InvCorrect`, `TypeCorrect`, `ClosedCorrect`, `HalfOpenCorrect`, `SuccessCountCorrect`, `OpenCorrect`, `DecisionCorrect`, `StatesCorrect` | 215 |
| `TransferEngineProofs` | `InvCorrect`, `TypeCorrect`, `CountersCorrect`, `ToldCorrect`, `ResultCorrect` | 372 |
| `ResultProducerProofs` | `InvCorrect`, `TypeCorrect`, `PendingCorrect`, `StopCorrect`, `StatsCorrect` | 232 |
| `TaskPipelineProofs` | `InvCorrect`, `TypeCorrect`, `UndecodableCorrect`, `InHandCorrect`, `RepeatCorrect`, `PromiseKept` | 1 260 |
| `LifecycleProofs` | `InvCorrect`, `TypeCorrect`, `ExitCorrect`, `ProvidersCorrect`, `ReadyCorrect` | 330 |

The assumptions are those the modules declare: sets of actors are finite where
they are counted, limits and thresholds are at least 1, retries and warm-up at
least 0, as `config/settings.py` requires. Every safety property that a passing
run checks is proved, all four refinements and the action properties
`CheckIsComplete` and `RepeatNeedsFault` included.

**A pool in numbers.** `CountedPool` is the joint between two models that cannot
be checked together. `CountedPoolImplemented` says that `SessionPool` (sessions
with states, clients and probes, one pool) shows nothing else, and
`CountedPoolsImplemented` that every pool object of `PoolManager` (several pools, the
pod's semaphore, two epochs) is one at every step: both keep to one contract, and
what follows from it holds of both. `PromisesKept` is proved of `CountedPool`
itself: `Balanced`, `RoomKept` and `OfferedOnce` are inductive together,
`StarvedByBroken` follows from them by counting. `CountsCorrect` draws the
conclusion for `SessionPool` by citing `PromisesKept` under the refinement
mapping; for the pools of the manager the same step would need a theorem of an
instance with a parameter, which this version of the prover does not handle, and
`PermitsAccounted` and `UseIsListed` are proved there directly.

**The pool** is proved in layers, each inductive given those below it:

1. `TypeOK` with `Located`: a caller has a session exactly while it connects or
   transfers.
2. `PermitsAccounted`: counting holders as they come and go.
3. `WarmUpFirst` and `LockHeld`: warm-up has the pool for itself; afterwards the
   lock has one owner, either the one caller that connects or `close_all`.
4. `StatesMeanUse` and `ListedHaveClient`: what a session's state tells about
   who uses it. This is the heart of the argument: `WithinLimit`, `Exclusive`,
   `IdleHasClient` and `NothingToReconnect` are not inductive by themselves,
   because the code decides by a session's state and acts after an await.
5. `RoomLeft`: the sessions listed and those being connected fit in the limit.
6. `ClientsListed`: a client that is open on a session in no list and in nobody's
   hands belongs to a session that is still DISCONNECTED, because its `connect()`
   was cut off. A caller that lost its session to `close_all` has no client either,
   and a session that is being connected is in that state: without these the
   claim is not inductive. `ClientsCorrect` joins it with what layer 4 gives.

`ExhaustedOnlyByErrors` then follows by counting: when every session listed is in
use, the users alone hold as many permits as there are, so no caller without a
session can hold one. `LimitedPoolImplemented` maps every action to a step of
`LimitedPool` or a stutter: the guards of the abstract steps (the session is lent
to nobody, fewer than `MaxSessions` are lent, there is room in the list) are what
layers 2, 4 and 5 establish.

**The manager.** `Outer` and `Inner` are the types without the upper bounds of the
counters. `Order` relates phases and epochs (no caller and no `close_all` during warm-up, a
pool object of epoch 1 only after `close_all`), `PoolsReachable` is inductive with
it, `LeaksLater` says where sessions can still be open before, during and after a
`close_all` that no caller overlaps, `PodPermitsAccounted` and `PoolPermitsAccounted` count the
holders of each level, `UseIsListed` says that sessions on offer and in use are
among those listed, `OneConnects` that one caller at most connects in a pool and
that the pool has room for its session, and `CheckReads` that a running check has read a beginning of
the dictionary. The upper bounds in `TypeOK` follow from the counts.
`NobodyStuckCorrect` is a case split along the order in which a caller takes what
it needs: whoever uses or connects can go on; if nobody does, every pool's lock is
free, so those at it can; if nobody is at a lock, the permits of the pools are back,
and so on up to the pod's semaphore.

**The breaker** needs the relation between the calls let through and the calls
counted in a half-open period: `before_call` leaves the first call uncounted but
compares after counting, and the two cancel out. `DecisionCorrect` adds
`ProbesAnswered`: the calls of a half-open period have been answered or cancelled
or are running, so that a period with no call running and no cancellation has as
many answers as `half_open_max_calls`, which decide it.

**The engine.** `Outcome` says what the place of a task tells about its result and
its destination; `ToldOnce` and `ResultTellsWritten` are inductive with it. The
counters are proved apart, by following how one task's move changes the sets they
count (`CountsFollow`).

**The result producer.** Neither `PendingTracksTasks` nor `StopWaitsForTasks` is
inductive: `WaitersSnapshot` adds what a waiting `flush` or `stop` knows about the
tasks, and `ClosedIsDrained` what remains of that when `stop` has gone on.
`StatsCorrect` needs `StatsInv`, that an acknowledged send is on its topic, and
counts how many sends have ended in each way.

**The pipeline** rests on `SettledPrefix` (everything committed is settled and at
most one more is), `OwnersPosition` (what a commit of the owner would record) and
`CommittingSettled` (a message is settled before it is committed), besides the
types and `MembersConnected`. `OwnersPosition` is what makes the commit without
arguments safe: a pod that lost the partition records nothing, and one that got
it back has a position equal to the committed offset. `PromiseKept` is a
refinement: each action is mapped to a step of `AtLeastOnce` or to a stutter, by
`SettlesOne` and `CommitsOne`. `UndecodableCorrect` follows from what
`CommittingSettled` says of the message about to be committed: it is no `poison`,
and if it is `undecodable` the queue has its dead letter. That rests on `InHand`,
which ties the place of a pod to the kind of its message; `unsendable` messages
are not spoken of, since the code commits them without a dead letter.

`RepeatNeedsFault` is an action property: it looks at the step in which a pod takes
a message in hand. `RepeatCorrect` rests on `FirstHand`: a pod whose message no
fault has struck owns the partition, has read up to that message, and it is the
one after the committed ones; and a message that is settled but not committed is
in the hand of a pod, unless it was struck. `TakesNext` says that a message taken
in hand is the one after the committed ones, and `RepeatStep` draws the
conclusion: if it is settled or in another hand, and unstruck, that other pod owns
the partition, and only the owner polls. `struck` is a history variable: the
uncommitted messages that a pod had in hand when it crashed, lost the partition,
failed to commit, or gave up the send of the dead letter of an undecodable message,
which the queue may have nevertheless and which is sent again.

**The life of a pod.** What is up depends on where `run_forever` is, which `Stage`
spells out; `Flags` does so for `_running` and the API, and `Ways` lists in which
ways a process can have ended.

Proved but listed in no run: `WithinLimit` (which `LimitedPool` implies),
`PermitsAccounted` of the pool (which `CountedPool` implies), `UseIsListed` of the
manager, and the promises of `CountedPool`.

**Only model-checked:** the liveness properties, which are out of the prover's
reach, and the two violations.

## 6. Where the code and its documentation differ

Shown by runs: `acquire` raising what its docstring does not list, since
`CircuitBreakerRegistry.get` does not exist (`manager_acquire`), and a failed
transfer's session becoming ERROR (`pool_abandoned`).

Seen in the models or while reading, without a run:

*Pools and sessions*

* "Should not happen with semaphore" (`manager.py:115`) of a permit holder that
  finds no session: sessions in ERROR stay in the list and fill the pool.
  `ExhaustedOnlyByErrors` says that this is the only cause.
* `docs/ARCHITECTURE.md:257` draws ERROR to IDLE; no code takes a session out of
  ERROR while the pool is open. `ReconnectIsDead` proves that the branch meant
  for reconnecting never runs.
* A warm-up that times out reports 0 created sessions (`manager.py:236`) although
  it may have appended some.
* `docs/ARCHITECTURE.md:449` limits a pod to 100 sessions in total. The pod's
  semaphore (`manager.py:371`) limits callers: warmed-up sessions and idle
  sessions of other pools are not counted. `PodPermitsAccounted` is what holds.
* Besides the missing `get`, `acquire` does not await the breaker's coroutines, so
  they never run, and raises `CircuitBreakerOpenError` with one of its two
  arguments. `get_stats` calls `get_all_stats`, where the registry has
  `get_all_states` (`manager.py:499`).
* A caller that has its pool when `close_all` begins may open a session in a pool
  that nobody closes any more. `LeakNeedsOverlap` says that nobody else can; the
  application stops the consumer first, so in it there is no such caller.

*Circuit breaker*

* `can_execute`, which `acquire` asks, does not count calls: with it alone,
  `half_open_max_calls` limits nothing (`docs/ANALYSIS_REPORT.md:545`: the
  greatest number of attempts while half-open). The module and its theorem are about
  `before_call`.
* A half-open circuit counts late successes of calls admitted before it opened
  (`circuit_breaker.py:134`), so it may close without `success_threshold` probes.
* Cancelled probes report nothing (`manager.py:378`), so a half-open period whose
  calls were all cancelled never ends; so does one with a `success_threshold`
  larger than `half_open_max_calls`, which the settings allow.

*Transfers and results*

* A result for every task (`README.md:83` of the repository): a result whose send
  fails for good is logged and its task committed (`engine.py:101`).
* `README.md:451` of the repository gives FILE_NOT_FOUND for a source that does not
  exist; a download of a missing remote file is an IO_ERROR. An unknown
  connection is an UNKNOWN_ERROR, and TRANSFER_TIMEOUT is missing from that
  table.
* `flush` reports how many sends are left as the difference of two sizes of the
  set (`producer.py:186`), not the sends that were cancelled.
* A `task_id` that is not a string makes `task_id.encode` fail after the
  transfer; the result is lost (`producer.py:289`).

*Messages that are no tasks*

* No message is to be lost (`docs/ANALYSIS_REPORT.md:434`, of the dead letter
  queue). An undecodable or malformed message whose key is not UTF-8 is:
  `DLQMessage.to_dict` raises a `UnicodeDecodeError` (`dlq.py:84`), which is a
  `ValueError`; `_parse_message` catches it (`consumer.py:303`), tries once more,
  logs that failure (`consumer.py:315`), and the message is committed
  (`consumer.py:367`). `UndecodableKept` is stated of the others.
* A malformed message whose dead letter fails for good is committed as well, an
  undecodable one is not: only the send at `consumer.py:291` is outside the inner
  `try`, and `except` at line 303 lists no `KafkaError`.
* `from_dict` documents a `ValueError` (`models.py:51`). A JSON list, or a JSON text
  that itself holds one or another text, passes `field_name not in data`
  (`models.py:55`) if it contains the four names, and has no `get`
  (`models.py:59`). The `AttributeError` passes `consumer.py:303` and `:380`, the
  process ends, and the pod that is started next meets the message again: nothing
  after it on its partition is ever handled. `EveryMessageCommitted` is stated of
  the messages before it.
* The dead letter of an undecodable message may be in the queue twice without any
  crash: its last attempt may have been recorded although it raised, and then the
  message is read again (`consumer.py:291`). `RepeatNeedsFault` counts that as a
  fault.

*Consumer and dead letters*

* `consume()` is said to raise after its retries (`consumer.py:332`); a commit that
  keeps failing is retried for ever, because the delivery of the message in
  between resets the counter.
* A malformed message whose dead letter cannot be sent is committed and lost
  (`consumer.py:315`).
* The dead letter of an undecodable message holds `str(None)` (`dlq.py:251`), and
  `dlq.py:53` promises the raw bytes.
* `consume_batch` commits a batch before any of its tasks is executed
  (`consumer.py:472`).
* A `start()` of the consumer that fails leaves `_consumer` set, so that a second
  one would return at once (`consumer.py:185`).

*Application*

* It is said to run until the signal (`main.py:237`); the event is looked at only
  when a task arrives (`main.py:186`), so on an idle topic a signal is not acted
  on.
* A start that fails leaves what was started before it running until the process
  exits: `stop()` is not called, and would return at once.
* An API task that has failed makes the `finally` clause of `run_forever` raise
  before `stop()` (`main.py:254`).

## 7. What is not modelled

* `consume_batch` and `run` of the consumer, which the application does not use,
  and its lag statistics.
* The contents of dead letters, results and files; paths; transfer sizes,
  durations, byte counters and backoff lengths.
* Several partitions: they share only the retry counter and the commit call, and
  one message is in hand at a time.
* `CircuitBreakerRegistry.get_breaker`: nothing in the application calls it, and
  the call meant for it fails.
* Parsing of the INI and YAML files, of which the models keep the lookups, the
  bounds of the values and that loading may fail.
* Operations that only read (`get_stats`, `/stats`, `/pool/stats`) or answer a
  constant (`/health`, `/live`); metrics and logging.
* What becomes of a connection that a cancelled `connect()` leaves open on an object
  nobody refers to (`session.py:81`). `OnlyCutOffLeaks` says that nothing else leaks.

## 8. What could come next

1. `consume_batch` as a variant of the pipeline. Its commit comes before its
   tasks are executed, so it implements at-most-once and not `AtLeastOnce`.
2. `ToldOnce` and the outcome of `TransferEngine` as a refinement of an abstract
   execution that `TaskPipeline` uses, as `CountedPool` does for the pools.
3. `CircuitBreakerRegistry` and the breaker in `PoolManager`, once `acquire` reaches
   a breaker: two first callers of a connection must not get two breakers, and
   the half-open limit must hold for callers of `can_execute` or give way to
   `before_call`.
