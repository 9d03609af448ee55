--------------------------- MODULE ResultProducer ---------------------------
(***************************************************************************)
(* ResultProducer (kafka/producer.py): sends that a caller waits for, sends*)
(* that run as tasks of their own (send_result with wait=False, send_batch)*)
(* and the two calls that wait for those, flush and stop.  The code between*)
(* two awaits is one action.                                               *)
(*                                                                         *)
(* External: the AIOKafkaProducer and its brokers, which accept a record or*)
(* raise KafkaError, also for a record they have accepted; and asyncio,    *)
(* which runs the done callback of a task after the task has ended, and    *)
(* before a gather that waits for the task goes on.                        *)
(***************************************************************************)
EXTENDS Integers, FiniteSets

CONSTANTS
  Sends,      \* results to be sent, one call of _send_with_retry each
  MaxRetries  \* KafkaSettings.max_retries

ASSUME SendsAssumption == IsFiniteSet(Sends)
\* config/settings.py: Field(default=5, ge=0).
ASSUME MaxRetriesAssumption == MaxRetries \in Nat

VARIABLES
  client,      \* _producer: None ("none", "closed") or a client and its phase
  connects,    \* retry_count of start()
  pc,          \* where each send is, or how it ended
  retries,     \* its retry_count
  tasks,       \* sends that run as tasks of their own
  pending,     \* _pending_tasks
  callbacks,   \* ended tasks whose _task_done_callback has yet to run
  cancelling,  \* tasks asked to cancel that have not noticed yet
  topic,       \* results the brokers have accepted
  sent,        \* _results_sent + _failures_sent
  errors,      \* _send_errors
  stopper,     \* what stop() is doing
  drain,       \* the tasks it waits for
  flusher,     \* what flush() is doing
  flushing,    \* the tasks it waits for
  overlapped   \* history: tasks created while flush() or stop() was waiting

waiters == << stopper, drain, flusher, flushing >>
counters == << sent, errors >>
vars == << client, connects, pc, retries, tasks, pending, callbacks, cancelling,
           topic, counters, waiters, overlapped >>

Client  == {"none", "connecting", "unstarted", "started", "closing", "closed"}
Running == {"scheduled", "sending", "acked", "backoff"}
Ended   == {"sent", "failed", "cancelled", "broken", "refused"}

TypeOK ==
  /\ client \in Client
  /\ connects \in 0..MaxRetries
  /\ pc \in [Sends -> {"new"} \cup Running \cup Ended]
  /\ retries \in [Sends -> 0..MaxRetries]
  /\ pending \subseteq tasks /\ tasks \subseteq Sends
  /\ callbacks \subseteq tasks /\ cancelling \subseteq tasks
  /\ topic \subseteq Sends
  /\ sent \in Nat /\ errors \in Nat
  /\ stopper \in {"idle", "draining", "closing"} /\ drain \subseteq tasks
  /\ flusher \in {"idle", "waiting", "timed_out"} /\ flushing \subseteq tasks
  /\ overlapped \subseteq tasks

Init ==
  /\ client = "none" /\ connects = 0
  /\ pc = [s \in Sends |-> "new"]
  /\ retries = [s \in Sends |-> 0]
  /\ tasks = {} /\ pending = {} /\ callbacks = {} /\ cancelling = {}
  /\ topic = {}
  /\ sent = 0 /\ errors = 0
  /\ stopper = "idle" /\ drain = {}
  /\ flusher = "idle" /\ flushing = {}
  /\ overlapped = {}

-----------------------------------------------------------------------------
(* start                                                                    *)

sending == << pc, retries, tasks, pending, callbacks, cancelling, topic, counters,
              overlapped >>

Connect ==
  /\ client = "none"
  /\ client' = "connecting"
  /\ UNCHANGED << connects, sending, waiters >>

Started ==
  /\ client = "connecting"
  /\ client' = "started"
  /\ UNCHANGED << connects, sending, waiters >>

\* A KafkaError: back off and try again with a new client, or raise and leave
\* the client that did not start in _producer.
ConnectFailed ==
  /\ client = "connecting"
  /\ IF connects < MaxRetries
     THEN connects' = connects + 1 /\ UNCHANGED client
     ELSE client' = "unstarted" /\ UNCHANGED connects
  /\ UNCHANGED << sending, waiters >>

-----------------------------------------------------------------------------
(* send_result and send_batch: callers have waited for start()              *)

Goto(s, to) == pc' = [pc EXCEPT ![s] = to]

\* The coroutine of s ends; if it is a task, its callback is scheduled.
Finish(s, how) ==
  /\ Goto(s, how)
  /\ callbacks' = callbacks \cup ({s} \cap tasks)
  /\ cancelling' = cancelling \ {s}

\* RuntimeError("Producer is not started").
Refuse(s) ==
  /\ client \in {"none", "closed"}
  /\ pc[s] = "new"
  /\ Goto(s, "refused")
  /\ UNCHANGED << client, connects, retries, tasks, pending, callbacks, cancelling,
                  topic, counters, waiters, overlapped >>

\* wait=False for one result, send_batch for a list of them.
CreateTasks(S) ==
  /\ client \in {"started", "closing"}
  /\ S # {} /\ \A s \in S : pc[s] = "new"
  /\ pc' = [s \in Sends |-> IF s \in S THEN "scheduled" ELSE pc[s]]
  /\ tasks' = tasks \cup S
  /\ pending' = pending \cup S
  /\ overlapped' = IF stopper = "idle" /\ flusher = "idle" THEN overlapped
                                                          ELSE overlapped \cup S
  /\ UNCHANGED << client, connects, retries, callbacks, cancelling, topic, counters,
                  waiters >>

\* Mutant: the task is discarded when it starts to send.
TaskDoneEarly(s) ==
  /\ s \in callbacks \/ (s \in pending /\ pc[s] = "sending")
  /\ callbacks' = callbacks \ {s}
  /\ pending' = pending \ {s}
  /\ UNCHANGED << client, connects, pc, retries, tasks, cancelling, topic, counters,
                  waiters, overlapped >>

\* _task_done_callback.
TaskDone(s) ==
  /\ s \in callbacks
  /\ callbacks' = callbacks \ {s}
  /\ pending' = pending \ {s}
  /\ UNCHANGED << client, connects, pc, retries, tasks, cancelling, topic, counters,
                  waiters, overlapped >>

-----------------------------------------------------------------------------
(* _send_with_retry                                                         *)

Attempt(s) ==
  /\ pc[s] \in {"scheduled", "backoff"} /\ s \notin cancelling
  /\ client = "started"
  /\ Goto(s, "sending")
  /\ UNCHANGED << client, connects, retries, tasks, pending, callbacks, cancelling,
                  topic, counters, waiters, overlapped >>

\* Mutant: the last KafkaError is retried as well.
KafkaErrorAlwaysRetried(s) ==
  /\ Goto(s, "backoff")
  /\ UNCHANGED << retries, callbacks, cancelling, errors >>

\* Mutant: the count is compared before it is incremented.
KafkaErrorOnceMore(s) ==
  IF retries[s] <= MaxRetries
  THEN /\ retries' = [retries EXCEPT ![s] = @ + 1]
       /\ Goto(s, "backoff")
       /\ UNCHANGED << callbacks, cancelling, errors >>
  ELSE /\ errors' = errors + 1
       /\ Finish(s, "failed")
       /\ UNCHANGED retries

\* The "except KafkaError" clause.
KafkaError(s) ==
  IF retries[s] < MaxRetries
  THEN /\ retries' = [retries EXCEPT ![s] = @ + 1]
       /\ Goto(s, "backoff")
       /\ UNCHANGED << callbacks, cancelling, errors >>
  ELSE /\ errors' = errors + 1
       /\ Finish(s, "failed")
       /\ UNCHANGED retries

\* wait=True: the caller runs _send_with_retry itself, up to its first await.  A
\* client that is being stopped raises ProducerClosed, a KafkaError.
SendWaiting(s) ==
  /\ pc[s] = "new"
  /\ \/ /\ client = "started"
        /\ Goto(s, "sending")
        /\ UNCHANGED << retries, callbacks, cancelling, errors >>
     \/ /\ client = "closing"
        /\ KafkaError(s)
  /\ UNCHANGED << client, connects, tasks, pending, topic, sent, waiters, overlapped >>

\* So it does for a task that comes to an attempt.
AttemptClosing(s) ==
  /\ pc[s] \in {"scheduled", "backoff"} /\ s \notin cancelling
  /\ client = "closing"
  /\ KafkaError(s)
  /\ UNCHANGED << client, connects, tasks, pending, topic, sent, waiters, overlapped >>

\* _producer is None: an AttributeError, which is no KafkaError.
AttemptClosed(s) ==
  /\ pc[s] \in {"scheduled", "backoff"} /\ s \notin cancelling
  /\ client = "closed"
  /\ Finish(s, "broken")
  /\ UNCHANGED << client, connects, retries, tasks, pending, topic, counters,
                  waiters, overlapped >>

\* The record is accepted; the coroutine has yet to see it.
Acknowledge(s) ==
  /\ pc[s] = "sending"
  /\ topic' = topic \cup {s}
  /\ Goto(s, "acked")
  /\ UNCHANGED << client, connects, retries, tasks, pending, callbacks, cancelling,
                  counters, waiters, overlapped >>

\* An attempt that raises may have been accepted all the same.
AttemptFailed(s) ==
  /\ pc[s] = "sending" /\ s \notin cancelling
  /\ topic' \in {topic, topic \cup {s}}
  /\ KafkaError(s)
  /\ UNCHANGED << client, connects, tasks, pending, sent, waiters, overlapped >>

\* Mutant: the attempt is counted whatever has become of it.
CountUnseen(s) ==
  /\ pc[s] \in {"sending", "acked"} /\ s \notin cancelling
  /\ sent' = sent + 1
  /\ Finish(s, "sent")
  /\ UNCHANGED << client, connects, retries, tasks, pending, topic, errors, waiters,
                  overlapped >>

Count(s) ==
  /\ pc[s] = "acked" /\ s \notin cancelling
  /\ sent' = sent + 1
  /\ Finish(s, "sent")
  /\ UNCHANGED << client, connects, retries, tasks, pending, topic, errors, waiters,
                  overlapped >>

\* The CancelledError of a flush that timed out passes every except clause,
\* whether or not the record is on its way or accepted.
Cancelled(s) ==
  /\ s \in cancelling
  /\ topic' \in IF pc[s] = "sending" THEN {topic, topic \cup {s}} ELSE {topic}
  /\ Finish(s, "cancelled")
  /\ UNCHANGED << client, connects, retries, tasks, pending, counters, waiters,
                  overlapped >>

-----------------------------------------------------------------------------
(* flush and stop                                                           *)

\* What a gather of the tasks S waits for.
Gathered(S) == \A s \in S : pc[s] \in Ended /\ s \notin callbacks

Flush ==
  /\ flusher = "idle"
  /\ pending # {}
  /\ flusher' = "waiting"
  /\ flushing' = pending
  /\ UNCHANGED << client, connects, sending, stopper, drain >>

\* wait_for cancels the gather, and so its tasks, and waits for their ends.
FlushTimesOut ==
  /\ flusher = "waiting"
  /\ ~Gathered(flushing)
  /\ flusher' = "timed_out"
  /\ cancelling' = cancelling \cup {s \in flushing : pc[s] \in Running}
  /\ UNCHANGED << client, connects, pc, retries, tasks, pending, callbacks, topic,
                  counters, stopper, drain, flushing, overlapped >>

FlushReturns ==
  /\ flusher # "idle"
  /\ Gathered(flushing)
  /\ pending' = {}
  /\ flusher' = "idle"
  /\ flushing' = {}
  /\ UNCHANGED << client, connects, pc, retries, tasks, callbacks, cancelling, topic,
                  counters, stopper, drain, overlapped >>

\* Mutant: the tasks are cleared without being waited for.
StopUndrained ==
  /\ stopper = "idle"
  /\ client \in {"unstarted", "started"}
  /\ pending' = {}
  /\ stopper' = "closing" /\ client' = "closing" /\ UNCHANGED drain
  /\ UNCHANGED << connects, pc, retries, tasks, callbacks, cancelling, topic, counters,
                  flusher, flushing, overlapped >>

Stop ==
  /\ stopper = "idle"
  /\ client \in {"unstarted", "started"}
  /\ IF pending # {}
     THEN stopper' = "draining" /\ drain' = pending /\ UNCHANGED client
     ELSE stopper' = "closing" /\ client' = "closing" /\ UNCHANGED drain
  /\ UNCHANGED << connects, sending, flusher, flushing >>

StopDrained ==
  /\ stopper = "draining"
  /\ Gathered(drain)
  /\ pending' = {}
  /\ drain' = {}
  /\ stopper' = "closing" /\ client' = "closing"
  /\ UNCHANGED << connects, pc, retries, tasks, callbacks, cancelling, topic, counters,
                  flusher, flushing, overlapped >>

StopClosed ==
  /\ stopper = "closing"
  /\ stopper' = "idle" /\ client' = "closed"
  /\ UNCHANGED << connects, sending, drain, flusher, flushing >>

-----------------------------------------------------------------------------
\* What the coroutine of s, its brokers and its callback do.
Own(s) ==
  \/ Attempt(s) \/ AttemptClosing(s) \/ AttemptClosed(s)
  \/ Acknowledge(s) \/ AttemptFailed(s) \/ Count(s) \/ Cancelled(s)
  \/ TaskDone(s)

StopGoesOn == StopDrained \/ StopClosed

\* The process has ended.
Over ==
  /\ client = "closed" /\ stopper = "idle" /\ flusher = "idle"
  /\ Gathered(Sends)
  /\ UNCHANGED vars

Next ==
  \/ Connect \/ Started \/ ConnectFailed
  \/ \E s \in Sends : Refuse(s) \/ SendWaiting(s) \/ Own(s)
  \/ \E S \in SUBSET Sends : CreateTasks(S)
  \/ Flush \/ FlushTimesOut \/ FlushReturns
  \/ Stop \/ StopGoesOn
  \/ Over

Spec == Init /\ [][Next]_vars

\* The loop runs what is ready, and a call of the client ends in an answer or an
\* error.  Nobody has to send, flush or stop, and no timeout has to happen.
Fairness ==
  /\ \A s \in Sends : WF_vars(Own(s))
  /\ WF_vars(FlushReturns) /\ WF_vars(StopGoesOn)

FairSpec == Spec /\ Fairness

-----------------------------------------------------------------------------
(* Safety                                                                   *)

EndedAs(how) == {s \in Sends : pc[s] = how}

\* get_stats counts every send once by its outcome, although attempts fail late,
\* are repeated and are cancelled (_send_with_retry): as sent only if a topic has
\* its result, as an error only if every attempt raised, and a cancelled one not
\* at all, whatever the brokers have made of it.
StatsAgree ==
  /\ sent = Cardinality(EndedAs("sent")) /\ EndedAs("sent") \subseteq topic
  /\ errors = Cardinality(EndedAs("failed"))
  /\ \A s \in EndedAs("failed") : retries[s] = MaxRetries

\* A task that still runs is in _pending_tasks, where flush and stop find it.
\* Only a task created while one of them was waiting may be missing: both clear
\* the set after the wait, not the tasks they have waited for.
PendingTracksTasks ==
  \A s \in tasks : pc[s] \in Running => s \in pending \cup overlapped

\* When stop() has let go of the client, no task is left to find that
\* _producer is None, but for those of the last comment.
StopWaitsForTasks ==
  client = "closed" =>
    \A s \in tasks \ overlapped : pc[s] \in Ended \ {"broken"}

-----------------------------------------------------------------------------
(* Liveness                                                                 *)

\* flush() and stop() return, however many attempts fail and whatever is sent
\* meanwhile, with or without the timeout.
WaitersReturn ==
  /\ flusher # "idle" ~> flusher = "idle"
  /\ stopper # "idle" ~> stopper = "idle"

=============================================================================
