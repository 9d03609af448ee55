---------------------------- MODULE TaskPipeline ----------------------------
(***************************************************************************)
(* The pods of one consumer group on one partition of the task topic:      *)
(* Application.run (main.py) over TaskConsumer.consume (kafka/consumer.py),*)
(* TransferEngine.execute, and the sends to the result topics and to the   *)
(* dead letter queue.  A pod works on one message at a time; pods overlap  *)
(* when the partition moves while a message is in hand.                    *)
(*                                                                         *)
(* The brokers are external: the log, the committed offset, the owner of   *)
(* the partition, and which calls raise KafkaError.  Faults names the      *)
(* failures a run allows.                                                  *)
(***************************************************************************)
EXTENDS Naturals, Sequences

CONSTANTS
  Workers,     \* the pods (k8s/statefulset.yaml: replicas)
  NoWorker,
  MaxLength,   \* bound: messages produced to the partition
  MaxRetries,  \* KafkaSettings.max_retries
  Faults       \* what may go wrong in this run

ASSUME WorkersAssumption == NoWorker \notin Workers
ASSUME MaxLengthAssumption == MaxLength \in Nat
\* config/settings.py: Field(default=5, ge=0).
ASSUME MaxRetriesAssumption == MaxRetries \in Nat
ASSUME FaultsAssumption ==
  Faults \subseteq {"connect", "poll", "commit", "result", "dead_letter",
                    "rebalance", "crash", "signal"}

\* What a message turns out to be:
\*   "task"          a task whose result can be sent;
\*   "unanswerable"  a task whose task_id has no encode(): building the send of
\*                   its result raises;
\*   "undecodable"   _safe_json_deserialize gives None;
\*   "malformed"     from_dict rejects it with a ValueError or TypeError;
\*   "unsendable"    one of the two above of which no dead letter can be built:
\*                   its key is not UTF-8, or its value does not encode;
\*   "poison"        _parse_message raises what neither it nor consume() catches:
\*                   JSON text or a JSON list that contains the four field names
\*                   passes the check of from_dict and has no get().
Kind == {"task", "unanswerable", "undecodable", "malformed", "unsendable", "poison"}

VARIABLES
  log,          \* the partition: the kind of each message
  committed,    \* the group's committed offset: messages 1..committed
  owner,        \* the pod the partition is assigned to
  position,     \* messages its consumer has handed out since the assignment
  pc,           \* where each pod is
  connected,    \* _consumer is started
  msg,          \* message in hand, 0 when there is none
  retries,      \* retry_count of consume() (of start() while starting)
  sends,        \* retry_count of the send in progress
  shutdown,     \* _shutdown_event
  published,    \* messages of which a result topic has a result
  deadLetters,  \* messages of which the dead letter queue has a record
  lost,         \* messages given up with no more than an error in the log
  struck        \* history: uncommitted messages in hand of a pod when it crashed,
                \* lost the partition, failed to commit, or gave up the send of the
                \* dead letter it may not do without

worker == << pc, connected, msg, retries, sends, shutdown >>
told == << published, deadLetters, lost >>
outcome == << told, struck >>
vars == << log, committed, owner, position, worker, outcome >>

Messages == 1..Len(log)

Settled == published \cup deadLetters \cup lost

Busy == {"executing", "publishing", "deadLettering", "committing"}
PC == Busy \cup {"stopped", "starting", "polling", "backoff", "stopping"}

TypeOK ==
  /\ log \in Seq(Kind)
  /\ committed \in Nat
  /\ owner \in Workers \cup {NoWorker}
  /\ position \in Nat
  /\ pc \in [Workers -> PC]
  /\ connected \in [Workers -> BOOLEAN]
  /\ msg \in [Workers -> Nat]
  /\ retries \in [Workers -> 0..MaxRetries]
  /\ sends \in [Workers -> 0..MaxRetries]
  /\ shutdown \in [Workers -> BOOLEAN]
  /\ published \subseteq Nat
  /\ deadLetters \subseteq Nat
  /\ lost \subseteq Nat
  /\ struck \subseteq Nat

Init ==
  /\ log = << >> /\ committed = 0
  /\ owner = NoWorker /\ position = 0
  /\ pc = [w \in Workers |-> "stopped"]
  /\ connected = [w \in Workers |-> FALSE]
  /\ msg = [w \in Workers |-> 0]
  /\ retries = [w \in Workers |-> 0]
  /\ sends = [w \in Workers |-> 0]
  /\ shutdown = [w \in Workers |-> FALSE]
  /\ published = {} /\ deadLetters = {} /\ lost = {} /\ struck = {}

Goto(w, to) == pc' = [pc EXCEPT ![w] = to]

\* Member w leaves the group.
Leave(w) == owner' = IF owner = w THEN NoWorker ELSE owner

\* A fault hits the pods in S while they have messages in hand that are not yet
\* committed.
Strike(S) == struck' = struck \cup ({msg[w] : w \in S} \ 0..committed)

-----------------------------------------------------------------------------
(* The brokers and the orchestrator: external                               *)

Produce ==
  /\ Len(log) < MaxLength
  /\ \E k \in Kind : log' = Append(log, k)
  /\ UNCHANGED << committed, owner, position, worker, outcome >>

\* Mutant: the member that gets the partition keeps the position it finds.
AssignUnsought(w) ==
  /\ connected[w]
  /\ owner # w
  /\ owner = NoWorker \/ "rebalance" \in Faults
  /\ owner' = w
  /\ Strike({owner} \cap Workers)
  /\ UNCHANGED << log, committed, position, worker, told >>

\* The coordinator gives the partition to a member, which reads on from the
\* committed offset.  A pod that loses it this way is not interrupted.
Assign(w) ==
  /\ connected[w]
  /\ owner # w
  /\ owner = NoWorker \/ "rebalance" \in Faults
  /\ owner' = w
  /\ position' = committed
  /\ Strike({owner} \cap Workers)
  /\ UNCHANGED << log, committed, worker, told >>

Launch(w) ==
  /\ pc[w] = "stopped"
  /\ Goto(w, "starting")
  /\ UNCHANGED << log, committed, owner, position, connected, msg, retries, sends,
                  shutdown, outcome >>

\* The handlers are set before the consumer starts (Application.start).
Signal(w) ==
  /\ "signal" \in Faults
  /\ pc[w] # "stopped"
  /\ shutdown' = [shutdown EXCEPT ![w] = TRUE]
  /\ UNCHANGED << log, committed, owner, position, pc, connected, msg, retries,
                  sends, outcome >>

\* The process of w is gone, with everything it kept in memory.
Exit(w) ==
  /\ Goto(w, "stopped")
  /\ Leave(w)
  /\ connected' = [connected EXCEPT ![w] = FALSE]
  /\ msg' = [msg EXCEPT ![w] = 0]
  /\ retries' = [retries EXCEPT ![w] = 0]
  /\ sends' = [sends EXCEPT ![w] = 0]
  /\ shutdown' = [shutdown EXCEPT ![w] = FALSE]
  /\ UNCHANGED << log, committed, position, told >>

Crash(w) ==
  /\ "crash" \in Faults
  /\ pc[w] # "stopped"
  /\ Exit(w)
  /\ Strike({w})

-----------------------------------------------------------------------------
(* TaskConsumer.start                                                       *)

Start(w) ==
  /\ pc[w] = "starting"
  /\ Goto(w, "polling")
  /\ connected' = [connected EXCEPT ![w] = TRUE]
  /\ retries' = [retries EXCEPT ![w] = 0]
  /\ UNCHANGED << log, committed, owner, position, msg, sends, shutdown, outcome >>

StartRetried(w) ==
  /\ "connect" \in Faults
  /\ pc[w] = "starting"
  /\ retries[w] < MaxRetries
  /\ retries' = [retries EXCEPT ![w] = @ + 1]
  /\ UNCHANGED << log, committed, owner, position, pc, connected, msg, sends,
                  shutdown, outcome >>

\* start() raises, and run_forever with it: the process exits.
StartFailed(w) ==
  /\ "connect" \in Faults
  /\ pc[w] = "starting"
  /\ retries[w] = MaxRetries
  /\ Exit(w)
  /\ UNCHANGED struck

-----------------------------------------------------------------------------
(* TaskConsumer.consume and Application.run                                 *)

Deliver(w, m, to) ==
  /\ Goto(w, to)
  /\ msg' = [msg EXCEPT ![w] = m]
  /\ retries' = [retries EXCEPT ![w] = 0]
  /\ sends' = [sends EXCEPT ![w] = 0]
  /\ position' = m
  /\ UNCHANGED << log, committed, owner, connected, shutdown, outcome >>

\* The next message comes out of the iterator of w.
Poll(w, kinds) ==
  /\ pc[w] = "polling" /\ connected[w] /\ owner = w
  /\ position < Len(log)
  /\ log[position + 1] \in kinds

\* A task is yielded to run(), which leaves the loop if the signal has come.
PollTask(w) ==
  /\ Poll(w, {"task", "unanswerable"})
  /\ Deliver(w, position + 1, IF shutdown[w] THEN "stopping" ELSE "executing")

\* What _parse_message rejects goes to the dead letter queue and is not yielded.
PollOther(w) ==
  /\ Poll(w, {"undecodable", "malformed", "unsendable"})
  /\ Deliver(w, position + 1, "deadLettering")

\* The AttributeError leaves consume() and run(), which ends in stop(): the
\* message is in nobody's hand, and the next pod meets it again.
PollPoison(w) ==
  /\ Poll(w, {"poison"})
  /\ Deliver(w, position + 1, "stopping")

\* Mutant: the error after the last retry is retried as well.
RetryOnceMore(w) ==
  /\ sends' = [sends EXCEPT ![w] = 0]
  /\ msg' = [msg EXCEPT ![w] = 0]
  /\ IF retries[w] =< MaxRetries
     THEN Goto(w, "backoff") /\ retries' = [retries EXCEPT ![w] = @ + 1]
     ELSE Goto(w, "stopping") /\ UNCHANGED retries
  /\ UNCHANGED << log, owner, position, connected, shutdown, lost >>

\* The "except KafkaError" of consume(): back off, or raise out of run(),
\* which ends in stop().
Retry(w) ==
  /\ sends' = [sends EXCEPT ![w] = 0]
  /\ msg' = [msg EXCEPT ![w] = 0]
  /\ IF retries[w] < MaxRetries
     THEN Goto(w, "backoff") /\ retries' = [retries EXCEPT ![w] = @ + 1]
     ELSE Goto(w, "stopping") /\ UNCHANGED retries
  /\ UNCHANGED << log, owner, position, connected, shutdown, lost >>

PollFailed(w) ==
  /\ "poll" \in Faults
  /\ pc[w] = "polling"
  /\ Retry(w)
  /\ UNCHANGED << committed, published, deadLetters, struck >>

\* The consumer that _reconnect left behind unstarted cannot be polled: aiokafka
\* raises a KafkaError, or, before it has a coordinator, an AttributeError, which
\* leaves consume() and run().
PollUnconnected(w) ==
  /\ pc[w] = "polling" /\ ~connected[w]
  /\ \/ Retry(w)
     \/ /\ Goto(w, "stopping")
        /\ UNCHANGED << log, owner, position, connected, msg, retries, sends,
                        shutdown, lost >>
  /\ UNCHANGED << committed, published, deadLetters, struck >>

\* _reconnect: the old consumer leaves the group, a new one may not start.
Reconnect(w, ok) ==
  /\ pc[w] = "backoff"
  /\ ok \/ "connect" \in Faults
  /\ Goto(w, "polling")
  /\ Leave(w)
  /\ connected' = [connected EXCEPT ![w] = ok]
  /\ UNCHANGED << log, committed, position, msg, retries, sends, shutdown, outcome >>

\* Mutant: the offset of the message in hand is committed explicitly.
CommitMessage(w) ==
  /\ pc[w] = "committing"
  /\ committed' = msg[w]
  /\ Goto(w, "polling")
  /\ msg' = [msg EXCEPT ![w] = 0]
  /\ UNCHANGED << log, owner, position, connected, retries, sends, shutdown, outcome >>

\* commit() records the position of the partitions assigned now: nothing, for a
\* pod that has lost the partition, and the old offset for one that got it back.
Commit(w) ==
  /\ pc[w] = "committing"
  /\ committed' = IF owner = w THEN position ELSE committed
  /\ Goto(w, "polling")
  /\ msg' = [msg EXCEPT ![w] = 0]
  /\ UNCHANGED << log, owner, position, connected, retries, sends, shutdown, outcome >>

\* A commit that raises may have been recorded nevertheless.
CommitFailed(w) ==
  /\ pc[w] = "committing"
  /\ "commit" \in Faults \/ owner # w
  /\ committed' \in {committed, IF owner = w THEN position ELSE committed}
  /\ Retry(w)
  /\ Strike({w})
  /\ UNCHANGED << published, deadLetters >>

Stop(w) ==
  /\ pc[w] = "stopping"
  /\ Exit(w)
  /\ UNCHANGED struck

-----------------------------------------------------------------------------
(* TransferEngine.execute and ResultProducer.send_result                    *)

\* Whatever the transfer's outcome, one result is handed to a callback.
Execute(w) ==
  /\ pc[w] = "executing"
  /\ Goto(w, "publishing")
  /\ UNCHANGED << log, committed, owner, position, connected, msg, retries, sends,
                  shutdown, outcome >>

\* A send that raised may have been recorded all the same.
Perhaps(S, w) == {S, S \cup {msg[w]}}

\* The send is over; the offset is committed next.
Settle(w) ==
  /\ sends' = [sends EXCEPT ![w] = 0]
  /\ Goto(w, "committing")
  /\ UNCHANGED << log, committed, owner, position, connected, msg, retries,
                  shutdown, struck >>

SendRetried(w, fault) ==
  /\ fault \in Faults
  /\ sends[w] < MaxRetries
  /\ sends' = [sends EXCEPT ![w] = @ + 1]
  /\ UNCHANGED << log, committed, owner, position, pc, connected, msg, retries,
                  shutdown, lost, struck >>

\* The message is given up; its offset is committed all the same.
GiveUp(w) ==
  /\ lost' = lost \cup {msg[w]}
  /\ Settle(w)

Publishing(w) == pc[w] = "publishing" /\ log[msg[w]] = "task"

Publish(w) ==
  /\ Publishing(w)
  /\ published' = published \cup {msg[w]}
  /\ Settle(w)
  /\ UNCHANGED << deadLetters, lost >>

PublishRetried(w) ==
  /\ Publishing(w)
  /\ published' \in Perhaps(published, w)
  /\ SendRetried(w, "result")
  /\ UNCHANGED deadLetters

\* _safe_callback swallows the last KafkaError of the send.
PublishFailed(w) ==
  /\ "result" \in Faults
  /\ Publishing(w)
  /\ sends[w] = MaxRetries
  /\ published' \in Perhaps(published, w)
  /\ GiveUp(w)
  /\ UNCHANGED deadLetters

\* It swallows as well what encoding the task_id raises.
PublishUnbuilt(w) ==
  /\ pc[w] = "publishing" /\ log[msg[w]] = "unanswerable"
  /\ GiveUp(w)
  /\ UNCHANGED << published, deadLetters >>

-----------------------------------------------------------------------------
(* _parse_message and DLQProducer.send_to_dlq                               *)

DeadLettering(w) == pc[w] = "deadLettering" /\ log[msg[w]] # "unsendable"

\* Mutant: a dead-lettered message is skipped without a commit.
SendDeadLetterOnly(w) ==
  /\ DeadLettering(w)
  /\ deadLetters' = deadLetters \cup {msg[w]}
  /\ sends' = [sends EXCEPT ![w] = 0]
  /\ msg' = [msg EXCEPT ![w] = 0]
  /\ Goto(w, "polling")
  /\ UNCHANGED << log, committed, owner, position, connected, retries,
                  shutdown, published, lost, struck >>

SendDeadLetter(w) ==
  /\ DeadLettering(w)
  /\ deadLetters' = deadLetters \cup {msg[w]}
  /\ Settle(w)
  /\ UNCHANGED << published, lost >>

DeadLetterRetried(w) ==
  /\ DeadLettering(w)
  /\ deadLetters' \in Perhaps(deadLetters, w)
  /\ SendRetried(w, "dead_letter")
  /\ UNCHANGED published

\* Mutant: the KafkaError of the send is swallowed for every message.
DeadLetterFailedQuietly(w) ==
  /\ "dead_letter" \in Faults
  /\ DeadLettering(w)
  /\ sends[w] = MaxRetries
  /\ deadLetters' \in Perhaps(deadLetters, w)
  /\ GiveUp(w)
  /\ UNCHANGED published

\* For a message that was not decoded the KafkaError reaches consume(), and the
\* message comes again; for one that from_dict rejected it is swallowed.
DeadLetterFailed(w) ==
  /\ "dead_letter" \in Faults
  /\ DeadLettering(w)
  /\ sends[w] = MaxRetries
  /\ deadLetters' \in Perhaps(deadLetters, w)
  /\ IF log[msg[w]] = "undecodable"
     THEN Retry(w) /\ Strike({w}) /\ UNCHANGED committed
     ELSE GiveUp(w)
  /\ UNCHANGED published

\* The ValueError of a dead letter that cannot be built is swallowed, whatever the
\* message is: at its second try, for one that was not decoded.
DeadLetterUnbuilt(w) ==
  /\ pc[w] = "deadLettering" /\ log[msg[w]] = "unsendable"
  /\ GiveUp(w)
  /\ UNCHANGED << published, deadLetters >>

-----------------------------------------------------------------------------
Own(w) ==
  \/ Start(w) \/ StartRetried(w) \/ StartFailed(w)
  \/ PollTask(w) \/ PollOther(w) \/ PollPoison(w) \/ PollUnconnected(w)
  \/ \E ok \in BOOLEAN : Reconnect(w, ok)
  \/ Commit(w) \/ CommitFailed(w) \/ Stop(w)
  \/ Execute(w)
  \/ Publish(w) \/ PublishRetried(w) \/ PublishFailed(w) \/ PublishUnbuilt(w)
  \/ SendDeadLetter(w) \/ DeadLetterRetried(w) \/ DeadLetterFailed(w)
  \/ DeadLetterUnbuilt(w)

Next ==
  \/ Produce
  \/ \E w \in Workers :
       Own(w) \/ PollFailed(w) \/ Assign(w) \/ Launch(w) \/ Signal(w) \/ Crash(w)

Spec == Init /\ [][Next]_vars

\* A pod that can go on does: asyncio runs what is ready, an await on a broker
\* ends in an answer or an error, and the orchestrator restarts a pod.
Fairness ==
  /\ \A w \in Workers : WF_vars(Own(w)) /\ WF_vars(Launch(w))
  /\ WF_vars(\E w \in Workers : owner = NoWorker /\ Assign(w))

FairSpec == Spec /\ Fairness

\* A broker that is asked again and again answers at last: it takes every dead
\* letter, none is too large for its topic.
BrokersRecover ==
  \A w \in Workers :
    /\ SF_vars(Start(w))
    /\ SF_vars(Commit(w))
    /\ SF_vars(SendDeadLetter(w))

RecoveringSpec == FairSpec /\ BrokersRecover

-----------------------------------------------------------------------------
(* Properties                                                               *)

\* The promise of AtLeastOnce: whatever crashes, rebalances, late commits and
\* failing sends do, the offset that consume() commits only passes settled
\* messages, it never goes back, and at most one settled message is not yet
\* committed.
Promise == INSTANCE AtLeastOnce WITH produced <- Len(log), settled <- Settled
ImplementsPromise == Promise!Spec

\* A message that could not be decoded is only committed once the dead letter
\* queue has it: the KafkaError of the send leaves _parse_message (consumer.py:291).
\* That holds for messages whose dead letter can be built: an "unsendable" one is
\* committed with no more than an error in the log.  A "poison" message, which has
\* no dead letter either, is never committed.
UndecodableKept ==
  \A m \in 1..committed :
    /\ log[m] = "undecodable" => m \in deadLetters
    /\ log[m] # "poison"

\* A pod works on the message after the committed ones, or, if the partition
\* moved meanwhile, on one already committed: never on one further ahead.
InHandIsNext ==
  \A w \in Workers : pc[w] \in Busy => msg[w] \in 1..(committed + 1)

\* A pod takes a message in hand that is settled, or that another pod has in hand,
\* only if a fault struck a pod that had it before: a crash, a rebalance, a failed
\* commit, or the failed send of the dead letter of a message that was not decoded,
\* which may be in the queue nevertheless.  No reconnect, no failing result, no
\* malformed message and no shutdown makes the group repeat what it has settled.
RepeatNeedsFault ==
  [][\A w \in Workers :
       /\ pc[w] = "polling" /\ pc'[w] \in Busy
       /\ \/ msg'[w] \in Settled
          \/ \E v \in Workers \ {w} : pc[v] \in Busy /\ msg[v] = msg'[w]
       => msg'[w] \in struck]_vars

\* A message produced is committed in the end, when the brokers recover: no
\* retry loop of consume(), the sends or start() keeps it from that.  A "poison"
\* message before it does, for good: the pod that meets it ends, and the next one
\* meets it again.
EveryMessageCommitted ==
  \A m \in 1..MaxLength :
    Len(log) >= m /\ (\A i \in 1..m : log[i] # "poison") ~> committed >= m

=============================================================================
