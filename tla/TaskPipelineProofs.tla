------------------------- MODULE TaskPipelineProofs -------------------------
(***************************************************************************)
(* Proofs about TaskPipeline, for any number of pods, any partition, any   *)
(* number of retries and any set of faults.                                *)
(***************************************************************************)
EXTENDS TaskPipeline, TLAPS

\* Only a started consumer is a member of the group.
MembersConnected ==
  \A w \in Workers :
    /\ connected[w] => pc[w] \notin {"stopped", "starting"}
    /\ owner = w => connected[w]

\* The committed messages are settled, and one more may be.
SettledPrefix ==
  /\ committed =< Len(log)
  /\ 1..committed \subseteq Settled
  /\ Settled \subseteq 1..(committed + 1)

\* The message in hand exists, and where the pod is fits its kind.
InHand ==
  \A w \in Workers :
    /\ pc[w] \in Busy =>
         /\ msg[w] \in Messages
         /\ msg[w] =< committed + 1
    /\ pc[w] \in {"executing", "publishing"} =>
         log[msg[w]] \in {"task", "unanswerable"}
    /\ pc[w] = "deadLettering" =>
         log[msg[w]] \in {"undecodable", "malformed", "unsendable"}

\* What a commit of the owner would record.
OwnersPosition ==
  \A w \in Workers : owner = w =>
    /\ pc[w] = "polling" => position = committed
    /\ pc[w] \in Busy =>
         \/ position = committed
         \/ position = committed + 1 /\ msg[w] = position

\* A message is settled before its commit.
CommittingSettled ==
  \A w \in Workers : pc[w] = "committing" =>
    /\ msg[w] \in Settled
    /\ log[msg[w]] = "undecodable" => msg[w] \in deadLetters
    /\ log[msg[w]] # "poison"

\* Who has a message in hand that no fault has struck owns the partition, and the
\* message is the next to commit; a settled message is in hand until its commit, or
\* struck.
FirstHand ==
  /\ \A w \in Workers : pc[w] \in Busy /\ msg[w] \notin struck =>
       owner = w /\ position = msg[w] /\ msg[w] = committed + 1
  /\ committed + 1 \in Settled \ struck =>
       \E w \in Workers : pc[w] \in Busy /\ msg[w] = committed + 1

IInv ==
  /\ TypeOK
  /\ MembersConnected
  /\ SettledPrefix
  /\ InHand
  /\ OwnersPosition
  /\ CommittingSettled
  /\ UndecodableKept

\* The initial states satisfy the invariant: the log is empty.
LEMMA InitInv == Init => IInv
BY WorkersAssumption, MaxRetriesAssumption
   DEF Init, IInv, TypeOK, PC, Busy, Kind, MembersConnected, SettledPrefix, Settled,
       InHand, OwnersPosition, CommittingSettled, UndecodableKept

\* Recording the message in hand keeps the type of a set of messages.
LEMMA MessageTypes ==
  ASSUME TypeOK, NEW w \in Workers, NEW S \in SUBSET Nat
  PROVE  S \cup {msg[w]} \subseteq Nat
BY DEF TypeOK

\* So does a send that raised, whether it was recorded or not.
LEMMA PerhapsTypes ==
  ASSUME TypeOK, NEW w \in Workers, NEW S \in SUBSET Nat, NEW T \in Perhaps(S, w)
  PROVE  T \subseteq Nat
BY MessageTypes DEF Perhaps

\* So does recording the messages a fault strikes.
LEMMA StrikeTypes ==
  ASSUME TypeOK, NEW S \in SUBSET Workers, Strike(S)
  PROVE  struck' \subseteq Nat
BY DEF TypeOK, Strike

\* The handler of a KafkaError keeps the types.
LEMMA RetryTypes ==
  ASSUME TypeOK, NEW w \in Workers, Retry(w), committed' \in Nat,
         published' \subseteq Nat, deadLetters' \subseteq Nat, struck' \subseteq Nat
  PROVE  TypeOK'
<1> USE MaxRetriesAssumption DEF TypeOK, PC, Busy
<1>1. sends' \in [Workers -> 0..MaxRetries] /\ msg' \in [Workers -> Nat]
  BY DEF Retry
<1>2. CASE retries[w] < MaxRetries
  <2>1. retries[w] \in 0..MaxRetries /\ retries[w] + 1 \in 0..MaxRetries
    BY <1>2
  <2>2. retries' \in [Workers -> 0..MaxRetries]
    BY <1>2, <2>1 DEF Retry
  <2>3. pc' \in [Workers -> PC]
    BY <1>2 DEF Retry, Goto
  <2> QED
    BY <1>1, <2>2, <2>3 DEF Retry
<1>3. CASE ~(retries[w] < MaxRetries)
  <2>1. pc' \in [Workers -> PC] /\ retries' = retries
    BY <1>3 DEF Retry, Goto
  <2> QED
    BY <1>1, <2>1 DEF Retry
<1> QED
  BY <1>2, <1>3

\* Giving a message up keeps the types.
LEMMA GiveUpTypes ==
  ASSUME TypeOK, NEW w \in Workers, GiveUp(w),
         published' \subseteq Nat, deadLetters' \subseteq Nat
  PROVE  TypeOK'
<1>1. lost' \subseteq Nat
  BY MessageTypes DEF GiveUp, TypeOK
<1>2. pc' \in [Workers -> PC] /\ sends' \in [Workers -> 0..MaxRetries]
  BY MaxRetriesAssumption DEF GiveUp, Settle, Goto, TypeOK, PC, Busy
<1> QED
  BY <1>1, <1>2 DEF GiveUp, Settle, TypeOK

\* Every step keeps the types.
LEMMA TypeStep ==
  ASSUME TypeOK, [Next]_vars PROVE TypeOK'
<1> USE MaxRetriesAssumption, WorkersAssumption DEF TypeOK, PC, Busy, Kind, worker,
  outcome, told
<1>a. CASE Produce
  BY <1>a DEF Produce
<1>b. ASSUME NEW w \in Workers,
             Own(w) \/ PollFailed(w) \/ Assign(w) \/ Launch(w) \/ Signal(w) \/ Crash(w)
      PROVE  TypeOK'
  <2>1. CASE Start(w)
    BY <2>1 DEF Start, Goto
  <2>2. CASE StartRetried(w)
    BY <2>2 DEF StartRetried, Goto
  <2>3. CASE StartFailed(w)
    BY <2>3 DEF StartFailed, Exit, Leave, Goto
  <2>4. CASE PollTask(w)
    BY <2>4 DEF PollTask, Poll, Deliver, Goto
  <2>5. CASE PollOther(w)
    BY <2>5 DEF PollOther, Poll, Deliver, Goto
  <2>6. CASE PollUnconnected(w)
    <3>1. CASE Retry(w)
      BY <2>6, <3>1, RetryTypes DEF PollUnconnected
    <3>2. CASE ~Retry(w)
      BY <2>6, <3>2 DEF PollUnconnected, Goto
    <3> QED
      BY <3>1, <3>2
  <2>7. CASE \E ok \in BOOLEAN : Reconnect(w, ok)
    BY <2>7 DEF Reconnect, Leave, Goto
  <2>8. CASE Commit(w)
    BY <2>8 DEF Commit, Goto
  <2>9. CASE CommitFailed(w)
    <3>1. struck' \subseteq Nat
      BY <2>9, StrikeTypes DEF CommitFailed
    <3>2. committed' \in Nat
      BY <2>9 DEF CommitFailed
    <3> QED
      BY <2>9, <3>1, <3>2, RetryTypes DEF CommitFailed
  <2>10. CASE Stop(w)
    BY <2>10 DEF Stop, Exit, Leave, Goto
  <2>11. CASE Execute(w)
    BY <2>11 DEF Execute, Goto
  <2>12. CASE Publish(w)
    <3>1. published' \subseteq Nat
      BY <2>12, MessageTypes DEF Publish
    <3>2. pc' \in [Workers -> PC] /\ sends' \in [Workers -> 0..MaxRetries]
      BY <2>12 DEF Publish, Settle, Goto
    <3> QED
      BY <2>12, <3>1, <3>2 DEF Publish, Settle
  <2>13. CASE PublishRetried(w)
    <3>1. published' \subseteq Nat
      BY <2>13, PerhapsTypes DEF PublishRetried
    <3> QED
      BY <2>13, <3>1 DEF PublishRetried, SendRetried
  <2>14. CASE PublishFailed(w)
    <3>1. published' \subseteq Nat
      BY <2>14, PerhapsTypes DEF PublishFailed
    <3> QED
      BY <2>14, <3>1, GiveUpTypes DEF PublishFailed
  <2>15. CASE SendDeadLetter(w)
    <3>1. deadLetters' \subseteq Nat
      BY <2>15, MessageTypes DEF SendDeadLetter
    <3>2. pc' \in [Workers -> PC] /\ sends' \in [Workers -> 0..MaxRetries]
      BY <2>15 DEF SendDeadLetter, Settle, Goto
    <3> QED
      BY <2>15, <3>1, <3>2 DEF SendDeadLetter, Settle
  <2>16. CASE DeadLetterRetried(w)
    <3>1. deadLetters' \subseteq Nat
      BY <2>16, PerhapsTypes DEF DeadLetterRetried
    <3> QED
      BY <2>16, <3>1 DEF DeadLetterRetried, SendRetried
  <2>17. CASE DeadLetterFailed(w)
    <3>1. deadLetters' \subseteq Nat
      BY <2>17, PerhapsTypes DEF DeadLetterFailed
    <3>2. CASE GiveUp(w)
      BY <2>17, <3>1, <3>2, GiveUpTypes DEF DeadLetterFailed
    <3>3. CASE Retry(w) /\ Strike({w}) /\ UNCHANGED committed
      BY <2>17, <3>1, <3>3, RetryTypes, StrikeTypes DEF DeadLetterFailed
    <3> QED
      BY <2>17, <3>2, <3>3 DEF DeadLetterFailed
  <2>18. CASE PollFailed(w)
    BY <2>18, RetryTypes DEF PollFailed
  <2>19. CASE Assign(w)
    <3>1. struck' \subseteq Nat
      BY <2>19, StrikeTypes DEF Assign
    <3> QED
      BY <2>19, <3>1 DEF Assign
  <2>20. CASE Launch(w)
    BY <2>20 DEF Launch, Goto
  <2>21. CASE Signal(w)
    BY <2>21 DEF Signal, Goto
  <2>22. CASE Crash(w)
    <3>1. struck' \subseteq Nat
      BY <2>22, StrikeTypes DEF Crash
    <3> QED
      BY <2>22, <3>1 DEF Crash, Exit, Leave, Goto
  <2>23. CASE PollPoison(w)
    BY <2>23 DEF PollPoison, Poll, Deliver, Goto
  <2>24. CASE PublishUnbuilt(w)
    BY <2>24, GiveUpTypes DEF PublishUnbuilt
  <2>25. CASE DeadLetterUnbuilt(w)
    BY <2>25, GiveUpTypes DEF DeadLetterUnbuilt
  <2> QED
    BY <1>b, <2>1, <2>2, <2>3, <2>4, <2>5, <2>6, <2>7, <2>8, <2>9, <2>10, <2>11,
       <2>12, <2>13, <2>14, <2>15, <2>16, <2>17, <2>18, <2>19, <2>20, <2>21,
       <2>22, <2>23, <2>24, <2>25 DEF Own
<1>c. CASE UNCHANGED vars
  BY <1>c DEF vars
<1> QED
  BY <1>a, <1>b, <1>c DEF Next

\* Every step keeps the members of the group connected.
LEMMA MembersStep ==
  ASSUME TypeOK, MembersConnected, [Next]_vars PROVE MembersConnected'
<1> USE MaxRetriesAssumption, WorkersAssumption DEF TypeOK, PC, Busy,
  MembersConnected, worker, outcome, told
<1>a. CASE Produce
  BY <1>a DEF Produce
<1>b. ASSUME NEW w \in Workers,
             Own(w) \/ PollFailed(w) \/ Assign(w) \/ Launch(w) \/ Signal(w) \/ Crash(w)
      PROVE  MembersConnected'
  <2>1. CASE Start(w)
    BY <2>1 DEF Start, Goto
  <2>2. CASE StartRetried(w)
    BY <2>2 DEF StartRetried, Goto
  <2>3. CASE StartFailed(w)
    BY <2>3 DEF StartFailed, Exit, Leave, Goto
  <2>4. CASE PollTask(w)
    BY <2>4 DEF PollTask, Poll, Deliver, Goto
  <2>5. CASE PollOther(w)
    BY <2>5 DEF PollOther, Poll, Deliver, Goto
  <2>6. CASE PollUnconnected(w)
    BY <2>6 DEF PollUnconnected, Retry, Goto
  <2>7. CASE \E ok \in BOOLEAN : Reconnect(w, ok)
    BY <2>7 DEF Reconnect, Leave, Goto
  <2>8. CASE Commit(w)
    BY <2>8 DEF Commit, Goto
  <2>9. CASE CommitFailed(w)
    BY <2>9 DEF CommitFailed, Retry, Goto
  <2>10. CASE Stop(w)
    BY <2>10 DEF Stop, Exit, Leave, Goto
  <2>11. CASE Execute(w)
    BY <2>11 DEF Execute, Goto
  <2>12. CASE Publish(w)
    BY <2>12 DEF Publish, Publishing, Settle, Goto
  <2>13. CASE PublishRetried(w)
    BY <2>13 DEF PublishRetried, Publishing, Perhaps, SendRetried
  <2>14. CASE PublishFailed(w)
    BY <2>14 DEF PublishFailed, Publishing, Perhaps, GiveUp, Settle, Goto
  <2>15. CASE SendDeadLetter(w)
    BY <2>15 DEF SendDeadLetter, DeadLettering, Settle, Goto
  <2>16. CASE DeadLetterRetried(w)
    BY <2>16 DEF DeadLetterRetried, DeadLettering, Perhaps, SendRetried
  <2>17. CASE DeadLetterFailed(w)
    BY <2>17 DEF DeadLetterFailed, DeadLettering, Perhaps, GiveUp, Settle, Retry, Goto
  <2>18. CASE PollFailed(w)
    BY <2>18 DEF PollFailed, Retry, Goto
  <2>19. CASE Assign(w)
    BY <2>19 DEF Assign, Goto
  <2>20. CASE Launch(w)
    BY <2>20 DEF Launch, Goto
  <2>21. CASE Signal(w)
    BY <2>21 DEF Signal, Goto
  <2>22. CASE Crash(w)
    BY <2>22 DEF Crash, Exit, Leave, Goto
  <2>23. CASE PollPoison(w)
    BY <2>23 DEF PollPoison, Poll, Deliver, Goto
  <2>24. CASE PublishUnbuilt(w)
    BY <2>24 DEF PublishUnbuilt, GiveUp, Settle, Goto
  <2>25. CASE DeadLetterUnbuilt(w)
    BY <2>25 DEF DeadLetterUnbuilt, GiveUp, Settle, Goto
  <2> QED
    BY <1>b, <2>1, <2>2, <2>3, <2>4, <2>5, <2>6, <2>7, <2>8, <2>9, <2>10, <2>11,
       <2>12, <2>13, <2>14, <2>15, <2>16, <2>17, <2>18, <2>19, <2>20, <2>21,
       <2>22, <2>23, <2>24, <2>25 DEF Own
<1>c. CASE UNCHANGED vars
  BY <1>c DEF vars
<1> QED
  BY <1>a, <1>b, <1>c DEF Next

\* Settling the message in hand keeps the settled messages next to the committed.
LEMMA SettlePrefix ==
  ASSUME IInv, NEW w \in Workers, pc[w] \in Busy,
         Settled' \in {Settled, Settled \cup {msg[w]}}, UNCHANGED << log, committed >>
  PROVE  SettledPrefix'
<1>1. msg[w] \in 1..Len(log) /\ msg[w] =< committed + 1
  BY DEF IInv, InHand, Messages
<1>2. Len(log) \in Nat /\ committed \in Nat
  BY DEF IInv, TypeOK
<1>3. /\ committed =< Len(log)
      /\ 1..committed \subseteq Settled
      /\ Settled \subseteq 1..(committed + 1)
  BY DEF IInv, SettledPrefix
<1>4. msg[w] \in 1..(committed + 1)
  BY <1>1, <1>2
<1>5. Settled' \subseteq 1..(committed + 1) /\ 1..committed \subseteq Settled'
  BY <1>3, <1>4
<1>6. committed' = committed /\ log' = log
  OBVIOUS
<1> QED
  BY <1>3, <1>5, <1>6 DEF SettledPrefix

\* So does a commit, answered or not: it passes the settled message or none.
LEMMA CommitPrefix ==
  ASSUME IInv, NEW w \in Workers, pc[w] = "committing",
         committed' \in {committed, IF owner = w THEN position ELSE committed},
         UNCHANGED << log, told >>
  PROVE  SettledPrefix'
<1>1. msg[w] \in Settled /\ msg[w] \in 1..Len(log)
  BY DEF IInv, InHand, Messages, Busy, CommittingSettled
<1>2. Len(log) \in Nat /\ committed \in Nat
  BY DEF IInv, TypeOK
<1>3. owner = w => position = committed \/ (position = committed + 1 /\ msg[w] = position)
  BY DEF IInv, OwnersPosition, Busy
<1>4. committed' = committed \/ (committed' = committed + 1 /\ msg[w] = committed + 1)
  BY <1>3
<1>5. Settled' = Settled
  BY DEF Settled, outcome, told
<1>6. /\ committed =< Len(log)
      /\ 1..committed \subseteq Settled
      /\ Settled \subseteq 1..(committed + 1)
  BY DEF IInv, SettledPrefix
<1>7. committed' =< Len(log)
  BY <1>1, <1>2, <1>4, <1>6
<1>8. 1..committed' \subseteq Settled
  BY <1>1, <1>2, <1>4, <1>6
<1>9. Settled \subseteq 1..(committed' + 1)
  <2>1. CASE committed' = committed
    BY <1>6, <2>1
  <2>2. CASE committed' = committed + 1
    <3>1. 1..(committed + 1) \subseteq 1..((committed + 1) + 1)
      BY <1>2
    <3> QED
      BY <1>6, <2>2, <3>1
  <2> QED
    BY <1>4, <2>1, <2>2
<1>10. log' = log
  OBVIOUS
<1> QED
  BY <1>5, <1>7, <1>8, <1>9, <1>10 DEF SettledPrefix

\* Every step keeps the settled messages next to the committed ones.
LEMMA PrefixStep ==
  ASSUME IInv, [Next]_vars PROVE SettledPrefix'
<1> USE MaxRetriesAssumption, WorkersAssumption DEF IInv, TypeOK, PC, Busy, Kind,
  Messages, SettledPrefix, Settled, InHand, OwnersPosition, CommittingSettled,
  worker, outcome, told
<1>a. CASE Produce
  BY <1>a DEF Produce
<1>b. ASSUME NEW w \in Workers,
             Own(w) \/ PollFailed(w) \/ Assign(w) \/ Launch(w) \/ Signal(w) \/ Crash(w)
      PROVE  SettledPrefix'
  <2>1. CASE Start(w)
    BY <2>1 DEF Start, Goto
  <2>2. CASE StartRetried(w)
    BY <2>2 DEF StartRetried, Goto
  <2>3. CASE StartFailed(w)
    BY <2>3 DEF StartFailed, Exit, Leave, Goto
  <2>4. CASE PollTask(w)
    BY <2>4 DEF PollTask, Poll, Deliver, Goto
  <2>5. CASE PollOther(w)
    BY <2>5 DEF PollOther, Poll, Deliver, Goto
  <2>6. CASE PollUnconnected(w)
    BY <2>6 DEF PollUnconnected, Retry, Goto
  <2>7. CASE \E ok \in BOOLEAN : Reconnect(w, ok)
    BY <2>7 DEF Reconnect, Leave, Goto
  <2>8. CASE Commit(w)
    BY <2>8, CommitPrefix DEF Commit
  <2>9. CASE CommitFailed(w)
    BY <2>9, CommitPrefix DEF CommitFailed, Retry
  <2>10. CASE Stop(w)
    BY <2>10 DEF Stop, Exit, Leave, Goto
  <2>11. CASE Execute(w)
    BY <2>11 DEF Execute, Goto
  <2>12. CASE Publish(w)
    <3>1. Settled' = Settled \cup {msg[w]}
      BY <2>12 DEF Publish, Settled
    <3> QED
      BY <2>12, <3>1, SettlePrefix DEF Publish, Publishing, Settle, Busy
  <2>13. CASE PublishRetried(w)
    <3>1. Settled' \in {Settled, Settled \cup {msg[w]}}
      BY <2>13 DEF PublishRetried, Perhaps, SendRetried, Settled
    <3> QED
      BY <2>13, <3>1, SettlePrefix DEF PublishRetried, Publishing, SendRetried, Busy
  <2>14. CASE PublishFailed(w)
    <3>1. Settled' = Settled \cup {msg[w]}
      BY <2>14 DEF PublishFailed, Perhaps, GiveUp, Settled
    <3> QED
      BY <2>14, <3>1, SettlePrefix DEF PublishFailed, Publishing, GiveUp, Settle, Busy
  <2>15. CASE SendDeadLetter(w)
    <3>1. Settled' = Settled \cup {msg[w]}
      BY <2>15 DEF SendDeadLetter, Settled
    <3> QED
      BY <2>15, <3>1, SettlePrefix DEF SendDeadLetter, DeadLettering, Settle, Busy
  <2>16. CASE DeadLetterRetried(w)
    <3>1. Settled' \in {Settled, Settled \cup {msg[w]}}
      BY <2>16 DEF DeadLetterRetried, Perhaps, SendRetried, Settled
    <3> QED
      BY <2>16, <3>1, SettlePrefix DEF DeadLetterRetried, DeadLettering, SendRetried, Busy
  <2>17. CASE DeadLetterFailed(w)
    <3>1. /\ Settled' \in {Settled, Settled \cup {msg[w]}}
          /\ UNCHANGED << log, committed >>
      <4>1. CASE GiveUp(w)
        BY <2>17, <4>1 DEF DeadLetterFailed, Perhaps, GiveUp, Settle, Settled
      <4>2. CASE Retry(w) /\ UNCHANGED committed
        BY <2>17, <4>2 DEF DeadLetterFailed, Perhaps, Retry, Settled
      <4> QED
        BY <2>17, <4>1, <4>2 DEF DeadLetterFailed
    <3> QED
      BY <2>17, <3>1, SettlePrefix DEF DeadLetterFailed, DeadLettering, Busy
  <2>18. CASE PollFailed(w)
    BY <2>18 DEF PollFailed, Retry, Goto
  <2>19. CASE Assign(w)
    BY <2>19 DEF Assign, Goto
  <2>20. CASE Launch(w)
    BY <2>20 DEF Launch, Goto
  <2>21. CASE Signal(w)
    BY <2>21 DEF Signal, Goto
  <2>22. CASE Crash(w)
    BY <2>22 DEF Crash, Exit, Leave, Goto
  <2>23. CASE PollPoison(w)
    BY <2>23 DEF PollPoison, Poll, Deliver, Goto
  <2>24. CASE PublishUnbuilt(w)
    <3>1. Settled' = Settled \cup {msg[w]}
      BY <2>24 DEF PublishUnbuilt, GiveUp, Settled
    <3> QED
      BY <2>24, <3>1, SettlePrefix DEF PublishUnbuilt, GiveUp, Settle, Busy
  <2>25. CASE DeadLetterUnbuilt(w)
    <3>1. Settled' = Settled \cup {msg[w]}
      BY <2>25 DEF DeadLetterUnbuilt, GiveUp, Settled
    <3> QED
      BY <2>25, <3>1, SettlePrefix DEF DeadLetterUnbuilt, GiveUp, Settle, Busy
  <2> QED
    BY <1>b, <2>1, <2>2, <2>3, <2>4, <2>5, <2>6, <2>7, <2>8, <2>9, <2>10, <2>11,
       <2>12, <2>13, <2>14, <2>15, <2>16, <2>17, <2>18, <2>19, <2>20, <2>21,
       <2>22, <2>23, <2>24, <2>25 DEF Own
<1>c. CASE UNCHANGED vars
  BY <1>c DEF vars
<1> QED
  BY <1>a, <1>b, <1>c DEF Next

\* Every step keeps the messages in hand.
LEMMA InHandStep ==
  ASSUME IInv, [Next]_vars PROVE InHand'
<1> USE MaxRetriesAssumption, WorkersAssumption DEF IInv, TypeOK, PC, Busy, Kind,
  Messages, SettledPrefix, InHand, OwnersPosition, worker, outcome, told
<1>a. CASE Produce
  BY <1>a DEF Produce
<1>b. ASSUME NEW w \in Workers,
             Own(w) \/ PollFailed(w) \/ Assign(w) \/ Launch(w) \/ Signal(w) \/ Crash(w)
      PROVE  InHand'
  <2>1. CASE Start(w)
    BY <2>1 DEF Start, Goto
  <2>2. CASE StartRetried(w)
    BY <2>2 DEF StartRetried, Goto
  <2>3. CASE StartFailed(w)
    BY <2>3 DEF StartFailed, Exit, Leave, Goto
  <2>4. CASE PollTask(w)
    BY <2>4 DEF PollTask, Poll, Deliver, Goto
  <2>5. CASE PollOther(w)
    BY <2>5 DEF PollOther, Poll, Deliver, Goto
  <2>6. CASE PollUnconnected(w)
    BY <2>6 DEF PollUnconnected, Retry, Goto
  <2>7. CASE \E ok \in BOOLEAN : Reconnect(w, ok)
    BY <2>7 DEF Reconnect, Leave, Goto
  <2>8. CASE Commit(w)
    BY <2>8 DEF Commit, Goto
  <2>9. CASE CommitFailed(w)
    BY <2>9 DEF CommitFailed, Retry, Goto
  <2>10. CASE Stop(w)
    BY <2>10 DEF Stop, Exit, Leave, Goto
  <2>11. CASE Execute(w)
    BY <2>11 DEF Execute, Goto
  <2>12. CASE Publish(w)
    BY <2>12 DEF Publish, Publishing, Settle, Goto
  <2>13. CASE PublishRetried(w)
    BY <2>13 DEF PublishRetried, Publishing, Perhaps, SendRetried
  <2>14. CASE PublishFailed(w)
    BY <2>14 DEF PublishFailed, Publishing, Perhaps, GiveUp, Settle, Goto
  <2>15. CASE SendDeadLetter(w)
    BY <2>15 DEF SendDeadLetter, DeadLettering, Settle, Goto
  <2>16. CASE DeadLetterRetried(w)
    BY <2>16 DEF DeadLetterRetried, DeadLettering, Perhaps, SendRetried
  <2>17. CASE DeadLetterFailed(w)
    BY <2>17 DEF DeadLetterFailed, DeadLettering, Perhaps, GiveUp, Settle, Retry, Goto
  <2>18. CASE PollFailed(w)
    BY <2>18 DEF PollFailed, Retry, Goto
  <2>19. CASE Assign(w)
    BY <2>19 DEF Assign, Goto
  <2>20. CASE Launch(w)
    BY <2>20 DEF Launch, Goto
  <2>21. CASE Signal(w)
    BY <2>21 DEF Signal, Goto
  <2>22. CASE Crash(w)
    BY <2>22 DEF Crash, Exit, Leave, Goto
  <2>23. CASE PollPoison(w)
    BY <2>23 DEF PollPoison, Poll, Deliver, Goto
  <2>24. CASE PublishUnbuilt(w)
    BY <2>24 DEF PublishUnbuilt, GiveUp, Settle, Goto
  <2>25. CASE DeadLetterUnbuilt(w)
    BY <2>25 DEF DeadLetterUnbuilt, GiveUp, Settle, Goto
  <2> QED
    BY <1>b, <2>1, <2>2, <2>3, <2>4, <2>5, <2>6, <2>7, <2>8, <2>9, <2>10, <2>11,
       <2>12, <2>13, <2>14, <2>15, <2>16, <2>17, <2>18, <2>19, <2>20, <2>21,
       <2>22, <2>23, <2>24, <2>25 DEF Own
<1>c. CASE UNCHANGED vars
  BY <1>c DEF vars
<1> QED
  BY <1>a, <1>b, <1>c DEF Next

\* Every step keeps the owner's position.
LEMMA PositionStep ==
  ASSUME IInv, [Next]_vars PROVE OwnersPosition'
<1> USE MaxRetriesAssumption, WorkersAssumption DEF IInv, TypeOK, PC, Busy, Messages,
  InHand, MembersConnected, OwnersPosition, worker, outcome, told
<1>a. CASE Produce
  BY <1>a DEF Produce
<1>b. ASSUME NEW w \in Workers,
             Own(w) \/ PollFailed(w) \/ Assign(w) \/ Launch(w) \/ Signal(w) \/ Crash(w)
      PROVE  OwnersPosition'
  <2>1. CASE Start(w)
    BY <2>1 DEF Start, Goto
  <2>2. CASE StartRetried(w)
    BY <2>2 DEF StartRetried, Goto
  <2>3. CASE StartFailed(w)
    BY <2>3 DEF StartFailed, Exit, Leave, Goto
  <2>4. CASE PollTask(w)
    BY <2>4 DEF PollTask, Poll, Deliver, Goto
  <2>5. CASE PollOther(w)
    BY <2>5 DEF PollOther, Poll, Deliver, Goto
  <2>6. CASE PollUnconnected(w)
    BY <2>6 DEF PollUnconnected, Retry, Goto
  <2>7. CASE \E ok \in BOOLEAN : Reconnect(w, ok)
    BY <2>7 DEF Reconnect, Leave, Goto
  <2>8. CASE Commit(w)
    BY <2>8 DEF Commit, Goto
  <2>9. CASE CommitFailed(w)
    BY <2>9 DEF CommitFailed, Retry, Goto
  <2>10. CASE Stop(w)
    BY <2>10 DEF Stop, Exit, Leave, Goto
  <2>11. CASE Execute(w)
    BY <2>11 DEF Execute, Goto
  <2>12. CASE Publish(w)
    BY <2>12 DEF Publish, Publishing, Settle, Goto
  <2>13. CASE PublishRetried(w)
    BY <2>13 DEF PublishRetried, Publishing, Perhaps, SendRetried
  <2>14. CASE PublishFailed(w)
    BY <2>14 DEF PublishFailed, Publishing, Perhaps, GiveUp, Settle, Goto
  <2>15. CASE SendDeadLetter(w)
    BY <2>15 DEF SendDeadLetter, DeadLettering, Settle, Goto
  <2>16. CASE DeadLetterRetried(w)
    BY <2>16 DEF DeadLetterRetried, DeadLettering, Perhaps, SendRetried
  <2>17. CASE DeadLetterFailed(w)
    BY <2>17 DEF DeadLetterFailed, DeadLettering, Perhaps, GiveUp, Settle, Retry, Goto
  <2>18. CASE PollFailed(w)
    BY <2>18 DEF PollFailed, Retry, Goto
  <2>19. CASE Assign(w)
    BY <2>19 DEF Assign, Goto
  <2>20. CASE Launch(w)
    BY <2>20 DEF Launch, Goto
  <2>21. CASE Signal(w)
    BY <2>21 DEF Signal, Goto
  <2>22. CASE Crash(w)
    BY <2>22 DEF Crash, Exit, Leave, Goto
  <2>23. CASE PollPoison(w)
    BY <2>23 DEF PollPoison, Poll, Deliver, Goto
  <2>24. CASE PublishUnbuilt(w)
    BY <2>24 DEF PublishUnbuilt, GiveUp, Settle, Goto
  <2>25. CASE DeadLetterUnbuilt(w)
    BY <2>25 DEF DeadLetterUnbuilt, GiveUp, Settle, Goto
  <2> QED
    BY <1>b, <2>1, <2>2, <2>3, <2>4, <2>5, <2>6, <2>7, <2>8, <2>9, <2>10, <2>11,
       <2>12, <2>13, <2>14, <2>15, <2>16, <2>17, <2>18, <2>19, <2>20, <2>21,
       <2>22, <2>23, <2>24, <2>25 DEF Own
<1>c. CASE UNCHANGED vars
  BY <1>c DEF vars
<1> QED
  BY <1>a, <1>b, <1>c DEF Next

\* Every step keeps what is about to be committed settled.
LEMMA CommittingStep ==
  ASSUME IInv, [Next]_vars PROVE CommittingSettled'
<1> USE MaxRetriesAssumption, WorkersAssumption DEF IInv, TypeOK, PC, Busy, Kind,
  Messages, Settled, InHand, CommittingSettled, worker, outcome, told
<1>a. CASE Produce
  BY <1>a DEF Produce
<1>b. ASSUME NEW w \in Workers,
             Own(w) \/ PollFailed(w) \/ Assign(w) \/ Launch(w) \/ Signal(w) \/ Crash(w)
      PROVE  CommittingSettled'
  <2>1. CASE Start(w)
    BY <2>1 DEF Start, Goto
  <2>2. CASE StartRetried(w)
    BY <2>2 DEF StartRetried, Goto
  <2>3. CASE StartFailed(w)
    BY <2>3 DEF StartFailed, Exit, Leave, Goto
  <2>4. CASE PollTask(w)
    BY <2>4 DEF PollTask, Poll, Deliver, Goto
  <2>5. CASE PollOther(w)
    BY <2>5 DEF PollOther, Poll, Deliver, Goto
  <2>6. CASE PollUnconnected(w)
    BY <2>6 DEF PollUnconnected, Retry, Goto
  <2>7. CASE \E ok \in BOOLEAN : Reconnect(w, ok)
    BY <2>7 DEF Reconnect, Leave, Goto
  <2>8. CASE Commit(w)
    BY <2>8 DEF Commit, Goto
  <2>9. CASE CommitFailed(w)
    BY <2>9 DEF CommitFailed, Retry, Goto
  <2>10. CASE Stop(w)
    BY <2>10 DEF Stop, Exit, Leave, Goto
  <2>11. CASE Execute(w)
    BY <2>11 DEF Execute, Goto
  <2>12. CASE Publish(w)
    BY <2>12 DEF Publish, Publishing, Settle, Goto
  <2>13. CASE PublishRetried(w)
    BY <2>13 DEF PublishRetried, Publishing, Perhaps, SendRetried
  <2>14. CASE PublishFailed(w)
    BY <2>14 DEF PublishFailed, Publishing, Perhaps, GiveUp, Settle, Goto
  <2>15. CASE SendDeadLetter(w)
    BY <2>15 DEF SendDeadLetter, DeadLettering, Settle, Goto
  <2>16. CASE DeadLetterRetried(w)
    BY <2>16 DEF DeadLetterRetried, DeadLettering, Perhaps, SendRetried
  <2>17. CASE DeadLetterFailed(w)
    BY <2>17 DEF DeadLetterFailed, DeadLettering, Perhaps, GiveUp, Settle, Retry, Goto
  <2>18. CASE PollFailed(w)
    BY <2>18 DEF PollFailed, Retry, Goto
  <2>19. CASE Assign(w)
    BY <2>19 DEF Assign, Goto
  <2>20. CASE Launch(w)
    BY <2>20 DEF Launch, Goto
  <2>21. CASE Signal(w)
    BY <2>21 DEF Signal, Goto
  <2>22. CASE Crash(w)
    BY <2>22 DEF Crash, Exit, Leave, Goto
  <2>23. CASE PollPoison(w)
    BY <2>23 DEF PollPoison, Poll, Deliver, Goto
  <2>24. CASE PublishUnbuilt(w)
    BY <2>24 DEF PublishUnbuilt, GiveUp, Settle, Goto
  <2>25. CASE DeadLetterUnbuilt(w)
    BY <2>25 DEF DeadLetterUnbuilt, GiveUp, Settle, Goto
  <2> QED
    BY <1>b, <2>1, <2>2, <2>3, <2>4, <2>5, <2>6, <2>7, <2>8, <2>9, <2>10, <2>11,
       <2>12, <2>13, <2>14, <2>15, <2>16, <2>17, <2>18, <2>19, <2>20, <2>21,
       <2>22, <2>23, <2>24, <2>25 DEF Own
<1>c. CASE UNCHANGED vars
  BY <1>c DEF vars
<1> QED
  BY <1>a, <1>b, <1>c DEF Next

\* Every step keeps the committed messages that were not decoded.
LEMMA UndecodableStep ==
  ASSUME IInv, [Next]_vars PROVE UndecodableKept'
<1> USE MaxRetriesAssumption, WorkersAssumption DEF IInv, TypeOK, PC, Busy, Kind,
  Messages, SettledPrefix, InHand, OwnersPosition, CommittingSettled,
  UndecodableKept, worker, outcome, told
<1>a. CASE Produce
  BY <1>a DEF Produce
<1>b. ASSUME NEW w \in Workers,
             Own(w) \/ PollFailed(w) \/ Assign(w) \/ Launch(w) \/ Signal(w) \/ Crash(w)
      PROVE  UndecodableKept'
  <2>1. CASE Start(w)
    BY <2>1 DEF Start, Goto
  <2>2. CASE StartRetried(w)
    BY <2>2 DEF StartRetried, Goto
  <2>3. CASE StartFailed(w)
    BY <2>3 DEF StartFailed, Exit, Leave, Goto
  <2>4. CASE PollTask(w)
    BY <2>4 DEF PollTask, Poll, Deliver, Goto
  <2>5. CASE PollOther(w)
    BY <2>5 DEF PollOther, Poll, Deliver, Goto
  <2>6. CASE PollUnconnected(w)
    BY <2>6 DEF PollUnconnected, Retry, Goto
  <2>7. CASE \E ok \in BOOLEAN : Reconnect(w, ok)
    BY <2>7 DEF Reconnect, Leave, Goto
  <2>8. CASE Commit(w)
    BY <2>8 DEF Commit, Goto
  <2>9. CASE CommitFailed(w)
    BY <2>9 DEF CommitFailed, Retry, Goto
  <2>10. CASE Stop(w)
    BY <2>10 DEF Stop, Exit, Leave, Goto
  <2>11. CASE Execute(w)
    BY <2>11 DEF Execute, Goto
  <2>12. CASE Publish(w)
    BY <2>12 DEF Publish, Publishing, Settle, Goto
  <2>13. CASE PublishRetried(w)
    BY <2>13 DEF PublishRetried, Publishing, Perhaps, SendRetried
  <2>14. CASE PublishFailed(w)
    BY <2>14 DEF PublishFailed, Publishing, Perhaps, GiveUp, Settle, Goto
  <2>15. CASE SendDeadLetter(w)
    BY <2>15 DEF SendDeadLetter, DeadLettering, Settle, Goto
  <2>16. CASE DeadLetterRetried(w)
    BY <2>16 DEF DeadLetterRetried, DeadLettering, Perhaps, SendRetried
  <2>17. CASE DeadLetterFailed(w)
    BY <2>17 DEF DeadLetterFailed, DeadLettering, Perhaps, GiveUp, Settle, Retry, Goto
  <2>18. CASE PollFailed(w)
    BY <2>18 DEF PollFailed, Retry, Goto
  <2>19. CASE Assign(w)
    BY <2>19 DEF Assign, Goto
  <2>20. CASE Launch(w)
    BY <2>20 DEF Launch, Goto
  <2>21. CASE Signal(w)
    BY <2>21 DEF Signal, Goto
  <2>22. CASE Crash(w)
    BY <2>22 DEF Crash, Exit, Leave, Goto
  <2>23. CASE PollPoison(w)
    BY <2>23 DEF PollPoison, Poll, Deliver, Goto
  <2>24. CASE PublishUnbuilt(w)
    BY <2>24 DEF PublishUnbuilt, GiveUp, Settle, Goto
  <2>25. CASE DeadLetterUnbuilt(w)
    BY <2>25 DEF DeadLetterUnbuilt, GiveUp, Settle, Goto
  <2> QED
    BY <1>b, <2>1, <2>2, <2>3, <2>4, <2>5, <2>6, <2>7, <2>8, <2>9, <2>10, <2>11,
       <2>12, <2>13, <2>14, <2>15, <2>16, <2>17, <2>18, <2>19, <2>20, <2>21,
       <2>22, <2>23, <2>24, <2>25 DEF Own
<1>c. CASE UNCHANGED vars
  BY <1>c DEF vars
<1> QED
  BY <1>a, <1>b, <1>c DEF Next

\* The handler of a KafkaError takes the message out of the hand of its pod only.
LEMMA RetryMoves ==
  ASSUME TypeOK, NEW w \in Workers, Retry(w)
  PROVE  /\ pc'[w] \notin Busy
         /\ \A v \in Workers \ {w} : pc'[v] = pc[v] /\ msg'[v] = msg[v]
         /\ UNCHANGED << log, owner, position, lost >>
<1>1. pc'[w] \in {"backoff", "stopping"} /\ \A v \in Workers \ {w} : pc'[v] = pc[v]
  <2>1. CASE retries[w] < MaxRetries
    BY <2>1 DEF Retry, Goto, TypeOK
  <2>2. CASE ~(retries[w] < MaxRetries)
    BY <2>2 DEF Retry, Goto, TypeOK
  <2> QED
    BY <2>1, <2>2
<1>2. \A v \in Workers \ {w} : msg'[v] = msg[v]
  BY DEF Retry, TypeOK
<1>3. UNCHANGED << log, owner, position, lost >>
  BY DEF Retry
<1> QED
  BY <1>1, <1>2, <1>3 DEF Busy

\* Every step keeps unstruck messages in the hand of the owner: none is delivered
\* while another pod has it or after it was settled, and all ways a pod drops a
\* settled message uncommitted strike it.
LEMMA FirstHandStep ==
  ASSUME IInv, FirstHand, [Next]_vars PROVE FirstHand'
<1> USE WorkersAssumption DEF IInv, TypeOK, Busy, Messages, Settled, SettledPrefix,
  InHand, OwnersPosition, FirstHand, worker, outcome, told
<1>a. CASE Produce
  BY <1>a DEF Produce
<1>b. ASSUME NEW w \in Workers,
             Own(w) \/ PollFailed(w) \/ Assign(w) \/ Launch(w) \/ Signal(w) \/ Crash(w)
      PROVE  FirstHand'
  <2>1. CASE Start(w)
    BY <2>1 DEF Start, Goto
  <2>2. CASE StartRetried(w)
    BY <2>2 DEF StartRetried, Goto
  <2>3. CASE StartFailed(w)
    BY <2>3 DEF StartFailed, Exit, Leave, Goto
  <2>4. CASE PollTask(w)
    BY <2>4 DEF PollTask, Poll, Deliver, Goto
  <2>5. CASE PollOther(w)
    BY <2>5 DEF PollOther, Poll, Deliver, Goto
  <2>6. CASE PollUnconnected(w)
    <3>1. /\ pc[w] = "polling" /\ pc'[w] \notin Busy
          /\ \A v \in Workers \ {w} : pc'[v] = pc[v] /\ msg'[v] = msg[v]
          /\ UNCHANGED << committed, owner, position, struck, Settled >>
      <4>1. CASE Retry(w)
        BY <2>6, <4>1, RetryMoves DEF PollUnconnected, Settled
      <4>2. CASE ~Retry(w)
        BY <2>6, <4>2 DEF PollUnconnected, Goto
      <4> QED
        BY <4>1, <4>2
    <3> QED
      BY <3>1
  <2>7. CASE \E ok \in BOOLEAN : Reconnect(w, ok)
    BY <2>7 DEF Reconnect, Leave, Goto
  <2>8. CASE Commit(w)
    BY <2>8 DEF Commit, Goto
  <2>9. CASE CommitFailed(w)
    <3>1. /\ pc[w] = "committing" /\ pc'[w] \notin Busy
          /\ \A v \in Workers \ {w} : pc'[v] = pc[v] /\ msg'[v] = msg[v]
          /\ UNCHANGED << owner, position, Settled >>
      BY <2>9, RetryMoves DEF CommitFailed, Settled
    <3>2. committed' \in {committed, IF owner = w THEN position ELSE committed}
      BY <2>9 DEF CommitFailed
    <3>3. struck' = struck \cup ({msg[w]} \ 0..committed)
      BY <2>9 DEF CommitFailed, Strike
    <3>4. \A v \in Workers : pc'[v] \in Busy /\ msg'[v] \notin struck' =>
            owner' = v /\ position' = msg'[v] /\ msg'[v] = committed' + 1
      BY <3>1, <3>2, <3>3
    <3>5. committed' + 1 \in Settled' \ struck' =>
            \E v \in Workers : pc'[v] \in Busy /\ msg'[v] = committed' + 1
      <4> SUFFICES ASSUME committed' + 1 \in Settled' \ struck'
                   PROVE  \E v \in Workers : pc'[v] \in Busy /\ msg'[v] = committed' + 1
        OBVIOUS
      <4>1. committed' = committed
        BY <3>1, <3>2
      <4>2. PICK v \in Workers : pc[v] \in Busy /\ msg[v] = committed + 1
        BY <3>1, <3>3, <4>1
      <4>3. v # w
        BY <3>3, <4>1, <4>2
      <4> QED
        BY <3>1, <4>1, <4>2, <4>3
    <3> QED
      BY <3>4, <3>5
  <2>10. CASE Stop(w)
    BY <2>10 DEF Stop, Exit, Leave, Goto
  <2>11. CASE Execute(w)
    BY <2>11 DEF Execute, Goto
  <2>12. CASE Publish(w)
    BY <2>12 DEF Publish, Publishing, Settle, Goto
  <2>13. CASE PublishRetried(w)
    BY <2>13 DEF PublishRetried, Publishing, Perhaps, SendRetried
  <2>14. CASE PublishFailed(w)
    BY <2>14 DEF PublishFailed, Publishing, Perhaps, GiveUp, Settle, Goto
  <2>15. CASE SendDeadLetter(w)
    BY <2>15 DEF SendDeadLetter, DeadLettering, Settle, Goto
  <2>16. CASE DeadLetterRetried(w)
    BY <2>16 DEF DeadLetterRetried, DeadLettering, Perhaps, SendRetried
  <2>17. CASE DeadLetterFailed(w)
    <3>1. CASE GiveUp(w)
      BY <2>17, <3>1 DEF DeadLetterFailed, DeadLettering, Perhaps, GiveUp, Settle, Goto
    <3>2. CASE Retry(w) /\ Strike({w}) /\ UNCHANGED committed
      <4>1. /\ pc[w] = "deadLettering" /\ pc'[w] \notin Busy
            /\ \A v \in Workers \ {w} : pc'[v] = pc[v] /\ msg'[v] = msg[v]
            /\ UNCHANGED << committed, owner, position >>
        BY <2>17, <3>2, RetryMoves DEF DeadLetterFailed, DeadLettering
      <4>2. Settled' \in {Settled, Settled \cup {msg[w]}}
        BY <2>17, <3>2 DEF DeadLetterFailed, Perhaps, Retry
      <4>3. struck' = struck \cup ({msg[w]} \ 0..committed)
        BY <3>2 DEF Strike
      <4>4. \A v \in Workers : pc'[v] \in Busy /\ msg'[v] \notin struck' =>
              owner' = v /\ position' = msg'[v] /\ msg'[v] = committed' + 1
        BY <4>1, <4>3
      <4>5. committed' + 1 \in Settled' \ struck' =>
              \E v \in Workers : pc'[v] \in Busy /\ msg'[v] = committed' + 1
        <5> SUFFICES ASSUME committed' + 1 \in Settled' \ struck'
                     PROVE  \E v \in Workers : pc'[v] \in Busy /\ msg'[v] = committed' + 1
          OBVIOUS
        <5>1. msg[w] # committed + 1
          BY <4>1, <4>3
        <5>2. PICK v \in Workers : pc[v] \in Busy /\ msg[v] = committed + 1
          BY <4>1, <4>2, <4>3, <5>1
        <5> QED
          BY <4>1, <5>1, <5>2
      <4> QED
        BY <4>4, <4>5
    <3> QED
      BY <2>17, <3>1, <3>2 DEF DeadLetterFailed
  <2>18. CASE PollFailed(w)
    <3>1. /\ pc[w] = "polling" /\ pc'[w] \notin Busy
          /\ \A v \in Workers \ {w} : pc'[v] = pc[v] /\ msg'[v] = msg[v]
          /\ UNCHANGED << committed, owner, position, struck, Settled >>
      BY <2>18, RetryMoves DEF PollFailed, Settled
    <3> QED
      BY <3>1
  <2>19. CASE Assign(w)
    BY <2>19 DEF Assign, Strike, Goto
  <2>20. CASE Launch(w)
    BY <2>20 DEF Launch, Goto
  <2>21. CASE Signal(w)
    BY <2>21 DEF Signal, Goto
  <2>22. CASE Crash(w)
    BY <2>22 DEF Crash, Exit, Leave, Strike, Goto
  <2>23. CASE PollPoison(w)
    BY <2>23 DEF PollPoison, Poll, Deliver, Goto
  <2>24. CASE PublishUnbuilt(w)
    BY <2>24 DEF PublishUnbuilt, GiveUp, Settle, Goto
  <2>25. CASE DeadLetterUnbuilt(w)
    BY <2>25 DEF DeadLetterUnbuilt, GiveUp, Settle, Goto
  <2> QED
    BY <1>b, <2>1, <2>2, <2>3, <2>4, <2>5, <2>6, <2>7, <2>8, <2>9, <2>10, <2>11,
       <2>12, <2>13, <2>14, <2>15, <2>16, <2>17, <2>18, <2>19, <2>20, <2>21,
       <2>22, <2>23, <2>24, <2>25 DEF Own
<1>c. CASE UNCHANGED vars
  BY <1>c DEF vars
<1> QED
  BY <1>a, <1>b, <1>c DEF Next

\* The invariant holds in every reachable state.
THEOREM InvCorrect == Spec => []IInv
<1>1. IInv /\ [Next]_vars => IInv'
  <2> SUFFICES ASSUME IInv, [Next]_vars PROVE IInv'
    OBVIOUS
  <2>1. TypeOK /\ MembersConnected
    BY DEF IInv
  <2> QED
    BY <2>1, TypeStep, MembersStep, PrefixStep, InHandStep, PositionStep,
       CommittingStep, UndecodableStep DEF IInv
<1> QED
  BY InitInv, <1>1, PTL DEF Spec

\* The type invariant of the pipeline.
THEOREM TypeCorrect == Spec => []TypeOK
<1>1. IInv => TypeOK
  BY DEF IInv
<1> QED
  BY <1>1, InvCorrect, PTL

\* A message that could not be decoded, and whose dead letter can be built, is only
\* committed once the dead letter queue has it, whatever sends and commits fail; a
\* message that ends the process is never committed.
THEOREM UndecodableCorrect == Spec => []UndecodableKept
<1>1. IInv => UndecodableKept
  BY DEF IInv
<1> QED
  BY <1>1, InvCorrect, PTL

\* No pod, not even one that lost the partition, works further ahead than the
\* message after the committed ones.
THEOREM InHandCorrect == Spec => []InHandIsNext
<1>1. IInv => InHandIsNext
  BY DEF IInv, TypeOK, InHand, Messages, InHandIsNext
<1> QED
  BY <1>1, InvCorrect, PTL

\* A pod that polls takes the message after the committed ones in hand, and only
\* the owner polls.
LEMMA TakesNext ==
  ASSUME IInv, [Next]_vars, NEW w \in Workers, pc[w] = "polling", pc'[w] \in Busy
  PROVE  owner = w /\ msg'[w] = committed + 1
<1>1. PICK m \in Nat, to \in PC :
        owner = w /\ m = position + 1 /\ Deliver(w, m, to)
  <2>1. ASSUME NEW v \in Workers,
               Own(v) \/ PollFailed(v) \/ Assign(v) \/ Launch(v) \/ Signal(v) \/ Crash(v)
        PROVE  v = w /\ (PollTask(w) \/ PollOther(w))
    <3> USE DEF IInv, TypeOK, Busy
    <3>1. CASE Start(v) \/ StartRetried(v) \/ StartFailed(v) \/ Stop(v) \/ Launch(v)
      BY <3>1 DEF Start, StartRetried, StartFailed, Stop, Launch, Exit, Goto
    <3>2. CASE Assign(v) \/ Signal(v) \/ Crash(v) \/ \E ok \in BOOLEAN : Reconnect(v, ok)
      BY <3>2 DEF Assign, Signal, Crash, Exit, Reconnect, Goto, worker
    <3>3. CASE PollPoison(v) \/ Commit(v) \/ Execute(v)
      BY <3>3 DEF PollPoison, Poll, Deliver, Commit, Execute, Goto
    <3>4. CASE Retry(v)
      BY <3>4, RetryMoves
    <3>5. CASE PollUnconnected(v) \/ PollFailed(v) \/ CommitFailed(v)
      BY <3>4, <3>5 DEF PollUnconnected, PollFailed, CommitFailed, Goto
    <3>6. CASE Publish(v) \/ PublishRetried(v) \/ PublishFailed(v) \/ PublishUnbuilt(v)
      BY <3>6 DEF Publish, PublishRetried, PublishFailed, PublishUnbuilt, Publishing,
         GiveUp, SendRetried, Settle, Goto
    <3>7. CASE SendDeadLetter(v) \/ DeadLetterRetried(v) \/ DeadLetterUnbuilt(v)
      BY <3>7 DEF SendDeadLetter, DeadLetterRetried, DeadLetterUnbuilt, DeadLettering,
         GiveUp, SendRetried, Settle, Goto
    <3>8. CASE DeadLetterFailed(v)
      BY <3>4, <3>8 DEF DeadLetterFailed, DeadLettering, GiveUp, Settle, Goto
    <3>9. CASE PollTask(v) \/ PollOther(v)
      BY <3>9 DEF PollTask, PollOther, Poll, Deliver, Goto
    <3> QED
      BY <2>1, <3>1, <3>2, <3>3, <3>5, <3>6, <3>7, <3>8, <3>9 DEF Own
  <2>2. ~Produce /\ ~UNCHANGED vars
    BY DEF Produce, worker, vars, Busy
  <2>3. PollTask(w) \/ PollOther(w)
    BY <2>1, <2>2 DEF Next
  <2>4. position \in Nat
    BY DEF IInv, TypeOK
  <2> QED
    BY <2>3, <2>4 DEF PollTask, PollOther, Poll, PC, Busy
<1>2. position = committed
  BY <1>1 DEF IInv, OwnersPosition
<1>3. msg'[w] = position + 1
  BY <1>1 DEF Deliver, IInv, TypeOK
<1> QED
  BY <1>1, <1>2, <1>3

\* What was not struck is taken in hand once.
LEMMA RepeatStep ==
  ASSUME IInv, FirstHand, [Next]_vars, NEW w \in Workers,
         pc[w] = "polling", pc'[w] \in Busy,
         \/ msg'[w] \in Settled
         \/ \E v \in Workers \ {w} : pc[v] \in Busy /\ msg[v] = msg'[w]
  PROVE  msg'[w] \in struck
<1>1. owner = w /\ msg'[w] = committed + 1
  BY TakesNext
<1> SUFFICES ASSUME msg'[w] \notin struck PROVE FALSE
  OBVIOUS
<1>2. PICK v \in Workers : pc[v] \in Busy /\ msg[v] = msg'[w]
  BY <1>1 DEF FirstHand
<1>3. owner = v
  BY <1>2 DEF FirstHand
<1>4. v # w
  BY <1>2 DEF Busy
<1> QED
  BY <1>1, <1>3, <1>4

\* A pod takes a message in hand that is settled, or that another pod has, only
\* after a fault struck a pod that had it, for any number of pods and messages.
THEOREM RepeatCorrect == Spec => RepeatNeedsFault
<1>1. Init => FirstHand
  BY DEF Init, FirstHand, Settled, Busy
<1>2. IInv /\ FirstHand /\ [Next]_vars => FirstHand'
  BY FirstHandStep
<1>3. IInv /\ FirstHand /\ [Next]_vars =>
        [\A w \in Workers :
           /\ pc[w] = "polling" /\ pc'[w] \in Busy
           /\ \/ msg'[w] \in Settled
              \/ \E v \in Workers \ {w} : pc[v] \in Busy /\ msg[v] = msg'[w]
           => msg'[w] \in struck]_vars
  BY RepeatStep
<1> QED
  BY <1>1, <1>2, <1>3, InvCorrect, PTL DEF Spec, RepeatNeedsFault

\* Settling the message in hand is a Settle of the promise, or no change.
LEMMA SettlesOne ==
  ASSUME IInv, NEW w \in Workers, pc[w] \in Busy,
         Settled' \in {Settled, Settled \cup {msg[w]}}, UNCHANGED << log, committed >>
  PROVE  [Promise!Next]_(Promise!vars)
<1>1. Len(log) \in Nat /\ committed \in Nat
  BY DEF IInv, TypeOK
<1>2. msg[w] \in 1..Len(log) /\ msg[w] =< committed + 1
  BY DEF IInv, InHand, Messages
<1>3. 1..committed \subseteq Settled
  BY DEF IInv, SettledPrefix
<1>4. CASE Settled' = Settled \cup {msg[w]} /\ msg[w] = committed + 1
  BY <1>1, <1>2, <1>4 DEF Promise!Next, Promise!Settle
<1>5. CASE Settled' = Settled \/ msg[w] \in Settled
  BY <1>5 DEF Promise!vars
<1> HIDE DEF Settled
<1> QED
  BY <1>1, <1>2, <1>3, <1>4, <1>5

\* A commit passes the next message, which is settled, or none.
LEMMA CommitsOne ==
  ASSUME IInv, NEW w \in Workers, pc[w] = "committing",
         committed' \in {committed, IF owner = w THEN position ELSE committed},
         UNCHANGED << log, told >>
  PROVE  [Promise!Next]_(Promise!vars)
<1>1. msg[w] \in Settled
  BY DEF IInv, CommittingSettled
<1>2. owner = w => position = committed \/ (position = committed + 1 /\ msg[w] = position)
  BY DEF IInv, OwnersPosition, Busy
<1>3. Settled' = Settled
  BY DEF Settled, outcome, told
<1>4. committed' = committed \/ (committed' = committed + 1 /\ committed + 1 \in Settled)
  BY <1>1, <1>2
<1> QED
  BY <1>3, <1>4 DEF Promise!Next, Promise!Commit, Promise!vars

\* Every step of the pipeline is a step of the promise.
LEMMA PromiseStep ==
  ASSUME IInv, [Next]_vars PROVE [Promise!Next]_(Promise!vars)
<1> USE DEF outcome, told
<1>1. CASE UNCHANGED << log, committed, told >>
  BY <1>1 DEF Promise!vars, Settled
<1>2. CASE Produce
  <2>1. Len(log') = Len(log) + 1
    BY <1>2 DEF Produce, IInv, TypeOK
  <2> QED
    BY <1>2, <2>1 DEF Produce, Promise!Next, Promise!Produce, Settled
<1>3. ASSUME NEW w \in Workers,
             Own(w) \/ PollFailed(w) \/ Assign(w) \/ Launch(w) \/ Signal(w) \/ Crash(w)
      PROVE  [Promise!Next]_(Promise!vars)
  <2>1. CASE Start(w)
    BY <2>1, <1>1 DEF Start
  <2>2. CASE StartRetried(w)
    BY <2>2, <1>1 DEF StartRetried
  <2>3. CASE StartFailed(w)
    BY <2>3, <1>1 DEF StartFailed, Exit, Leave
  <2>4. CASE PollTask(w)
    BY <2>4, <1>1 DEF PollTask, Deliver
  <2>5. CASE PollOther(w)
    BY <2>5, <1>1 DEF PollOther, Deliver
  <2>6. CASE PollUnconnected(w)
    BY <2>6, <1>1 DEF PollUnconnected, Retry
  <2>7. CASE \E ok \in BOOLEAN : Reconnect(w, ok)
    BY <2>7, <1>1 DEF Reconnect, Leave
  <2>8. CASE Commit(w)
    BY <2>8, CommitsOne DEF Commit
  <2>9. CASE CommitFailed(w)
    BY <2>9, CommitsOne DEF CommitFailed, Retry
  <2>10. CASE Stop(w)
    BY <2>10, <1>1 DEF Stop, Exit, Leave
  <2>11. CASE Execute(w)
    BY <2>11, <1>1 DEF Execute
  <2>12. CASE Publish(w)
    <3>1. Settled' = Settled \cup {msg[w]}
      BY <2>12 DEF Publish, Settled
    <3> QED
      BY <2>12, <3>1, SettlesOne DEF Publish, Publishing, Settle, Busy
  <2>13. CASE PublishRetried(w)
    <3>1. Settled' \in {Settled, Settled \cup {msg[w]}}
      BY <2>13 DEF PublishRetried, Perhaps, SendRetried, Settled
    <3> QED
      BY <2>13, <3>1, SettlesOne DEF PublishRetried, Publishing, SendRetried, Busy
  <2>14. CASE PublishFailed(w)
    <3>1. Settled' = Settled \cup {msg[w]}
      BY <2>14 DEF PublishFailed, Perhaps, GiveUp, Settled
    <3> QED
      BY <2>14, <3>1, SettlesOne DEF PublishFailed, Publishing, GiveUp, Settle, Busy
  <2>15. CASE SendDeadLetter(w)
    <3>1. Settled' = Settled \cup {msg[w]}
      BY <2>15 DEF SendDeadLetter, Settled
    <3> QED
      BY <2>15, <3>1, SettlesOne DEF SendDeadLetter, DeadLettering, Settle, Busy
  <2>16. CASE DeadLetterRetried(w)
    <3>1. Settled' \in {Settled, Settled \cup {msg[w]}}
      BY <2>16 DEF DeadLetterRetried, Perhaps, SendRetried, Settled
    <3> QED
      BY <2>16, <3>1, SettlesOne DEF DeadLetterRetried, DeadLettering, SendRetried, Busy
  <2>17. CASE DeadLetterFailed(w)
    <3>1. /\ Settled' \in {Settled, Settled \cup {msg[w]}}
          /\ UNCHANGED << log, committed >>
      <4>1. CASE GiveUp(w)
        BY <2>17, <4>1 DEF DeadLetterFailed, Perhaps, GiveUp, Settle, Settled
      <4>2. CASE Retry(w) /\ UNCHANGED committed
        BY <2>17, <4>2 DEF DeadLetterFailed, Perhaps, Retry, Settled
      <4> QED
        BY <2>17, <4>1, <4>2 DEF DeadLetterFailed
    <3> QED
      BY <2>17, <3>1, SettlesOne DEF DeadLetterFailed, DeadLettering, Busy
  <2>18. CASE PollFailed(w)
    BY <2>18, <1>1 DEF PollFailed, Retry
  <2>19. CASE Assign(w)
    BY <2>19, <1>1 DEF Assign
  <2>20. CASE Launch(w)
    BY <2>20, <1>1 DEF Launch
  <2>21. CASE Signal(w)
    BY <2>21, <1>1 DEF Signal
  <2>22. CASE Crash(w)
    BY <2>22, <1>1 DEF Crash, Exit, Leave
  <2>23. CASE PollPoison(w)
    BY <2>23, <1>1 DEF PollPoison, Deliver
  <2>24. CASE PublishUnbuilt(w)
    <3>1. Settled' = Settled \cup {msg[w]}
      BY <2>24 DEF PublishUnbuilt, GiveUp, Settled
    <3> QED
      BY <2>24, <3>1, SettlesOne DEF PublishUnbuilt, GiveUp, Settle, Busy
  <2>25. CASE DeadLetterUnbuilt(w)
    <3>1. Settled' = Settled \cup {msg[w]}
      BY <2>25 DEF DeadLetterUnbuilt, GiveUp, Settled
    <3> QED
      BY <2>25, <3>1, SettlesOne DEF DeadLetterUnbuilt, GiveUp, Settle, Busy
  <2> QED
    BY <1>3, <2>1, <2>2, <2>3, <2>4, <2>5, <2>6, <2>7, <2>8, <2>9, <2>10, <2>11,
       <2>12, <2>13, <2>14, <2>15, <2>16, <2>17, <2>18, <2>19, <2>20, <2>21,
       <2>22, <2>23, <2>24, <2>25 DEF Own
<1>4. CASE UNCHANGED vars
  BY <1>4, <1>1 DEF vars
<1> QED
  BY <1>2, <1>3, <1>4 DEF Next

\* The consumer group keeps the promise of AtLeastOnce: only settled messages
\* are committed, in order, and at most one is settled and not committed.
THEOREM PromiseKept == Spec => ImplementsPromise
<1>1. Init => Promise!Init
  BY DEF Init, Promise!Init, Settled
<1>2. QED
  BY <1>1, InvCorrect, PromiseStep, PTL DEF Spec, ImplementsPromise, Promise!Spec
=============================================================================
