---------------------------- MODULE AtLeastOnce ----------------------------
(***************************************************************************)
(* What the consumers promise the producers of one partition of the task   *)
(* topic: the committed offset only passes messages that were settled, and *)
(* at most one settled message is ever outstanding, so a crash or a        *)
(* rebalance makes the group repeat at most one message.                   *)
(***************************************************************************)
EXTENDS Naturals

CONSTANT MaxLength  \* bound on the messages of the partition

VARIABLES
  produced,   \* messages in the partition: 1..produced
  committed,  \* the group's committed offset: messages 1..committed are done
  settled     \* messages answered, dead-lettered or given up with an error logged

vars == << produced, committed, settled >>

Init == produced = 0 /\ committed = 0 /\ settled = {}

Produce ==
  /\ produced < MaxLength
  /\ produced' = produced + 1
  /\ UNCHANGED << committed, settled >>

\* Only the message after the committed ones, perhaps once more, is settled.
Settle ==
  /\ committed < produced
  /\ settled' = settled \cup {committed + 1}
  /\ UNCHANGED << produced, committed >>

Commit ==
  /\ committed + 1 \in settled
  /\ committed' = committed + 1
  /\ UNCHANGED << produced, settled >>

Next == Produce \/ Settle \/ Commit

Spec == Init /\ [][Next]_vars
=============================================================================
