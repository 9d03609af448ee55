---------------------------- MODULE CountedPool ----------------------------
(***************************************************************************)
(* A pool of sessions in numbers: the value of its semaphore, how many     *)
(* sessions it lists, how many of them are on offer, and where each user   *)
(* is between asking for a session and giving it back.  It is what         *)
(* SessionPool shows of one pool to SessionPoolManager, and what           *)
(* PoolManager keeps of each of its pools: both are shown to implement it. *)
(***************************************************************************)
EXTENDS Naturals, FiniteSets

CONSTANTS
  Users,       \* tasks
  MaxSessions  \* the limit, and the semaphore's first value

VARIABLES
  permits,  \* value of the semaphore
  listed,   \* number of sessions the pool keeps
  idle,     \* number of those on offer
  place     \* where each user is

vars == << permits, listed, idle, place >>

\* A user has a permit everywhere but in the first two places; a stray one uses
\* a session that the pool was closed under.
Places == {"out", "waiting", "entering", "connecting", "using", "stray"}

Init ==
  /\ permits = MaxSessions
  /\ listed = 0 /\ idle = 0
  /\ place = [u \in Users |-> "out"]

Goto(u, to) == place' = [place EXCEPT ![u] = to]
Leave(u) == Goto(u, "out") /\ permits' = permits + 1

\* Nobody is connecting: the lock is free for whoever is at it.
Unlocked == \A u \in Users : place[u] # "connecting"

\* Sessions are connected in advance, before there are users.
Open(n) ==
  /\ \A u \in Users : place[u] = "out"
  /\ listed + n <= MaxSessions
  /\ listed' = listed + n /\ idle' = idle + n
  /\ UNCHANGED << permits, place >>

Ask(u) == place[u] = "out" /\ Goto(u, "waiting") /\ UNCHANGED << permits, listed, idle >>
GiveUp(u) == place[u] = "waiting" /\ Goto(u, "out") /\ UNCHANGED << permits, listed, idle >>

TakePermit(u) ==
  /\ place[u] = "waiting" /\ permits > 0
  /\ Goto(u, "entering")
  /\ permits' = permits - 1
  /\ UNCHANGED << listed, idle >>

TakeIdle(u) ==
  /\ place[u] = "entering" /\ Unlocked
  /\ idle > 0
  /\ Goto(u, "using")
  /\ idle' = idle - 1
  /\ UNCHANGED << permits, listed >>

\* A session is only connected when none is on offer and there is room.
StartConnect(u) ==
  /\ place[u] = "entering" /\ Unlocked
  /\ idle = 0 /\ listed < MaxSessions
  /\ Goto(u, "connecting")
  /\ UNCHANGED << permits, listed, idle >>

Connected(u) ==
  /\ place[u] = "connecting"
  /\ Goto(u, "using")
  /\ listed' = listed + 1
  /\ UNCHANGED << permits, idle >>

\* Refused, failed or cancelled: before it has a session, or with one that stays
\* listed and is not offered again, or with one that the pool does not list.
Fail(u) ==
  /\ place[u] \in Places \ {"out", "waiting"}
  /\ Leave(u)
  /\ UNCHANGED << listed, idle >>

Return(u) ==
  /\ place[u] = "using"
  /\ Leave(u)
  /\ idle' = idle + 1
  /\ UNCHANGED listed

\* A session on offer turns out to be broken.
Break ==
  /\ idle > 0
  /\ idle' = idle - 1
  /\ UNCHANGED << permits, listed, place >>

\* The pool is closed under those that use its sessions.
Close ==
  /\ Unlocked
  /\ listed' = 0 /\ idle' = 0
  /\ place' = [u \in Users |-> IF place[u] = "using" THEN "stray" ELSE place[u]]
  /\ UNCHANGED permits

Next ==
  \/ \E n \in 0..MaxSessions : Open(n)
  \/ \E u \in Users :
       \/ Ask(u) \/ GiveUp(u) \/ TakePermit(u)
       \/ TakeIdle(u) \/ StartConnect(u) \/ Connected(u)
       \/ Fail(u) \/ Return(u)
  \/ Break
  \/ Close

\* A step, or none that shows.
Step == UNCHANGED vars \/ Next

Spec == Init /\ [][Step]_vars

-----------------------------------------------------------------------------
(* What the counts promise                                                  *)

At(P) == {u \in Users : place[u] \in P}

\* Every permit is in the semaphore or with one user.
Balanced == permits + Cardinality(At(Places \ {"out", "waiting"})) = MaxSessions

\* The list has room for the session that is being connected.
RoomKept == listed + Cardinality(At({"connecting"})) =< MaxSessions

\* A session on offer is in nobody's use: both are counted among the listed.
OfferedOnce == idle + Cardinality(At({"using"})) =< listed

\* A user with a permit that finds nothing on offer and no room is kept from a
\* session by a broken one: those in use are fewer than those listed.
StarvedByBroken ==
  At({"entering"}) # {} /\ idle = 0 /\ listed = MaxSessions =>
    Cardinality(At({"using"})) < listed

Promises == Balanced /\ RoomKept /\ OfferedOnce /\ StarvedByBroken
=============================================================================
