---------------------------- MODULE LimitedPool ----------------------------
(***************************************************************************)
(* What a pool of FTP sessions promises the tasks that acquire one from    *)
(* it: each session has at most one user, at most MaxSessions are lent at  *)
(* any time and at most MaxSessions are kept, also when the pool is closed *)
(* under its users; a session comes into the pool for good or not at all.  *)
(***************************************************************************)
EXTENDS Naturals, FiniteSets

CONSTANTS
  Users,       \* tasks
  Sessions,    \* FTP sessions
  NoSession,   \* what a user has who has none
  MaxSessions  \* the limit

VARIABLES
  listed,  \* the sessions that the pool keeps
  user     \* the session of each user

vars == << listed, user >>

Served == {u \in Users : user[u] # NoSession}
Lent   == {user[u] : u \in Served}

Init == listed = {} /\ user = [u \in Users |-> NoSession]

\* A session in nobody's hands joins the pool, if there is room.
Joins(s) ==
  /\ s \notin listed \cup Lent
  /\ Cardinality(listed) < MaxSessions
  /\ listed' = listed \cup {s}

Give(u, s) ==
  /\ user[u] = NoSession
  /\ s \notin Lent
  /\ Cardinality(Served) < MaxSessions
  /\ user' = [user EXCEPT ![u] = s]

Open(s) == Joins(s) /\ UNCHANGED user
LendNew(u, s) == Joins(s) /\ Give(u, s)
Lend(u, s) == s \in listed /\ Give(u, s) /\ UNCHANGED listed

Return(u) ==
  /\ user[u] # NoSession
  /\ user' = [user EXCEPT ![u] = NoSession]
  /\ UNCHANGED listed

\* The pool is closed, whoever still has a session.
Clear == listed' = {} /\ UNCHANGED user

Next ==
  \/ \E s \in Sessions : Open(s)
  \/ \E u \in Users, s \in Sessions : LendNew(u, s) \/ Lend(u, s)
  \/ \E u \in Users : Return(u)
  \/ Clear

Spec == Init /\ [][Next]_vars
=============================================================================
