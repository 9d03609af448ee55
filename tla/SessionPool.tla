----------------------------- MODULE SessionPool -----------------------------
(***************************************************************************)
(* One SessionPool (pool/manager.py) and the FTPSession objects it keeps   *)
(* (pool/session.py): warm-up, acquisition under the semaphore and the     *)
(* lock, transfers, timeouts, health probes and close_all.                 *)
(*                                                                         *)
(* The program runs on one asyncio loop, so the code between two awaits    *)
(* that suspend is one step.  Each action ends where the code suspends.    *)
(* A session object nobody refers to any more is reused for the next one   *)
(* that is created, which keeps Sessions small.                            *)
(***************************************************************************)
EXTENDS Naturals, FiniteSets

CONSTANTS
  Callers,      \* coroutines that run `async with pool.acquire()`
  Sessions,     \* FTPSession objects
  NoSession,    \* "no session": the value of the local variable before it is set
  MaxSessions,  \* max_sessions_per_connection
  Prewarm       \* prewarm_sessions_per_connection, 0 when prewarm_enabled is off

ASSUME MaxSessionsAssumption == MaxSessions \in Nat \ {0}
ASSUME PrewarmAssumption     == Prewarm \in Nat
ASSUME NoSessionAssumption   == NoSession \notin Sessions
ASSUME FiniteAssumption      == IsFiniteSet(Callers) /\ IsFiniteSet(Sessions)

VARIABLES
  phase,      \* life of the pool
  sessions,   \* SessionPool._sessions
  state,      \* FTPSession._state
  client,     \* the sessions whose _client is not None
  permits,    \* value of SessionPool._semaphore
  locked,     \* SessionPool._lock
  pc,         \* where each caller is suspended
  session,    \* the caller's local `session`
  warming,    \* sessions whose connect() warm_up is waiting for
  probing,    \* sessions with the PWD of a health check in flight
  abandoned   \* connected sessions whose last transfer was cut off by a timeout

vars == << phase, sessions, state, client, permits, locked, pc, session,
           warming, probing, abandoned >>
pool == << phase, sessions, locked >>

SessionState == {"idle", "busy", "disconnected", "error"}
Phase        == {"cold", "warming", "open", "closing", "closed"}
Place        == {"outside", "waiting", "permitted", "connecting", "transferring"}

TypeOK ==
  /\ phase \in Phase
  /\ sessions \subseteq Sessions
  /\ state \in [Sessions -> SessionState]
  /\ client \subseteq Sessions
  /\ permits \in Nat
  /\ locked \in BOOLEAN
  /\ pc \in [Callers -> Place]
  /\ session \in [Callers -> Sessions \cup {NoSession}]
  /\ warming \subseteq Sessions
  /\ probing \subseteq Sessions
  /\ abandoned \subseteq Sessions

Init ==
  /\ phase = "cold"
  /\ sessions = {}
  /\ state = [s \in Sessions |-> "disconnected"]
  /\ client = {}
  /\ permits = MaxSessions
  /\ locked = FALSE
  /\ pc = [c \in Callers |-> "outside"]
  /\ session = [c \in Callers |-> NoSession]
  /\ warming = {}
  /\ probing = {}
  /\ abandoned = {}

Held  == {s \in Sessions : \E c \in Callers : session[c] = s}
Fresh == Sessions \ (sessions \cup Held \cup warming \cup probing)

-----------------------------------------------------------------------------
(* SessionPool.warm_up, awaited by Application.initialize before the first  *)
(* task is consumed and before the API is served.                           *)

Needed == IF Prewarm <= MaxSessions THEN Prewarm ELSE MaxSessions

\* One create_session_safe() per missing session, all connecting at once and
\* without the lock; the early return when nothing is needed.
WarmUpStart ==
  /\ phase = "cold"
  /\ \E W \in SUBSET Fresh :
       /\ Cardinality(W) = Needed
       /\ warming' = W
       /\ client' = client \cup W
  /\ phase' = IF Needed = 0 THEN "open" ELSE "warming"
  /\ UNCHANGED << sessions, state, permits, locked, pc, session, probing, abandoned >>

WarmUpConnected(s) ==
  /\ s \in warming
  /\ warming' = warming \ {s}
  /\ sessions' = sessions \cup {s}
  /\ state' = [state EXCEPT ![s] = "idle"]
  /\ UNCHANGED << phase, client, permits, locked, pc, session, probing, abandoned >>

\* create_session_safe swallows the ConnectionError; the object is dropped.
WarmUpFailed(s) ==
  /\ s \in warming
  /\ warming' = warming \ {s}
  /\ state' = [state EXCEPT ![s] = "error"]
  /\ client' = client \ {s}
  /\ UNCHANGED << pool, permits, pc, session, probing, abandoned >>

\* gather() is complete.
WarmUpReturn ==
  /\ phase = "warming"
  /\ warming = {}
  /\ phase' = "open"
  /\ UNCHANGED << sessions, state, client, permits, locked, pc, session,
                  warming, probing, abandoned >>

\* asyncio.timeout cancels gather() and the connects still running; what was
\* appended to _sessions meanwhile stays there.
WarmUpTimeout ==
  /\ phase = "warming"
  /\ warming # {}
  /\ warming' = {}
  /\ phase' = "open"
  /\ UNCHANGED << sessions, state, client, permits, locked, pc, session,
                  probing, abandoned >>

-----------------------------------------------------------------------------
(* SessionPool.acquire around one FTPSession.download or upload.            *)

Served == phase \in {"open", "closing"}

Goto(c, place) == pc' = [pc EXCEPT ![c] = place]

\* The finally clause of acquire(): the permit goes back, the caller leaves.
Leave(c) ==
  /\ permits' = permits + 1
  /\ Goto(c, "outside")
  /\ session' = [session EXCEPT ![c] = NoSession]

\* acquire() is entered and awaits the semaphore.
Acquire(c) ==
  /\ Served
  /\ pc[c] = "outside"
  /\ Goto(c, "waiting")
  /\ UNCHANGED << pool, state, client, permits, session, warming, probing, abandoned >>

\* Mutant: a semaphore that does not block at zero.
TakePermitUnblocked(c) ==
  /\ pc[c] = "waiting"
  /\ permits' = permits - 1
  /\ Goto(c, "permitted")
  /\ UNCHANGED << pool, state, client, session, warming, probing, abandoned >>

\* The semaphore lets the caller through to the lock of _get_or_create_session.
TakePermit(c) ==
  /\ pc[c] = "waiting"
  /\ permits > 0
  /\ permits' = permits - 1
  /\ Goto(c, "permitted")
  /\ UNCHANGED << pool, state, client, session, warming, probing, abandoned >>

Idle         == {s \in sessions : state[s] = "idle"}
Disconnected == {s \in sessions : state[s] = "disconnected"}
Full         == Cardinality(sessions) >= MaxSessions

\* Mutant: the session is handed out without being marked busy.
TakeIdleUnmarked(c, s) ==
  /\ pc[c] = "permitted"
  /\ ~locked
  /\ s \in Idle
  /\ session' = [session EXCEPT ![c] = s]
  /\ Goto(c, "transferring")
  /\ UNCHANGED << pool, state, client, permits, warming, probing, abandoned >>

\* An available session is found; FTPSession.acquire and the head of the
\* transfer follow without suspending.
TakeIdle(c, s) ==
  /\ pc[c] = "permitted"
  /\ ~locked
  /\ s \in Idle
  /\ state' = [state EXCEPT ![s] = "busy"]
  /\ session' = [session EXCEPT ![c] = s]
  /\ Goto(c, "transferring")
  /\ UNCHANGED << pool, client, permits, warming, probing, abandoned >>

\* What connect() is called on when nothing is idle: a new session below the
\* limit, a disconnected one at the limit.
ConnectTargets == IF Full THEN Disconnected ELSE Fresh

\* Mutant: the lock is given up before the new session is connected.
StartConnectUnlocked(c, s) ==
  /\ pc[c] = "permitted"
  /\ ~locked
  /\ Idle = {}
  /\ s \in ConnectTargets
  /\ state' = [state EXCEPT ![s] = "disconnected"]
  /\ client' = client \cup {s}
  /\ abandoned' = abandoned \ {s}
  /\ session' = [session EXCEPT ![c] = s]
  /\ Goto(c, "connecting")
  /\ UNCHANGED << pool, permits, warming, probing >>

\* connect() suspends with the lock held.
StartConnect(c, s) ==
  /\ pc[c] = "permitted"
  /\ ~locked
  /\ Idle = {}
  /\ s \in ConnectTargets
  /\ locked' = TRUE
  /\ state' = [state EXCEPT ![s] = "disconnected"]
  /\ client' = client \cup {s}
  /\ abandoned' = abandoned \ {s}
  /\ session' = [session EXCEPT ![c] = s]
  /\ Goto(c, "connecting")
  /\ UNCHANGED << phase, sessions, permits, warming, probing >>

\* The condition under which _get_or_create_session raises RuntimeError.
Exhausted(c) ==
  /\ pc[c] = "permitted"
  /\ ~locked
  /\ Idle = {}
  /\ Full
  /\ Disconnected = {}

RaiseExhausted(c) ==
  /\ Exhausted(c)
  /\ Leave(c)
  /\ UNCHANGED << pool, state, client, warming, probing, abandoned >>

\* The session is appended, the lock released and the session made busy.
Connected(c) ==
  /\ pc[c] = "connecting"
  /\ sessions' = sessions \cup {session[c]}
  /\ state' = [state EXCEPT ![session[c]] = "busy"]
  /\ locked' = FALSE
  /\ Goto(c, "transferring")
  /\ UNCHANGED << phase, client, permits, session, warming, probing, abandoned >>

\* Mutant: the permit is not released on the error path.
ConnectFailedKeepsPermit(c) ==
  /\ pc[c] = "connecting"
  /\ state' = [state EXCEPT ![session[c]] = "error"]
  /\ client' = client \ {session[c]}
  /\ locked' = FALSE
  /\ Goto(c, "outside")
  /\ session' = [session EXCEPT ![c] = NoSession]
  /\ UNCHANGED << phase, sessions, permits, warming, probing, abandoned >>

ConnectFailed(c) ==
  /\ pc[c] = "connecting"
  /\ state' = [state EXCEPT ![session[c]] = "error"]
  /\ client' = client \ {session[c]}
  /\ locked' = FALSE
  /\ Leave(c)
  /\ UNCHANGED << phase, sessions, warming, probing, abandoned >>

\* download() or upload() returns.  An upload whose local file is missing
\* raises before its first await and leaves the same state: acquire() makes
\* the busy session idle again.
TransferOk(c) ==
  /\ pc[c] = "transferring"
  /\ state' = [state EXCEPT ![session[c]] = "idle"]
  /\ Leave(c)
  /\ UNCHANGED << pool, client, warming, probing, abandoned >>

\* Mutant: as above, for a failed transfer.
TransferFailedKeepsPermit(c) ==
  /\ pc[c] = "transferring"
  /\ state' = [state EXCEPT ![session[c]] = "error"]
  /\ Goto(c, "outside")
  /\ session' = [session EXCEPT ![c] = NoSession]
  /\ UNCHANGED << pool, client, permits, warming, probing, abandoned >>

TransferFailed(c) ==
  /\ pc[c] = "transferring"
  /\ state' = [state EXCEPT ![session[c]] = "error"]
  /\ Leave(c)
  /\ UNCHANGED << pool, client, warming, probing, abandoned >>

-----------------------------------------------------------------------------
(* asyncio.timeout of TransferEngine: CancelledError at the caller's await. *)
(* It is not an Exception, so no except clause of the session sees it.      *)

TimeOutWaiting(c) ==
  /\ pc[c] = "waiting"
  /\ Goto(c, "outside")
  /\ UNCHANGED << pool, state, client, permits, session, warming, probing, abandoned >>

TimeOutAtLock(c) ==
  /\ pc[c] = "permitted"
  /\ Leave(c)
  /\ UNCHANGED << pool, state, client, warming, probing, abandoned >>

TimeOutConnecting(c) ==
  /\ pc[c] = "connecting"
  /\ locked' = FALSE
  /\ Leave(c)
  /\ UNCHANGED << phase, sessions, state, client, warming, probing, abandoned >>

\* Mutant: FTPSession.acquire without its finally clause.
TimeOutTransferringStaysBusy(c) ==
  /\ pc[c] = "transferring"
  /\ abandoned' = abandoned \cup {session[c]}
  /\ Leave(c)
  /\ UNCHANGED << pool, state, client, warming, probing >>

\* The finally clause of FTPSession.acquire returns a busy session as idle.
TimeOutTransferring(c) ==
  /\ pc[c] = "transferring"
  /\ LET s == session[c] IN
       /\ state' = [state EXCEPT ![s] = IF @ = "busy" THEN "idle" ELSE @]
       /\ abandoned' = abandoned \cup {s}
  /\ Leave(c)
  /\ UNCHANGED << pool, client, warming, probing >>

-----------------------------------------------------------------------------
(* GET /pool/health -> SessionPool.health_check -> FTPSession.check_health. *)
(* No lock: a probe overlaps transfers, other probes and close_all.         *)

ProbeStart(s) ==
  /\ Served
  /\ s \in (sessions \cap client) \ probing
  /\ state[s] \in {"idle", "busy"}
  /\ probing' = probing \cup {s}
  /\ UNCHANGED << pool, state, client, permits, pc, session, warming, abandoned >>

ProbeOk(s) ==
  /\ s \in probing
  /\ probing' = probing \ {s}
  /\ UNCHANGED << pool, state, client, permits, pc, session, warming, abandoned >>

ProbeFailed(s) ==
  /\ s \in probing
  /\ probing' = probing \ {s}
  /\ state' = [state EXCEPT ![s] = "error"]
  /\ UNCHANGED << pool, client, permits, pc, session, warming, abandoned >>

-----------------------------------------------------------------------------
(* SessionPool.close_all                                                    *)

\* Mutant: close_all without the lock.
CloseStartUnlocked ==
  /\ phase = "open"
  /\ phase' = "closing"
  /\ UNCHANGED << sessions, state, client, permits, locked, pc, session, warming,
                  probing, abandoned >>

CloseStart ==
  /\ phase = "open"
  /\ ~locked
  /\ locked' = TRUE
  /\ phase' = "closing"
  /\ UNCHANGED << sessions, state, client, permits, pc, session, warming,
                  probing, abandoned >>

\* FTPSession.disconnect: QUIT was answered, or failed and was swallowed.
Disconnect(s) ==
  /\ phase = "closing"
  /\ s \in sessions \cap client
  /\ client' = client \ {s}
  /\ state' = [state EXCEPT ![s] = "disconnected"]
  /\ UNCHANGED << pool, permits, pc, session, warming, probing, abandoned >>

\* Every session was visited: the list is cleared and the lock released.
CloseReturn ==
  /\ phase = "closing"
  /\ sessions \cap client = {}
  /\ sessions' = {}
  /\ locked' = FALSE
  /\ phase' = "closed"
  /\ UNCHANGED << state, client, permits, pc, session, warming, probing, abandoned >>

\* The pool is closed and nobody uses it any more: the program has ended.
Stopped ==
  /\ phase = "closed"
  /\ probing = {}
  /\ \A c \in Callers : pc[c] = "outside"
  /\ UNCHANGED vars

-----------------------------------------------------------------------------
WarmUp ==
  \/ WarmUpStart \/ WarmUpReturn \/ WarmUpTimeout
  \/ \E s \in Sessions : WarmUpConnected(s) \/ WarmUpFailed(s)

GetSession(c) ==
  RaiseExhausted(c) \/ \E s \in Sessions : TakeIdle(c, s) \/ StartConnect(c, s)
EndConnect(c) == Connected(c) \/ ConnectFailed(c)
EndTransfer(c) == TransferOk(c) \/ TransferFailed(c)
TimeOut(c) ==
  \/ TimeOutWaiting(c) \/ TimeOutAtLock(c)
  \/ TimeOutConnecting(c) \/ TimeOutTransferring(c)

Caller(c) ==
  \/ Acquire(c) \/ TakePermit(c) \/ GetSession(c)
  \/ EndConnect(c) \/ EndTransfer(c) \/ TimeOut(c)

EndProbe(s) == ProbeOk(s) \/ ProbeFailed(s)

Close == CloseStart \/ CloseReturn \/ \E s \in Sessions : Disconnect(s)

Next ==
  \/ WarmUp
  \/ \E c \in Callers : Caller(c)
  \/ \E s \in Sessions : ProbeStart(s) \/ EndProbe(s)
  \/ Close
  \/ Stopped

Spec == Init /\ [][Next]_vars

\* The loop keeps running what is ready; the FTP server answers (or the
\* connection breaks); asyncio's Semaphore and Lock serve waiters in FIFO
\* order, hence the strong fairness.  Nothing is assumed of timeouts: the
\* liveness property must not rest on them.
Fairness ==
  /\ WF_vars(WarmUp)
  /\ WF_vars(\E s \in Sessions : EndProbe(s))
  /\ WF_vars(CloseReturn \/ \E s \in Sessions : Disconnect(s))
  /\ \A c \in Callers :
       /\ SF_vars(TakePermit(c))
       /\ SF_vars(GetSession(c))
       /\ WF_vars(EndConnect(c))
       /\ WF_vars(EndTransfer(c))

FairSpec == Spec /\ Fairness

-----------------------------------------------------------------------------
(* Safety                                                                   *)

\* Two callers never use the same session, and the session a caller is using
\* is not on offer to anybody (FTPSession.acquire, _get_or_create_session).
Exclusive ==
  /\ \A c, d \in Callers : session[c] = session[d] /\ session[c] # NoSession => c = d
  /\ \A c \in Callers : pc[c] = "transferring" => state[session[c]] # "idle"

\* The pool never keeps more than max_sessions sessions, whatever fails or is
\* cancelled during warm-up and connect (total_sessions < max_sessions).
WithinLimit == Cardinality(sessions) <= MaxSessions

Holders == {c \in Callers : pc[c] \in {"permitted", "connecting", "transferring"}}

\* Each permit is held by one caller inside acquire() or is back in the
\* semaphore: no failure, cancellation or close leaks one.
PermitsAccounted == permits + Cardinality(Holders) = MaxSessions

\* A caller that holds a permit and finds neither an idle session nor room for
\* another can only be starved by a session in state ERROR: _get_or_create_session
\* raises for no other reason.
ExhaustedOnlyByErrors ==
  \A c \in Callers : Exhausted(c) => \E s \in sessions : state[s] = "error"

\* Whoever gets the lock finds no session to reconnect: the reconnect branch
\* of _get_or_create_session never runs, so no session is ever revived.
NothingToReconnect == ~locked => Disconnected = {}

\* A session offered as idle has a client, in spite of close_all setting
\* _client to None under a running transfer that ends by setting IDLE.
IdleHasClient == ~locked => Idle \subseteq client

\* Open clients on sessions that nothing in the program refers to.
Leaked == client \ (sessions \cup Held \cup warming)

\* Only a connect() cut off by a timeout leaks one, and its session is still
\* DISCONNECTED: failures drop the client, and close_all ends all the others.
OnlyCutOffLeaks == \A s \in Leaked : state[s] = "disconnected"

\* Client, state and place of each session agree where the code relies on it.
ClientsMatchStates == NothingToReconnect /\ IdleHasClient /\ OnlyCutOffLeaks

\* The session that each caller transfers with.
lent == [c \in Callers |-> IF pc[c] = "transferring" THEN session[c] ELSE NoSession]

Promise == INSTANCE LimitedPool WITH Users <- Callers, listed <- sessions, user <- lent

\* The pool keeps the promise of LimitedPool: with its semaphore, its lock, the
\* states of its sessions, warm-up, failures, timeouts and close_all, no caller
\* sees more than sessions lent and returned one at a time.
ImplementsLimitedPool == Promise!Spec

\* The sessions that close_all has not begun to take away, those of them on
\* offer, and where that leaves each caller.
kept    == IF phase = "closing" THEN {} ELSE sessions
offered == {s \in kept : state[s] = "idle"}
placeOf(c) ==
  CASE pc[c] = "outside"      -> "out"
    [] pc[c] = "permitted"    -> "entering"
    [] pc[c] = "transferring" -> IF session[c] \in kept THEN "using" ELSE "stray"
    [] OTHER                  -> pc[c]
placed  == [c \in Callers |-> placeOf(c)]

Count == INSTANCE CountedPool WITH
  Users <- Callers, listed <- Cardinality(kept), idle <- Cardinality(offered), place <- placed

\* Seen in numbers the pool is a CountedPool, which is what PoolManager takes
\* each of its pools to be: a session returned, broken or taken away under its
\* user changes the counts as it does there, and close_all is one step, at the
\* moment it gets the lock.
ImplementsCountedPool == Count!Spec

-----------------------------------------------------------------------------
(* Liveness                                                                 *)

\* Every caller that enters acquire() gets out again: the semaphore, the lock
\* and close_all never block each other for good.
EveryCallerLeaves == \A c \in Callers : pc[c] = "waiting" ~> pc[c] = "outside"

-----------------------------------------------------------------------------
(* What the repository says and the code does not do                        *)

\* docs/ARCHITECTURE.md:255 "BUSY --> ERROR: error": a transfer that ended in an
\* error (TRANSFER_TIMEOUT is one) does not leave its session for the next caller.
NoAbandonedReuse ==
  \A c \in Callers : pc[c] = "transferring" => session[c] \notin abandoned
=============================================================================
