----------------------------- MODULE PoolManager -----------------------------
(***************************************************************************)
(* SessionPoolManager (pool/manager.py): the dictionary of pools, the      *)
(* pod-wide semaphore in front of them, warm_up_all, health_check and      *)
(* close_all.  Of each pool it keeps what SessionPool shows in detail: the *)
(* semaphore's value, how many sessions are listed, how many of those are  *)
(* on offer, and which callers use one.                                    *)
(*                                                                         *)
(* acquire() starts with a call of CircuitBreakerRegistry.get, a method    *)
(* that the code does not have.  Lookup says what that call does: it is    *)
(* {"missing"} for the code as it stands; with "returns", the rest of      *)
(* acquire() runs.  The breaker's coroutines are not awaited, so nothing   *)
(* they say matters.                                                       *)
(***************************************************************************)
EXTENDS Integers, FiniteSets, Sequences

CONSTANTS
  Caller,      \* tasks that call acquire()
  Connection,  \* connection ids that tasks name
  Known,       \* those the ConnectionRegistry has as FTP connections
  PodLimit,    \* PoolSettings.max_sessions_per_pod
  PoolLimit,   \* PoolSettings.max_sessions_per_connection
  Prewarm,     \* PoolSettings.prewarm_sessions_per_connection
  Lookup       \* what CircuitBreakerRegistry.get may do

ASSUME CallerAssumption == IsFiniteSet(Caller)
ASSUME ConnectionAssumption == Connection # {} /\ Known \subseteq Connection
\* config/settings.py: Field(ge=1), and ge=0 for the warm-up.
ASSUME LimitAssumption ==
  PodLimit \in Nat \ {0} /\ PoolLimit \in Nat \ {0} /\ Prewarm \in Nat
ASSUME LookupAssumption == Lookup \subseteq {"missing", "returns"}

VARIABLES
  phase,       \* "warming" until warm_up_all has returned, then "serving"
  podPermits,  \* value of _total_semaphore
  closer,      \* close_all: "idle", "closing" (it holds _lock) or "done"
  closing,     \* connections whose pools it has yet to close
  pools,       \* keys of _pools, in the order of their insertion
  epoch,       \* 1 once close_all has cleared _pools
  permits,     \* value of each pool's semaphore
  listed,      \* number of sessions in each pool's _sessions
  idle,        \* number of those on offer
  pc,          \* where each caller is
  target,      \* the connection it wants
  held,        \* the epoch of the pool object it was given
  surprises,   \* history: errors of the lookup, which acquire's docstring lacks
  check,       \* health_check: "idle" (or raised), "running" or "complete"
  size,        \* the size of _pools when its iteration began
  probed,      \* the pools it has read, in that order; the last is being probed
  overlap      \* history: whether a caller had a pool when close_all began

callers == << pc, target, held, surprises >>
content == << permits, listed, idle >>
checker == << check, size, probed >>
vars == << phase, podPermits, closer, closing, pools, epoch, content, callers, checker,
           overlap >>

\* What the local variables of a caller are while it has no call.
NoTarget == CHOOSE c \in Connection : TRUE

\* The pool objects: one for each connection before close_all and one after.
Pool == Connection \X {0, 1}
poolOf(k) == << target[k], held[k] >>

Waiting == {"wait_pod", "wait_lock", "wait_pool"}
Inside  == {"entering", "connecting", "using", "stray"}  \* with a permit of a pool
Holding == {"wait_lock", "wait_pool"} \cup Inside   \* and of the pod

Last(s) == s[Len(s)]
Keys == {pools[i] : i \in DOMAIN pools}
In(where) == {k \in Caller : pc[k] \in where}

TypeOK ==
  /\ phase \in {"warming", "serving"}
  /\ podPermits \in 0..PodLimit
  /\ closer \in {"idle", "closing", "done"}
  /\ closing \subseteq Connection
  /\ pools \in Seq(Connection)
  /\ epoch \in {0, 1}
  /\ permits \in [Pool -> 0..PoolLimit]
  /\ listed \in [Pool -> 0..PoolLimit]
  /\ idle \in [Pool -> 0..PoolLimit]
  /\ pc \in [Caller -> {"out"} \cup Waiting \cup Inside]
  /\ target \in [Caller -> Connection]
  /\ held \in [Caller -> {0, 1}]
  /\ surprises \subseteq {"AttributeError"}
  /\ check \in {"idle", "running", "complete"}
  /\ size \in Nat
  /\ probed \in Seq(Pool)
  /\ overlap \in BOOLEAN

Init ==
  /\ phase = "warming"
  /\ podPermits = PodLimit
  /\ closer = "idle" /\ closing = {}
  /\ pools = << >> /\ epoch = 0
  /\ permits = [p \in Pool |-> PoolLimit]
  /\ listed = [p \in Pool |-> 0]
  /\ idle = [p \in Pool |-> 0]
  /\ pc = [k \in Caller |-> "out"]
  /\ target = [k \in Caller |-> NoTarget]
  /\ held = [k \in Caller |-> 0]
  /\ surprises = {}
  /\ check = "idle" /\ size = 0 /\ probed = << >>
  /\ overlap = FALSE

-----------------------------------------------------------------------------
(* warm_up_all, awaited before anything else                                *)

\* The pool of one connection, with as many sessions as could be connected in
\* time.  No permit of the pod is asked for.
WarmUp(c) ==
  /\ phase = "warming"
  /\ c \in Known \ Keys
  /\ pools' = Append(pools, c)
  /\ \E n \in 0..PoolLimit :
       /\ n <= Prewarm
       /\ listed' = [listed EXCEPT ![<< c, 0 >>] = n]
       /\ idle' = [idle EXCEPT ![<< c, 0 >>] = n]
  /\ UNCHANGED << phase, podPermits, closer, closing, epoch, permits, callers, checker,
                  overlap >>

\* All have been warmed up, or prewarm_enabled is off.
Serve ==
  /\ phase = "warming"
  /\ Keys \in {{}, Known}
  /\ phase' = "serving"
  /\ UNCHANGED << podPermits, closer, closing, pools, epoch, content, callers, checker,
                  overlap >>

-----------------------------------------------------------------------------
(* acquire                                                                  *)

Goto(k, to) == pc' = [pc EXCEPT ![k] = to]

\* The finally clauses of both levels, as far as they have been entered.
Leave(k) ==
  /\ Goto(k, "out")
  /\ podPermits' = podPermits + (IF pc[k] \in Holding THEN 1 ELSE 0)
  /\ permits' = IF pc[k] \in Inside THEN [permits EXCEPT ![poolOf(k)] = @ + 1]
                                    ELSE permits
  /\ target' = [target EXCEPT ![k] = NoTarget]
  /\ held' = [held EXCEPT ![k] = 0]

dictionary == << pools, epoch >>
elsewhere == << phase, closer, closing, checker, overlap >>

\* Line 358 as it stands.
LookupFails(k) ==
  /\ "missing" \in Lookup
  /\ phase = "serving" /\ pc[k] = "out"
  /\ surprises' = surprises \cup {"AttributeError"}
  /\ UNCHANGED << pc, target, held, podPermits, content, dictionary, elsewhere >>

\* The un-awaited can_execute() is a coroutine object, and true.
Ask(k, c) ==
  /\ "returns" \in Lookup
  /\ phase = "serving" /\ pc[k] = "out"
  /\ Goto(k, "wait_pod")
  /\ target' = [target EXCEPT ![k] = c]
  /\ UNCHANGED << held, surprises, podPermits, content, dictionary, elsewhere >>

TakePod(k) ==
  /\ pc[k] = "wait_pod" /\ podPermits > 0
  /\ Goto(k, "wait_lock")
  /\ podPermits' = podPermits - 1
  /\ UNCHANGED << target, held, surprises, content, dictionary, elsewhere >>

\* _get_or_create_pool, once the lock is free: it does not suspend under it.
HasLock(k) == pc[k] = "wait_lock" /\ closer # "closing"

\* Mutant: the key is not looked up under the lock.
GetPoolUnchecked(k) ==
  /\ HasLock(k) /\ target[k] \in Known
  /\ Goto(k, "wait_pool")
  /\ held' = [held EXCEPT ![k] = epoch]
  /\ pools' = Append(pools, target[k])
  /\ UNCHANGED << epoch, target, surprises, podPermits, content, elsewhere >>

GetPool(k) ==
  /\ HasLock(k) /\ target[k] \in Known
  /\ Goto(k, "wait_pool")
  /\ held' = [held EXCEPT ![k] = epoch]
  /\ pools' = IF target[k] \in Keys THEN pools ELSE Append(pools, target[k])
  /\ UNCHANGED << epoch, target, surprises, podPermits, content, elsewhere >>

\* get_ftp knows no such connection.
GetPoolFails(k) ==
  /\ HasLock(k) /\ target[k] \notin Known
  /\ Leave(k)
  /\ UNCHANGED << surprises, listed, idle, dictionary, elsewhere >>

TakePool(k) ==
  /\ pc[k] = "wait_pool" /\ permits[poolOf(k)] > 0
  /\ Goto(k, "entering")
  /\ permits' = [permits EXCEPT ![poolOf(k)] = @ - 1]
  /\ UNCHANGED << target, held, surprises, podPermits, listed, idle,
                  dictionary, elsewhere >>

\* The pool's lock is held by a caller as long as its connect() is under way.
Unlocked(p) == \A k \in Caller : pc[k] = "connecting" => poolOf(k) # p
AtLock(k) == pc[k] = "entering" /\ Unlocked(poolOf(k))

\* _get_or_create_session: a session on offer.
EnterIdle(k) ==
  /\ AtLock(k) /\ idle[poolOf(k)] > 0
  /\ Goto(k, "using")
  /\ idle' = [idle EXCEPT ![poolOf(k)] = @ - 1]
  /\ UNCHANGED << target, held, surprises, podPermits, permits, listed,
                  dictionary, elsewhere >>

NoneIdle(k) == AtLock(k) /\ idle[poolOf(k)] = 0

\* Else a new one, if there is room; sessions may be returned meanwhile.
StartConnect(k) ==
  /\ NoneIdle(k) /\ listed[poolOf(k)] < PoolLimit
  /\ Goto(k, "connecting")
  /\ UNCHANGED << target, held, surprises, podPermits, content, dictionary, elsewhere >>

Connected(k) ==
  /\ pc[k] = "connecting"
  /\ Goto(k, "using")
  /\ listed' = [listed EXCEPT ![poolOf(k)] = @ + 1]
  /\ UNCHANGED << target, held, surprises, podPermits, permits, idle,
                  dictionary, elsewhere >>

\* Mutant: connect() is called before the try of the pool's acquire().
ConnectFailsKeepsPermit(k) ==
  /\ pc[k] = "connecting"
  /\ Goto(k, "out")
  /\ podPermits' = podPermits + 1
  /\ UNCHANGED << target, held, surprises, content, dictionary, elsewhere >>

ConnectFails(k) ==
  /\ pc[k] = "connecting"
  /\ Leave(k)
  /\ UNCHANGED << surprises, listed, idle, dictionary, elsewhere >>

\* Sessions in state ERROR, or in use, take all the room.
Refused(k) ==
  /\ NoneIdle(k) /\ listed[poolOf(k)] >= PoolLimit
  /\ Leave(k)
  /\ UNCHANGED << surprises, listed, idle, dictionary, elsewhere >>

\* The body of the caller's "async with" ends.
Return(k) ==
  /\ pc[k] = "using"
  /\ Leave(k)
  /\ idle' = [idle EXCEPT ![poolOf(k)] = @ + 1]
  /\ UNCHANGED << surprises, listed, dictionary, elsewhere >>

\* Mutant: only the pool's own permit comes back.
TransferFailsUnreleased(k) ==
  /\ pc[k] \in {"using", "stray"}
  /\ Goto(k, "out")
  /\ permits' = [permits EXCEPT ![poolOf(k)] = @ + 1]
  /\ UNCHANGED << target, held, surprises, podPermits, listed, idle, dictionary,
                  elsewhere >>

\* It raises, or a health check has found its session broken: the session stays
\* listed in state ERROR, unless close_all has taken it away.
TransferFails(k) ==
  /\ pc[k] \in {"using", "stray"}
  /\ Leave(k)
  /\ UNCHANGED << surprises, listed, idle, dictionary, elsewhere >>

\* It ends well with a session that close_all has disconnected.
StrayReturns(k) ==
  /\ pc[k] = "stray"
  /\ Leave(k)
  /\ UNCHANGED << surprises, listed, idle, dictionary, elsewhere >>

\* Mutant: the pod's permit is given back before it has been taken, too.
TimeOutReleasing(k) ==
  /\ pc[k] # "out"
  /\ Goto(k, "out")
  /\ podPermits' = podPermits + 1
  /\ permits' = IF pc[k] \in Inside THEN [permits EXCEPT ![poolOf(k)] = @ + 1]
                                    ELSE permits
  /\ UNCHANGED << target, held, surprises, listed, idle, dictionary, elsewhere >>

\* The engine's timeout, at whichever await the caller is.  A session in use
\* goes back on offer, as SessionPool shows.
TimeOut(k) ==
  /\ pc[k] # "out"
  /\ Leave(k)
  /\ idle' = IF pc[k] = "using" THEN [idle EXCEPT ![poolOf(k)] = @ + 1] ELSE idle
  /\ UNCHANGED << surprises, listed, dictionary, elsewhere >>

-----------------------------------------------------------------------------
(* close_all                                                                *)

CloseStart ==
  /\ phase = "serving" /\ closer = "idle"
  /\ closer' = "closing"
  /\ closing' = Keys
  /\ overlap' = (In({"wait_pool"} \cup Inside) # {})
  /\ UNCHANGED << phase, podPermits, dictionary, content, callers, checker >>

\* Mutant: the pool's close_all does not take the pool's lock.
CloseNextUnlocked(c) ==
  /\ closer = "closing" /\ c \in closing
  /\ closing' = closing \ {c}
  /\ listed' = [listed EXCEPT ![<< c, epoch >>] = 0]
  /\ idle' = [idle EXCEPT ![<< c, epoch >>] = 0]
  /\ pc' = [k \in Caller |-> IF pc[k] = "using" /\ poolOf(k) = << c, epoch >>
                             THEN "stray" ELSE pc[k]]
  /\ UNCHANGED << phase, closer, podPermits, dictionary, permits, target, held, surprises,
                  checker, overlap >>

\* One pool's close_all, once it has the pool's lock: its sessions are
\* disconnected, those in use as well.
CloseNext(c) ==
  /\ closer = "closing" /\ c \in closing
  /\ Unlocked(<< c, epoch >>)
  /\ closing' = closing \ {c}
  /\ listed' = [listed EXCEPT ![<< c, epoch >>] = 0]
  /\ idle' = [idle EXCEPT ![<< c, epoch >>] = 0]
  /\ pc' = [k \in Caller |-> IF pc[k] = "using" /\ poolOf(k) = << c, epoch >>
                             THEN "stray" ELSE pc[k]]
  /\ UNCHANGED << phase, closer, podPermits, dictionary, permits, target, held, surprises,
                  checker, overlap >>

\* Mutant: the dictionary is cleared although a pool is left.
CloseEndEarly ==
  /\ closer = "closing" /\ Cardinality(closing) <= 1
  /\ closer' = "done" /\ closing' = {}
  /\ pools' = << >> /\ epoch' = 1
  /\ UNCHANGED << phase, podPermits, content, callers, checker, overlap >>

CloseEnd ==
  /\ closer = "closing" /\ closing = {}
  /\ closer' = "done"
  /\ pools' = << >> /\ epoch' = 1
  /\ UNCHANGED << phase, closing, podPermits, content, callers, checker, overlap >>

-----------------------------------------------------------------------------
(* health_check, which iterates over _pools without the lock                *)

unprobed == << phase, closer, closing, dictionary, podPermits, permits, listed,
               callers, overlap >>

CheckStart ==
  /\ phase = "serving" /\ check # "running" /\ pools # << >>
  /\ check' = "running"
  /\ size' = Len(pools)
  /\ probed' = << << pools[1], epoch >> >>
  /\ UNCHANGED << unprobed, idle >>

\* An idle session of the pool that is being probed turns out broken.
ProbeBreaks ==
  /\ check = "running" /\ idle[Last(probed)] > 0
  /\ idle' = [idle EXCEPT ![Last(probed)] = @ - 1]
  /\ UNCHANGED << unprobed, checker >>

\* A pool has been probed, and the loop reads the next one.
CheckNext ==
  /\ check = "running"
  /\ Len(pools) = size /\ Len(probed) < size
  /\ probed' = Append(probed, << pools[Len(probed) + 1], epoch >>)
  /\ UNCHANGED << unprobed, idle, check, size >>

\* Mutant: the loop runs over a copy, and nothing is compared.
CheckEndUnchecked ==
  /\ check = "running" /\ Len(probed) = size
  /\ check' = "complete" /\ size' = 0 /\ probed' = << >>
  /\ UNCHANGED << unprobed, idle >>

CheckEnd ==
  /\ check = "running"
  /\ Len(pools) = size /\ Len(probed) = size
  /\ check' = "complete" /\ size' = 0 /\ probed' = << >>
  /\ UNCHANGED << unprobed, idle >>

\* RuntimeError: dictionary changed size during iteration.
CheckRaises ==
  /\ check = "running" /\ Len(pools) # size
  /\ check' = "idle" /\ size' = 0 /\ probed' = << >>
  /\ UNCHANGED << unprobed, idle >>

-----------------------------------------------------------------------------
Acquire(k) ==
  \/ LookupFails(k)
  \/ \E c \in Connection : Ask(k, c)
  \/ TakePod(k)
  \/ GetPool(k)
  \/ GetPoolFails(k)
  \/ TakePool(k)
  \/ EnterIdle(k)
  \/ StartConnect(k)
  \/ Connected(k)
  \/ ConnectFails(k)
  \/ Refused(k)
  \/ Return(k)
  \/ TransferFails(k)
  \/ StrayReturns(k)
  \/ TimeOut(k)

Next ==
  \/ \E c \in Connection : WarmUp(c) \/ CloseNext(c)
  \/ Serve
  \/ \E k \in Caller : Acquire(k)
  \/ CloseStart
  \/ CloseEnd
  \/ CheckStart
  \/ ProbeBreaks
  \/ CheckNext
  \/ CheckEnd
  \/ CheckRaises

Spec == Init /\ [][Next]_vars

-----------------------------------------------------------------------------
(* Properties                                                               *)

UsersOf(p) == {k \in In(Inside) : poolOf(k) = p}

\* The pod-wide semaphore: every permit is with a caller between line 371 and
\* the finally clause, or back.
PodPermitsAccounted == podPermits + Cardinality(In(Holding)) = PodLimit

\* The same of the semaphore of every pool object, across close_all.
PoolPermitsAccounted == \A p \in Pool : permits[p] + Cardinality(UsersOf(p)) = PoolLimit

\* No permit of either level is lost or given back twice, whichever way a caller
\* leaves acquire(): unknown connection, failed connect, failed transfer, timeout
\* at any await, with or without close_all meanwhile.
PermitsAccounted == PodPermitsAccounted /\ PoolPermitsAccounted

\* A pool that a caller was given is the pool of _pools under that key, and
\* there is one under each key: close_all and health_check will reach it, unless
\* _pools has been cleared since.
PoolsReachable ==
  /\ \A i, j \in DOMAIN pools : pools[i] = pools[j] => i = j
  /\ \A k \in In({"wait_pool"} \cup Inside) : held[k] = epoch => target[k] \in Keys

\* Sessions on offer and sessions in use are listed: none is handed out that
\* the pool has forgotten, and none is offered twice.
UseIsListed ==
  \A p \in Pool : idle[p] + Cardinality({k \in In({"using"}) : poolOf(k) = p}) <= listed[p]

\* What close_all leaves open in a pool that _pools no longer has was opened by
\* a caller that had the pool when close_all began: callers that come later wait
\* for the lock, and a shutdown without callers closes everything.
LeakNeedsOverlap ==
  epoch = 1 /\ ~overlap => \A c \in Connection : listed[<< c, 0 >>] = 0

\* A health check that returns has looked at every pool, also if pools were
\* added while it was suspended; unless close_all has cleared _pools since.
CheckIsComplete ==
  [][ /\ check = "running" /\ check' = "complete"
      /\ \A i \in DOMAIN probed : probed[i][2] = epoch
      => Keys \subseteq {probed[i][1] : i \in DOMAIN probed} ]_vars

\* What a caller waits for is there, or is the answer of a server.
CanGo(k) ==
  \/ pc[k] = "wait_pod" /\ podPermits > 0
  \/ HasLock(k)
  \/ pc[k] = "wait_pool" /\ permits[poolOf(k)] > 0
  \/ AtLock(k)
  \/ pc[k] \in {"connecting", "using", "stray"}

\* close_all finds the lock of its next pool free, whichever that is.
CloseCanGo == closer = "closing" /\ \A c \in closing : Unlocked(<< c, epoch >>)

\* The two semaphores and the two levels of locks, taken one while the other is
\* held, never leave everybody waiting: as long as somebody is in acquire() or
\* close_all has not ended, somebody can go on without a timeout's help.
NobodyStuck ==
  In(Waiting \cup Inside) # {} \/ closer = "closing" =>
    CloseCanGo \/ \E k \in Caller : CanGo(k)

\* Where the callers are with respect to one pool object.
shareOf(p) == [k \in Caller |->
  IF pc[k] \in {"wait_pool"} \cup Inside /\ poolOf(k) = p
  THEN IF pc[k] = "wait_pool" THEN "waiting" ELSE pc[k]
  ELSE "out"]

Share(p) == INSTANCE CountedPool WITH
  Users <- Caller, MaxSessions <- PoolLimit,
  permits <- permits[p], listed <- listed[p], idle <- idle[p], place <- shareOf(p)

\* Every pool object is all the time a pool as SessionPool implements it: with
\* several pools and two epochs, no caller's step, no close_all and no health
\* check takes a permit, a session or the lock of a pool that is not the one it
\* was given.
ImplementsCountedPools ==
  /\ \A p \in Pool : Share(p)!Init
  /\ [][\A p \in Pool : Share(p)!Step]_vars

\* Mutual waiting: callers hold a permit of the pod while they wait for a pool
\* or for the lock that close_all holds.  Each gets out all the same.
EveryCallerLeaves == \A k \in Caller : pc[k] # "out" ~> pc[k] = "out"

\* Where a caller in acquire() goes next, by itself.
Proceed(k) ==
  \/ TakePod(k) \/ GetPool(k) \/ GetPoolFails(k) \/ TakePool(k)
  \/ EnterIdle(k) \/ StartConnect(k) \/ Connected(k) \/ ConnectFails(k) \/ Refused(k)
  \/ Return(k) \/ TransferFails(k) \/ StrayReturns(k)

\* Fairness: the loop runs what is ready, servers answer or break, and asyncio's
\* semaphores and locks are first in, first out, so that a caller, or a close,
\* that could go on again and again does.  Nothing is assumed of timeouts.
FairSpec ==
  /\ Spec
  /\ \A k \in Caller : SF_vars(Proceed(k))
  /\ SF_vars(CloseEnd \/ \E c \in Connection : CloseNext(c))

\* The "Raises" section of acquire's docstring has no such error.
OnlyDocumentedErrors == surprises = {}

=============================================================================
