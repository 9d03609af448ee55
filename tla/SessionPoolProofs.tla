-------------------------- MODULE SessionPoolProofs --------------------------
(***************************************************************************)
(* What holds of SessionPool for any number of callers and sessions, any   *)
(* max_sessions and any pre-warming.  The inductive invariant is proved in *)
(* layers, each resting on the ones below: the types; the semaphore; who   *)
(* has the lock; what the states of the sessions say; how many sessions    *)
(* are listed.                                                             *)
(***************************************************************************)
EXTENDS SessionPool, FiniteSetTheorems, TLAPS

\* Any set of sessions is finite.
LEMMA FiniteParts ==
  ASSUME NEW S \in SUBSET Sessions
  PROVE  IsFiniteSet(S) /\ Cardinality(S) \in Nat
BY FiniteAssumption, FS_Subset, FS_CardinalityType

-----------------------------------------------------------------------------
(* Layer 1: types, and which callers have a session.                        *)

Using == {"connecting", "transferring"}

Located == \A c \in Callers : session[c] \in Sessions <=> pc[c] \in Using

\* The finally clause of acquire() keeps the types of what it writes.
LEMMA LeaveTypes ==
  ASSUME TypeOK, Located, NEW c \in Callers, Leave(c)
  PROVE  /\ permits' \in Nat
         /\ pc' \in [Callers -> Place]
         /\ session' \in [Callers -> Sessions \cup {NoSession}]
         /\ Located'
BY NoSessionAssumption DEF TypeOK, Located, Using, Place, Leave, Goto

\* Every step keeps the types and the place of each caller's session.
LEMMA TypeStep ==
  ASSUME TypeOK, Located, [Next]_vars
  PROVE  TypeOK' /\ Located'
PROOF
  <1> USE DEF TypeOK, Located, Using, Phase, SessionState, Place, pool,
              Goto, Idle
  <1>1. CASE WarmUpStart
    BY <1>1, NoSessionAssumption DEF WarmUpStart, Fresh
  <1>2. CASE WarmUpReturn
    BY <1>2, FiniteParts DEF WarmUpReturn
  <1>3. CASE WarmUpTimeout
    BY <1>3, NoSessionAssumption DEF WarmUpTimeout
  <1>4. ASSUME NEW s \in Sessions, WarmUpConnected(s) PROVE TypeOK' /\ Located'
    BY <1>4, NoSessionAssumption DEF WarmUpConnected
  <1>5. ASSUME NEW s \in Sessions, WarmUpFailed(s) PROVE TypeOK' /\ Located'
    BY <1>5, NoSessionAssumption DEF WarmUpFailed
  <1>6. ASSUME NEW c \in Callers, Acquire(c) PROVE TypeOK' /\ Located'
    BY <1>6, NoSessionAssumption DEF Acquire
  <1>7. ASSUME NEW c \in Callers, TakePermit(c) PROVE TypeOK' /\ Located'
    BY <1>7, NoSessionAssumption DEF TakePermit
  <1>8. ASSUME NEW c \in Callers, NEW s \in Sessions, TakeIdle(c, s)
        PROVE  TypeOK' /\ Located'
    BY <1>8, NoSessionAssumption DEF TakeIdle
  <1>9. ASSUME NEW c \in Callers, NEW s \in Sessions, StartConnect(c, s)
        PROVE  TypeOK' /\ Located'
    BY <1>9 DEF StartConnect
  <1>10. ASSUME NEW c \in Callers, RaiseExhausted(c) PROVE TypeOK' /\ Located'
    BY <1>10, LeaveTypes DEF RaiseExhausted, Exhausted
  <1>11. ASSUME NEW c \in Callers, Connected(c) PROVE TypeOK' /\ Located'
    BY <1>11, NoSessionAssumption DEF Connected
  <1>12. ASSUME NEW c \in Callers, ConnectFailed(c) PROVE TypeOK' /\ Located'
    <2>1. session[c] \in Sessions
      BY <1>12 DEF ConnectFailed
    <2>2. state' \in [Sessions -> SessionState] /\ client' \subseteq Sessions
      BY <1>12, <2>1 DEF ConnectFailed
    <2> QED BY <1>12, <2>2, LeaveTypes DEF ConnectFailed
  <1>13. ASSUME NEW c \in Callers, TransferOk(c) PROVE TypeOK' /\ Located'
    BY <1>13, LeaveTypes DEF TransferOk
  <1>14. ASSUME NEW c \in Callers, TransferFailed(c) PROVE TypeOK' /\ Located'
    BY <1>14, LeaveTypes DEF TransferFailed
  <1>15. ASSUME NEW c \in Callers, TimeOutWaiting(c) PROVE TypeOK' /\ Located'
    BY <1>15, NoSessionAssumption DEF TimeOutWaiting
  <1>16. ASSUME NEW c \in Callers, TimeOutAtLock(c) PROVE TypeOK' /\ Located'
    BY <1>16, LeaveTypes DEF TimeOutAtLock
  <1>17. ASSUME NEW c \in Callers, TimeOutConnecting(c) PROVE TypeOK' /\ Located'
    BY <1>17, LeaveTypes DEF TimeOutConnecting
  <1>18. ASSUME NEW c \in Callers, TimeOutTransferring(c) PROVE TypeOK' /\ Located'
    <2>1. session[c] \in Sessions
      BY <1>18 DEF TimeOutTransferring
    <2>2. state' \in [Sessions -> SessionState] /\ abandoned' \subseteq Sessions
      BY <1>18, <2>1 DEF TimeOutTransferring
    <2> QED BY <1>18, <2>2, LeaveTypes DEF TimeOutTransferring
  <1>19. ASSUME NEW s \in Sessions, ProbeStart(s) PROVE TypeOK' /\ Located'
    BY <1>19, NoSessionAssumption DEF ProbeStart
  <1>20. ASSUME NEW s \in Sessions, ProbeOk(s) PROVE TypeOK' /\ Located'
    BY <1>20, NoSessionAssumption DEF ProbeOk
  <1>21. ASSUME NEW s \in Sessions, ProbeFailed(s) PROVE TypeOK' /\ Located'
    BY <1>21, NoSessionAssumption DEF ProbeFailed
  <1>22. CASE CloseStart
    BY <1>22, NoSessionAssumption DEF CloseStart
  <1>23. ASSUME NEW s \in Sessions, Disconnect(s) PROVE TypeOK' /\ Located'
    BY <1>23, NoSessionAssumption DEF Disconnect
  <1>24. CASE CloseReturn
    BY <1>24, NoSessionAssumption DEF CloseReturn
  <1>25. CASE UNCHANGED vars
    BY <1>25 DEF vars
  <1>26. QED
    BY <1>1, <1>2, <1>3, <1>4, <1>5, <1>6, <1>7, <1>8, <1>9, <1>10, <1>11, <1>12,
       <1>13, <1>14, <1>15, <1>16, <1>17, <1>18, <1>19, <1>20, <1>21, <1>22, <1>23,
       <1>24, <1>25
       DEF Next, WarmUp, Caller, GetSession, EndConnect, EndTransfer, TimeOut,
           EndProbe, Close, Stopped

\* Every variable of the pool keeps its type, whatever the order of steps, and
\* a caller has a session exactly while it connects or transfers.
THEOREM TypeCorrect == Spec => [](TypeOK /\ Located)
<1>1. Init => TypeOK /\ Located
  <2> SUFFICES ASSUME Init PROVE TypeOK /\ Located
    OBVIOUS
  <2> USE DEF Init
  <2>1. permits \in Nat
    BY MaxSessionsAssumption
  <2>2. TypeOK
    BY <2>1 DEF TypeOK, Phase, SessionState, Place
  <2>3. Located
    BY NoSessionAssumption DEF Located, Using
  <2> QED
    BY <2>2, <2>3
<1>2. TypeOK /\ Located /\ [Next]_vars => TypeOK' /\ Located'
  BY TypeStep
<1>3. QED
  BY <1>1, <1>2, PTL DEF Spec

-----------------------------------------------------------------------------
(* Layer 2: the semaphore.                                                  *)

\* Any set of callers is finite.
LEMMA CallerSetsFinite ==
  ASSUME NEW S \in SUBSET Callers
  PROVE  IsFiniteSet(S) /\ Cardinality(S) \in Nat
BY FiniteAssumption, FS_Subset, FS_CardinalityType

\* The finally clause of acquire() gives back the permit of a holder.
LEMMA LeaveAccounted ==
  ASSUME TypeOK, PermitsAccounted, NEW c \in Holders, Leave(c)
  PROVE  PermitsAccounted'
<1>1. Holders' = Holders \ {c}
  BY DEF Holders, Leave, Goto, TypeOK
<1>2. /\ Cardinality(Holders \ {c}) = Cardinality(Holders) - 1
      /\ Cardinality(Holders) \in Nat
  BY CallerSetsFinite, FS_RemoveElement DEF Holders
<1>3. permits' = permits + 1
  BY DEF Leave
<1> QED
  BY <1>1, <1>2, <1>3 DEF PermitsAccounted, TypeOK

\* Taking a permit turns it into a holder.
LEMMA TakePermitAccounted ==
  ASSUME TypeOK, PermitsAccounted, NEW c \in Callers, TakePermit(c)
  PROVE  PermitsAccounted'
<1>1. Holders' = Holders \cup {c} /\ c \notin Holders
  BY DEF Holders, TakePermit, Goto, TypeOK
<1>2. /\ Cardinality(Holders \cup {c}) = Cardinality(Holders) + 1
      /\ Cardinality(Holders) \in Nat
  BY <1>1, CallerSetsFinite, FS_AddElement DEF Holders
<1>3. permits' = permits - 1
  BY DEF TakePermit
<1> QED
  BY <1>1, <1>2, <1>3 DEF PermitsAccounted, TypeOK

\* Every step keeps the permits accounted for.
LEMMA PermitStep ==
  ASSUME TypeOK, PermitsAccounted, [Next]_vars
  PROVE  PermitsAccounted'
PROOF
  <1> USE DEF Holders
  <1>0. ASSUME UNCHANGED permits, Holders' = Holders PROVE PermitsAccounted'
    BY <1>0 DEF PermitsAccounted
  <1>1. CASE WarmUpStart
    BY <1>1, <1>0 DEF WarmUpStart
  <1>2. CASE WarmUpReturn
    BY <1>2, <1>0 DEF WarmUpReturn
  <1>3. CASE WarmUpTimeout
    BY <1>3, <1>0 DEF WarmUpTimeout
  <1>4. ASSUME NEW s \in Sessions, WarmUpConnected(s) PROVE PermitsAccounted'
    BY <1>4, <1>0 DEF WarmUpConnected
  <1>5. ASSUME NEW s \in Sessions, WarmUpFailed(s) PROVE PermitsAccounted'
    BY <1>5, <1>0 DEF WarmUpFailed
  <1>6. ASSUME NEW c \in Callers, Acquire(c) PROVE PermitsAccounted'
    <2>1. Holders' = Holders
      BY <1>6 DEF Acquire, Goto, TypeOK, Place
    <2> QED BY <1>6, <2>1, <1>0 DEF Acquire
  <1>7. ASSUME NEW c \in Callers, TakePermit(c) PROVE PermitsAccounted'
    BY <1>7, TakePermitAccounted
  <1>8. ASSUME NEW c \in Callers, NEW s \in Sessions, TakeIdle(c, s) PROVE PermitsAccounted'
    <2>1. Holders' = Holders
      BY <1>8 DEF TakeIdle, Goto, TypeOK, Place
    <2> QED BY <1>8, <2>1, <1>0 DEF TakeIdle
  <1>9. ASSUME NEW c \in Callers, NEW s \in Sessions, StartConnect(c, s)
        PROVE  PermitsAccounted'
    <2>1. Holders' = Holders
      BY <1>9 DEF StartConnect, Goto, TypeOK, Place
    <2> QED BY <1>9, <2>1, <1>0 DEF StartConnect
  <1>10. ASSUME NEW c \in Callers, RaiseExhausted(c) PROVE PermitsAccounted'
    BY <1>10, LeaveAccounted DEF RaiseExhausted, Exhausted
  <1>11. ASSUME NEW c \in Callers, Connected(c) PROVE PermitsAccounted'
    <2>1. Holders' = Holders
      BY <1>11 DEF Connected, Goto, TypeOK, Place
    <2> QED BY <1>11, <2>1, <1>0 DEF Connected
  <1>12. ASSUME NEW c \in Callers, ConnectFailed(c) PROVE PermitsAccounted'
    BY <1>12, LeaveAccounted DEF ConnectFailed
  <1>13. ASSUME NEW c \in Callers, TransferOk(c) PROVE PermitsAccounted'
    BY <1>13, LeaveAccounted DEF TransferOk
  <1>14. ASSUME NEW c \in Callers, TransferFailed(c) PROVE PermitsAccounted'
    BY <1>14, LeaveAccounted DEF TransferFailed
  <1>15. ASSUME NEW c \in Callers, TimeOutWaiting(c) PROVE PermitsAccounted'
    <2>1. Holders' = Holders
      BY <1>15 DEF TimeOutWaiting, Goto, TypeOK, Place
    <2> QED BY <1>15, <2>1, <1>0 DEF TimeOutWaiting
  <1>16. ASSUME NEW c \in Callers, TimeOutAtLock(c) PROVE PermitsAccounted'
    BY <1>16, LeaveAccounted DEF TimeOutAtLock
  <1>17. ASSUME NEW c \in Callers, TimeOutConnecting(c) PROVE PermitsAccounted'
    BY <1>17, LeaveAccounted DEF TimeOutConnecting
  <1>18. ASSUME NEW c \in Callers, TimeOutTransferring(c) PROVE PermitsAccounted'
    BY <1>18, LeaveAccounted DEF TimeOutTransferring
  <1>19. ASSUME NEW s \in Sessions, ProbeStart(s) PROVE PermitsAccounted'
    BY <1>19, <1>0 DEF ProbeStart
  <1>20. ASSUME NEW s \in Sessions, ProbeOk(s) PROVE PermitsAccounted'
    BY <1>20, <1>0 DEF ProbeOk
  <1>21. ASSUME NEW s \in Sessions, ProbeFailed(s) PROVE PermitsAccounted'
    BY <1>21, <1>0 DEF ProbeFailed
  <1>22. CASE CloseStart
    BY <1>22, <1>0 DEF CloseStart
  <1>23. ASSUME NEW s \in Sessions, Disconnect(s) PROVE PermitsAccounted'
    BY <1>23, <1>0 DEF Disconnect
  <1>24. CASE CloseReturn
    BY <1>24, <1>0 DEF CloseReturn
  <1>25. CASE UNCHANGED vars
    BY <1>25, <1>0 DEF vars
  <1>26. QED
    BY <1>1, <1>2, <1>3, <1>4, <1>5, <1>6, <1>7, <1>8, <1>9, <1>10, <1>11, <1>12,
       <1>13, <1>14, <1>15, <1>16, <1>17, <1>18, <1>19, <1>20, <1>21, <1>22, <1>23,
       <1>24, <1>25
       DEF Next, WarmUp, Caller, GetSession, EndConnect, EndTransfer, TimeOut,
           EndProbe, Close, Stopped

\* No failure, cancellation, exhaustion or close leaks a permit of the
\* semaphore or returns one twice.
THEOREM PermitsCorrect == Spec => []PermitsAccounted
<1>1. Init => PermitsAccounted
  <2> SUFFICES ASSUME Init PROVE PermitsAccounted
    OBVIOUS
  <2>1. Holders = {}
    BY DEF Init, Holders
  <2> QED
    BY <2>1, FS_EmptySet, MaxSessionsAssumption DEF Init, PermitsAccounted
<1>2. TypeOK /\ PermitsAccounted /\ [Next]_vars => PermitsAccounted'
  BY PermitStep
<1>3. QED
  BY <1>1, <1>2, TypeCorrect, PTL DEF Spec

-----------------------------------------------------------------------------
(* Layer 3: the order of warm-up and acquisition, and the lock.             *)

\* While initialize() runs nothing else touches the pool.
WarmUpFirst ==
  /\ phase \in {"cold", "warming"} =>
       /\ ~locked /\ probing = {}
       /\ \A c \in Callers : pc[c] = "outside"
  /\ phase = "cold" => sessions = {}
  /\ warming # {} => phase = "warming"

\* The lock is held by close_all or by one caller that connects.
LockHeld ==
  /\ locked <=> (phase = "closing" \/ \E c \in Callers : pc[c] = "connecting")
  /\ phase = "closing" => \A c \in Callers : pc[c] # "connecting"
  /\ \A c, d \in Callers : pc[c] = "connecting" /\ pc[d] = "connecting" => c = d

\* Every step keeps the lock with its one owner.
LEMMA LockStep ==
  ASSUME TypeOK, Located, WarmUpFirst, LockHeld, [Next]_vars
  PROVE  WarmUpFirst' /\ LockHeld'
PROOF
  <1> USE DEF TypeOK, Located, Using, WarmUpFirst, LockHeld, Phase, Place,
              pool, Goto, Leave, Served
  <1>1. CASE WarmUpStart
    <2>1. Needed = 0 => warming' = {}
      <3>1. PICK W \in SUBSET Fresh : Cardinality(W) = Needed /\ warming' = W
        BY <1>1 DEF WarmUpStart
      <3>2. IsFiniteSet(W)
        BY FiniteParts DEF Fresh
      <3> QED BY <3>1, <3>2, FS_EmptySet
    <2> QED BY <1>1, <2>1 DEF WarmUpStart
  <1>2. CASE WarmUpReturn
    BY <1>2 DEF WarmUpReturn
  <1>3. CASE WarmUpTimeout
    BY <1>3 DEF WarmUpTimeout
  <1>4. ASSUME NEW s \in Sessions, WarmUpConnected(s) PROVE WarmUpFirst' /\ LockHeld'
    BY <1>4 DEF WarmUpConnected
  <1>5. ASSUME NEW s \in Sessions, WarmUpFailed(s) PROVE WarmUpFirst' /\ LockHeld'
    BY <1>5 DEF WarmUpFailed
  <1>6. ASSUME NEW c \in Callers, Acquire(c) PROVE WarmUpFirst' /\ LockHeld'
    BY <1>6 DEF Acquire
  <1>7. ASSUME NEW c \in Callers, TakePermit(c) PROVE WarmUpFirst' /\ LockHeld'
    BY <1>7 DEF TakePermit
  <1>8. ASSUME NEW c \in Callers, NEW s \in Sessions, TakeIdle(c, s)
        PROVE  WarmUpFirst' /\ LockHeld'
    BY <1>8 DEF TakeIdle
  <1>9. ASSUME NEW c \in Callers, NEW s \in Sessions, StartConnect(c, s)
        PROVE  WarmUpFirst' /\ LockHeld'
    BY <1>9 DEF StartConnect
  <1>10. ASSUME NEW c \in Callers, RaiseExhausted(c) PROVE WarmUpFirst' /\ LockHeld'
    BY <1>10 DEF RaiseExhausted, Exhausted
  <1>11. ASSUME NEW c \in Callers, Connected(c) PROVE WarmUpFirst' /\ LockHeld'
    BY <1>11 DEF Connected
  <1>12. ASSUME NEW c \in Callers, ConnectFailed(c) PROVE WarmUpFirst' /\ LockHeld'
    BY <1>12 DEF ConnectFailed
  <1>13. ASSUME NEW c \in Callers, TransferOk(c) PROVE WarmUpFirst' /\ LockHeld'
    BY <1>13 DEF TransferOk
  <1>14. ASSUME NEW c \in Callers, TransferFailed(c) PROVE WarmUpFirst' /\ LockHeld'
    BY <1>14 DEF TransferFailed
  <1>15. ASSUME NEW c \in Callers, TimeOutWaiting(c) PROVE WarmUpFirst' /\ LockHeld'
    BY <1>15 DEF TimeOutWaiting
  <1>16. ASSUME NEW c \in Callers, TimeOutAtLock(c) PROVE WarmUpFirst' /\ LockHeld'
    BY <1>16 DEF TimeOutAtLock
  <1>17. ASSUME NEW c \in Callers, TimeOutConnecting(c) PROVE WarmUpFirst' /\ LockHeld'
    BY <1>17 DEF TimeOutConnecting
  <1>18. ASSUME NEW c \in Callers, TimeOutTransferring(c) PROVE WarmUpFirst' /\ LockHeld'
    BY <1>18 DEF TimeOutTransferring
  <1>19. ASSUME NEW s \in Sessions, ProbeStart(s) PROVE WarmUpFirst' /\ LockHeld'
    BY <1>19 DEF ProbeStart
  <1>20. ASSUME NEW s \in Sessions, ProbeOk(s) PROVE WarmUpFirst' /\ LockHeld'
    BY <1>20 DEF ProbeOk
  <1>21. ASSUME NEW s \in Sessions, ProbeFailed(s) PROVE WarmUpFirst' /\ LockHeld'
    BY <1>21 DEF ProbeFailed
  <1>22. CASE CloseStart
    BY <1>22 DEF CloseStart
  <1>23. ASSUME NEW s \in Sessions, Disconnect(s) PROVE WarmUpFirst' /\ LockHeld'
    BY <1>23 DEF Disconnect
  <1>24. CASE CloseReturn
    BY <1>24 DEF CloseReturn
  <1>25. CASE UNCHANGED vars
    BY <1>25 DEF vars
  <1>26. QED
    BY <1>1, <1>2, <1>3, <1>4, <1>5, <1>6, <1>7, <1>8, <1>9, <1>10, <1>11, <1>12,
       <1>13, <1>14, <1>15, <1>16, <1>17, <1>18, <1>19, <1>20, <1>21, <1>22, <1>23,
       <1>24, <1>25
       DEF Next, WarmUp, Caller, GetSession, EndConnect, EndTransfer, TimeOut,
           EndProbe, Close, Stopped

\* Warm-up has the pool for itself, and afterwards the lock has one owner.
THEOREM LockCorrect == Spec => [](WarmUpFirst /\ LockHeld)
<1>1. Init => WarmUpFirst /\ LockHeld
  BY DEF Init, WarmUpFirst, LockHeld
<1>2. TypeOK /\ Located /\ WarmUpFirst /\ LockHeld /\ [Next]_vars
        => WarmUpFirst' /\ LockHeld'
  BY LockStep
<1>3. QED
  BY <1>1, <1>2, TypeCorrect, PTL DEF Spec

-----------------------------------------------------------------------------
(* Layer 4: what the state of a session says about who uses it.             *)

\* A session that connects is not listed yet.  A listed one is busy only while
\* a caller transfers with it and disconnected only under close_all.
StatesMeanUse ==
  /\ \A c, d \in Callers : session[c] = session[d] /\ session[c] # NoSession => c = d
  /\ \A c \in Callers : pc[c] = "transferring" => state[session[c]] # "idle"
  /\ \A c \in Callers : pc[c] = "connecting" =>
       session[c] \notin sessions /\ session[c] \in client
  /\ \A s \in sessions : state[s] = "busy" =>
       \E c \in Callers : pc[c] = "transferring" /\ session[c] = s
  /\ \A s \in sessions : state[s] = "disconnected" => phase = "closing"

\* Outside close_all every listed session has a client.
ListedHaveClient ==
  /\ phase # "closing" => sessions \subseteq client
  /\ warming \subseteq client \ sessions

\* The invariant the next two layers start from.
Base == TypeOK /\ Located /\ WarmUpFirst /\ LockHeld

\* At the limit there is nothing to reconnect: connect() is called on a fresh
\* session only.
LEMMA ConnectsFresh ==
  ASSUME Base, StatesMeanUse, NEW c \in Callers, NEW s \in Sessions, StartConnect(c, s)
  PROVE  ~Full /\ s \in Fresh
BY DEF Base, LockHeld, StatesMeanUse, StartConnect, ConnectTargets, Disconnected

\* Every step keeps the states of the sessions true.
LEMMA UseStep ==
  ASSUME Base, StatesMeanUse, ListedHaveClient, [Next]_vars
  PROVE  StatesMeanUse' /\ ListedHaveClient'
PROOF
  <1> USE NoSessionAssumption
      DEF Base, TypeOK, Located, Using, WarmUpFirst, LockHeld, StatesMeanUse,
          ListedHaveClient, Place, pool, Goto, Leave, Served, Idle
  <1>1. CASE WarmUpStart
    BY <1>1 DEF WarmUpStart, Fresh
  <1>2. CASE WarmUpReturn
    BY <1>2 DEF WarmUpReturn
  <1>3. CASE WarmUpTimeout
    BY <1>3 DEF WarmUpTimeout
  <1>4. ASSUME NEW s \in Sessions, WarmUpConnected(s)
        PROVE  StatesMeanUse' /\ ListedHaveClient'
    BY <1>4 DEF WarmUpConnected
  <1>5. ASSUME NEW s \in Sessions, WarmUpFailed(s) PROVE StatesMeanUse' /\ ListedHaveClient'
    BY <1>5 DEF WarmUpFailed
  <1>6. ASSUME NEW c \in Callers, Acquire(c) PROVE StatesMeanUse' /\ ListedHaveClient'
    BY <1>6 DEF Acquire
  <1>7. ASSUME NEW c \in Callers, TakePermit(c) PROVE StatesMeanUse' /\ ListedHaveClient'
    BY <1>7 DEF TakePermit
  <1>8. ASSUME NEW c \in Callers, NEW s \in Sessions, TakeIdle(c, s)
        PROVE  StatesMeanUse' /\ ListedHaveClient'
    BY <1>8 DEF TakeIdle
  <1>9. ASSUME NEW c \in Callers, NEW s \in Sessions, StartConnect(c, s)
        PROVE  StatesMeanUse' /\ ListedHaveClient'
    <2>1. /\ s \notin sessions /\ s \notin warming
          /\ \A d \in Callers : session[d] # s
      BY <1>9, ConnectsFresh DEF Fresh, Held
    <2>2. /\ pc' = [pc EXCEPT ![c] = "connecting"]
          /\ session' = [session EXCEPT ![c] = s]
          /\ state' = [state EXCEPT ![s] = "disconnected"]
          /\ client' = client \cup {s}
          /\ UNCHANGED << phase, sessions, warming >>
          /\ pc[c] = "permitted"
      BY <1>9 DEF StartConnect
    <2>3. \A x \in Sessions \ {s} : state'[x] = state[x]
      BY <2>2
    <2>4. \A d \in Callers \ {c} : pc'[d] = pc[d] /\ session'[d] = session[d]
      BY <2>2
    <2>5. pc'[c] = "connecting" /\ session'[c] = s
      BY <2>2
    <2>6. session[c] \notin Sessions
      BY <2>2
    <2>7. \A d, e \in Callers :
            session'[d] = session'[e] /\ session'[d] # NoSession => d = e
      BY <2>1, <2>4, <2>5
    <2>8. \A d \in Callers : pc'[d] = "transferring" => state'[session'[d]] # "idle"
      BY <2>1, <2>3, <2>4, <2>5
    <2>9. \A d \in Callers : pc'[d] = "connecting" =>
            session'[d] \notin sessions' /\ session'[d] \in client'
      BY <2>1, <2>2, <2>4, <2>5
    <2>10. \A x \in sessions' : state'[x] = "busy" =>
             \E d \in Callers : pc'[d] = "transferring" /\ session'[d] = x
      BY <2>1, <2>2, <2>3, <2>4, <2>6
    <2>11. \A x \in sessions' : state'[x] = "disconnected" => phase' = "closing"
      BY <2>1, <2>2, <2>3
    <2>12. ListedHaveClient'
      BY <2>2
    <2> QED BY <2>7, <2>8, <2>9, <2>10, <2>11, <2>12
  <1>10. ASSUME NEW c \in Callers, RaiseExhausted(c)
         PROVE  StatesMeanUse' /\ ListedHaveClient'
    BY <1>10 DEF RaiseExhausted, Exhausted
  <1>11. ASSUME NEW c \in Callers, Connected(c) PROVE StatesMeanUse' /\ ListedHaveClient'
    BY <1>11 DEF Connected
  <1>12. ASSUME NEW c \in Callers, ConnectFailed(c)
         PROVE  StatesMeanUse' /\ ListedHaveClient'
    BY <1>12 DEF ConnectFailed
  <1>13. ASSUME NEW c \in Callers, TransferOk(c) PROVE StatesMeanUse' /\ ListedHaveClient'
    BY <1>13 DEF TransferOk
  <1>14. ASSUME NEW c \in Callers, TransferFailed(c)
         PROVE  StatesMeanUse' /\ ListedHaveClient'
    BY <1>14 DEF TransferFailed
  <1>15. ASSUME NEW c \in Callers, TimeOutWaiting(c)
         PROVE  StatesMeanUse' /\ ListedHaveClient'
    BY <1>15 DEF TimeOutWaiting
  <1>16. ASSUME NEW c \in Callers, TimeOutAtLock(c)
         PROVE  StatesMeanUse' /\ ListedHaveClient'
    BY <1>16 DEF TimeOutAtLock
  <1>17. ASSUME NEW c \in Callers, TimeOutConnecting(c)
         PROVE  StatesMeanUse' /\ ListedHaveClient'
    BY <1>17 DEF TimeOutConnecting
  <1>18. ASSUME NEW c \in Callers, TimeOutTransferring(c)
         PROVE  StatesMeanUse' /\ ListedHaveClient'
    BY <1>18 DEF TimeOutTransferring
  <1>19. ASSUME NEW s \in Sessions, ProbeStart(s) PROVE StatesMeanUse' /\ ListedHaveClient'
    BY <1>19 DEF ProbeStart
  <1>20. ASSUME NEW s \in Sessions, ProbeOk(s) PROVE StatesMeanUse' /\ ListedHaveClient'
    BY <1>20 DEF ProbeOk
  <1>21. ASSUME NEW s \in Sessions, ProbeFailed(s) PROVE StatesMeanUse' /\ ListedHaveClient'
    BY <1>21 DEF ProbeFailed
  <1>22. CASE CloseStart
    BY <1>22 DEF CloseStart
  <1>23. ASSUME NEW s \in Sessions, Disconnect(s) PROVE StatesMeanUse' /\ ListedHaveClient'
    BY <1>23 DEF Disconnect
  <1>24. CASE CloseReturn
    BY <1>24 DEF CloseReturn
  <1>25. CASE UNCHANGED vars
    BY <1>25 DEF vars
  <1>26. QED
    BY <1>1, <1>2, <1>3, <1>4, <1>5, <1>6, <1>7, <1>8, <1>9, <1>10, <1>11, <1>12,
       <1>13, <1>14, <1>15, <1>16, <1>17, <1>18, <1>19, <1>20, <1>21, <1>22, <1>23,
       <1>24, <1>25
       DEF Next, WarmUp, Caller, GetSession, EndConnect, EndTransfer, TimeOut,
           EndProbe, Close, Stopped

\* The state a session carries tells truly who uses it.
THEOREM UseCorrect == Spec => [](StatesMeanUse /\ ListedHaveClient)
<1>1. Init => StatesMeanUse /\ ListedHaveClient
  BY DEF Init, StatesMeanUse, ListedHaveClient
<1>2. /\ TypeOK /\ Located /\ WarmUpFirst /\ LockHeld
      /\ StatesMeanUse /\ ListedHaveClient /\ [Next]_vars
      => StatesMeanUse' /\ ListedHaveClient'
  BY UseStep DEF Base
<1>3. QED
  BY <1>1, <1>2, TypeCorrect, LockCorrect, PTL DEF Spec

-----------------------------------------------------------------------------
(* Layer 5: how many sessions are listed.                                   *)

\* A connecting caller has room for the session it will append.
RoomLeft ==
  /\ Cardinality(sessions \cup warming) <= MaxSessions
  /\ (\E c \in Callers : pc[c] = "connecting") => Cardinality(sessions) < MaxSessions

\* Every step keeps room for what is still connecting.
LEMMA LimitStep ==
  ASSUME Base, Base', StatesMeanUse, RoomLeft, [Next]_vars
  PROVE  RoomLeft'
PROOF
  <1> USE DEF Base, TypeOK, Located, Using, WarmUpFirst, LockHeld, Place, pool,
              Goto, Leave
  <1>a. ASSUME NEW S \in SUBSET Sessions, NEW T \in SUBSET S
        PROVE  Cardinality(T) <= Cardinality(S)
    BY <1>a, FiniteParts, FS_Subset
  <1>b. ASSUME sessions' \subseteq sessions, warming' \subseteq warming,
               \A c \in Callers : pc'[c] = "connecting" => pc[c] = "connecting"
        PROVE  RoomLeft'
    <2>1. Cardinality(sessions' \cup warming') <= Cardinality(sessions \cup warming)
      BY <1>a, <1>b
    <2>2. Cardinality(sessions') <= Cardinality(sessions)
      BY <1>a, <1>b
    <2>3. /\ Cardinality(sessions) \in Nat /\ Cardinality(sessions') \in Nat
          /\ Cardinality(sessions \cup warming) \in Nat
          /\ Cardinality(sessions' \cup warming') \in Nat
      BY <1>b, FiniteParts
    <2> QED BY <1>b, <2>1, <2>2, <2>3, MaxSessionsAssumption DEF RoomLeft
  <1>1. CASE WarmUpStart
    <2>1. PICK W \in SUBSET Fresh : Cardinality(W) = Needed /\ warming' = W
      BY <1>1 DEF WarmUpStart
    <2>2. sessions' \cup warming' = W
      BY <1>1, <2>1 DEF WarmUpStart
    <2>3. Needed <= MaxSessions
      BY MaxSessionsAssumption, PrewarmAssumption DEF Needed
    <2>4. \A c \in Callers : pc'[c] # "connecting"
      BY <1>1 DEF WarmUpStart
    <2> QED BY <2>1, <2>2, <2>3, <2>4 DEF RoomLeft
  <1>2. CASE WarmUpReturn
    BY <1>2, <1>b DEF WarmUpReturn
  <1>3. CASE WarmUpTimeout
    BY <1>3, <1>b DEF WarmUpTimeout
  <1>4. ASSUME NEW s \in Sessions, WarmUpConnected(s) PROVE RoomLeft'
    <2>1. sessions' \cup warming' = sessions \cup warming
      BY <1>4 DEF WarmUpConnected
    <2>2. \A c \in Callers : pc'[c] # "connecting"
      BY <1>4 DEF WarmUpConnected
    <2> QED BY <2>1, <2>2 DEF RoomLeft
  <1>5. ASSUME NEW s \in Sessions, WarmUpFailed(s) PROVE RoomLeft'
    BY <1>5, <1>b DEF WarmUpFailed
  <1>6. ASSUME NEW c \in Callers, Acquire(c) PROVE RoomLeft'
    BY <1>6, <1>b DEF Acquire
  <1>7. ASSUME NEW c \in Callers, TakePermit(c) PROVE RoomLeft'
    BY <1>7, <1>b DEF TakePermit
  <1>8. ASSUME NEW c \in Callers, NEW s \in Sessions, TakeIdle(c, s) PROVE RoomLeft'
    BY <1>8, <1>b DEF TakeIdle
  <1>9. ASSUME NEW c \in Callers, NEW s \in Sessions, StartConnect(c, s) PROVE RoomLeft'
    <2>1. ~Full /\ UNCHANGED << sessions, warming >>
      BY <1>9, ConnectsFresh DEF StartConnect
    <2>2. Cardinality(sessions) \in Nat
      BY FiniteParts
    <2> QED BY <2>1, <2>2, MaxSessionsAssumption DEF RoomLeft, Full
  <1>10. ASSUME NEW c \in Callers, RaiseExhausted(c) PROVE RoomLeft'
    BY <1>10, <1>b DEF RaiseExhausted, Exhausted
  <1>11. ASSUME NEW c \in Callers, Connected(c) PROVE RoomLeft'
    <2>1. /\ warming' = {} /\ sessions' = sessions \cup {session[c]}
          /\ \A d \in Callers : pc'[d] # "connecting"
      BY <1>11 DEF Connected
    <2>2. Cardinality(sessions) < MaxSessions /\ Cardinality(sessions) \in Nat
      BY <1>11, FiniteParts DEF Connected, RoomLeft
    <2>3. Cardinality(sessions \cup {session[c]}) <= Cardinality(sessions) + 1
      <3>1. IsFiniteSet(sessions)
        BY FiniteParts
      <3>2. Cardinality(sessions \cup {session[c]}) =
              IF session[c] \in sessions THEN Cardinality(sessions)
                                         ELSE Cardinality(sessions) + 1
        BY ONLY <3>1, FS_AddElement
      <3> QED BY <2>2, <3>2
    <2>4. sessions' \cup warming' = sessions \cup {session[c]}
      BY <2>1
    <2>5. Cardinality(sessions \cup {session[c]}) \in Nat
      BY <2>1, FiniteParts
    <2> QED BY <2>1, <2>2, <2>3, <2>4, <2>5, MaxSessionsAssumption DEF RoomLeft
  <1>12. ASSUME NEW c \in Callers, ConnectFailed(c) PROVE RoomLeft'
    BY <1>12, <1>b DEF ConnectFailed
  <1>13. ASSUME NEW c \in Callers, TransferOk(c) PROVE RoomLeft'
    BY <1>13, <1>b DEF TransferOk
  <1>14. ASSUME NEW c \in Callers, TransferFailed(c) PROVE RoomLeft'
    BY <1>14, <1>b DEF TransferFailed
  <1>15. ASSUME NEW c \in Callers, TimeOutWaiting(c) PROVE RoomLeft'
    BY <1>15, <1>b DEF TimeOutWaiting
  <1>16. ASSUME NEW c \in Callers, TimeOutAtLock(c) PROVE RoomLeft'
    BY <1>16, <1>b DEF TimeOutAtLock
  <1>17. ASSUME NEW c \in Callers, TimeOutConnecting(c) PROVE RoomLeft'
    BY <1>17, <1>b DEF TimeOutConnecting
  <1>18. ASSUME NEW c \in Callers, TimeOutTransferring(c) PROVE RoomLeft'
    BY <1>18, <1>b DEF TimeOutTransferring
  <1>19. ASSUME NEW s \in Sessions, ProbeStart(s) PROVE RoomLeft'
    BY <1>19, <1>b DEF ProbeStart
  <1>20. ASSUME NEW s \in Sessions, ProbeOk(s) PROVE RoomLeft'
    BY <1>20, <1>b DEF ProbeOk
  <1>21. ASSUME NEW s \in Sessions, ProbeFailed(s) PROVE RoomLeft'
    BY <1>21, <1>b DEF ProbeFailed
  <1>22. CASE CloseStart
    BY <1>22, <1>b DEF CloseStart
  <1>23. ASSUME NEW s \in Sessions, Disconnect(s) PROVE RoomLeft'
    BY <1>23, <1>b DEF Disconnect
  <1>24. CASE CloseReturn
    BY <1>24, <1>b DEF CloseReturn
  <1>25. CASE UNCHANGED vars
    BY <1>25, <1>b DEF vars
  <1>26. QED
    BY <1>1, <1>2, <1>3, <1>4, <1>5, <1>6, <1>7, <1>8, <1>9, <1>10, <1>11, <1>12,
       <1>13, <1>14, <1>15, <1>16, <1>17, <1>18, <1>19, <1>20, <1>21, <1>22, <1>23,
       <1>24, <1>25
       DEF Next, WarmUp, Caller, GetSession, EndConnect, EndTransfer, TimeOut,
           EndProbe, Close, Stopped

\* No interleaving of warm-up, concurrent creation, failure and cancellation
\* takes the pool over max_sessions.
THEOREM LimitCorrect == Spec => [](RoomLeft /\ WithinLimit)
<1>1. Init => RoomLeft
  <2> SUFFICES ASSUME Init PROVE RoomLeft
    OBVIOUS
  <2>1. sessions \cup warming = {} /\ \A c \in Callers : pc[c] # "connecting"
    BY DEF Init
  <2> QED
    BY <2>1, FS_EmptySet, MaxSessionsAssumption DEF RoomLeft
<1>2. Base /\ Base' /\ StatesMeanUse /\ RoomLeft /\ [Next]_vars => RoomLeft'
  BY LimitStep
<1>3. TypeOK /\ RoomLeft => WithinLimit
  <2> SUFFICES ASSUME TypeOK, RoomLeft PROVE WithinLimit
    OBVIOUS
  <2>1. Cardinality(sessions) <= Cardinality(sessions \cup warming)
    BY FiniteParts, FS_Subset DEF TypeOK
  <2>2. Cardinality(sessions) \in Nat /\ Cardinality(sessions \cup warming) \in Nat
    BY FiniteParts DEF TypeOK
  <2> QED
    BY <2>1, <2>2, MaxSessionsAssumption DEF RoomLeft, WithinLimit
<1>4. Base <=> TypeOK /\ Located /\ WarmUpFirst /\ LockHeld
  BY DEF Base
<1>5. QED
  BY <1>1, <1>2, <1>3, <1>4, TypeCorrect, LockCorrect, UseCorrect, PTL DEF Spec

-----------------------------------------------------------------------------
(* What the layers give.                                                    *)

\* No two callers share a session, and a session in use is not on offer.
THEOREM ExclusiveCorrect == Spec => []Exclusive
<1>1. StatesMeanUse => Exclusive
  BY DEF StatesMeanUse, Exclusive
<1>2. QED
  BY <1>1, UseCorrect, PTL

\* The reconnect branch of _get_or_create_session is dead code.
THEOREM ReconnectIsDead == Spec => []NothingToReconnect
<1>1. LockHeld /\ StatesMeanUse => NothingToReconnect
  BY DEF LockHeld, StatesMeanUse, NothingToReconnect, Disconnected
<1>2. QED
  BY <1>1, LockCorrect, UseCorrect, PTL

\* Whoever finds an idle session finds one with a client.
THEOREM IdleIsConnected == Spec => []IdleHasClient
<1>1. LockHeld /\ ListedHaveClient => IdleHasClient
  BY DEF LockHeld, ListedHaveClient, IdleHasClient, Idle
<1>2. QED
  BY <1>1, LockCorrect, UseCorrect, PTL

-----------------------------------------------------------------------------
(* Which sessions have a client.                                            *)

\* A client is on a listed session or on one whose connect() never returned;
\* the second half says it of the sessions that callers and probes still have,
\* without which leaving acquire() after close_all could leak one.
ClientsListed ==
  /\ \A s \in client \ (sessions \cup Held) : state[s] = "disconnected"
  /\ \A c \in Callers : pc[c] = "connecting" => state[session[c]] = "disconnected"
  /\ \A c \in Callers :
       pc[c] = "transferring" /\ session[c] \in client => session[c] \in sessions
  /\ probing \cap client \subseteq sessions
  /\ phase = "cold" => \A s \in Sessions : state[s] = "disconnected"

\* Every step keeps the clients where they can be found, but for those of a
\* connect() that is cut off.
LEMMA ClientStep ==
  ASSUME Base, Base', StatesMeanUse, ListedHaveClient, ClientsListed, [Next]_vars
  PROVE  ClientsListed'
PROOF
  <1> USE NoSessionAssumption
      DEF Base, TypeOK, Located, Using, WarmUpFirst, LockHeld, StatesMeanUse,
          ListedHaveClient, ClientsListed, Held, Place, pool, Goto, Leave, Served, Idle
  <1>1. CASE WarmUpStart
    BY <1>1 DEF WarmUpStart, Fresh
  <1>2. CASE WarmUpReturn
    BY <1>2 DEF WarmUpReturn
  <1>3. CASE WarmUpTimeout
    BY <1>3 DEF WarmUpTimeout
  <1>4. ASSUME NEW s \in Sessions, WarmUpConnected(s) PROVE ClientsListed'
    BY <1>4 DEF WarmUpConnected
  <1>5. ASSUME NEW s \in Sessions, WarmUpFailed(s) PROVE ClientsListed'
    BY <1>5 DEF WarmUpFailed
  <1>6. ASSUME NEW c \in Callers, Acquire(c) PROVE ClientsListed'
    BY <1>6 DEF Acquire
  <1>7. ASSUME NEW c \in Callers, TakePermit(c) PROVE ClientsListed'
    BY <1>7 DEF TakePermit
  <1>8. ASSUME NEW c \in Callers, NEW s \in Sessions, TakeIdle(c, s)
        PROVE  ClientsListed'
    BY <1>8 DEF TakeIdle
  <1>9. ASSUME NEW c \in Callers, NEW s \in Sessions, StartConnect(c, s)
        PROVE  ClientsListed'
    <2>1. /\ s \notin sessions /\ s \notin probing
          /\ \A d \in Callers : session[d] # s
      BY <1>9, ConnectsFresh DEF Fresh
    <2>2. /\ pc' = [pc EXCEPT ![c] = "connecting"]
          /\ session' = [session EXCEPT ![c] = s]
          /\ state' = [state EXCEPT ![s] = "disconnected"]
          /\ client' = client \cup {s}
          /\ UNCHANGED << phase, sessions, probing >>
          /\ pc[c] = "permitted"
      BY <1>9 DEF StartConnect
    <2>3. session[c] \notin Sessions
      BY <2>2
    <2>4. \A x \in client' \ (sessions' \cup Held') : state'[x] = "disconnected"
      <3>1. Held' = Held \cup {s}
        BY <2>2, <2>3
      <3> QED BY <2>2, <3>1
    <2>5. \A d \in Callers : pc'[d] = "connecting" => state'[session'[d]] = "disconnected"
      BY <2>1, <2>2
    <2>6. \A d \in Callers :
            pc'[d] = "transferring" /\ session'[d] \in client' => session'[d] \in sessions'
      BY <2>1, <2>2
    <2>7. probing' \cap client' \subseteq sessions' /\ phase' # "cold"
      BY <2>1, <2>2
    <2> QED BY <2>4, <2>5, <2>6, <2>7
  <1>10. ASSUME NEW c \in Callers, RaiseExhausted(c) PROVE ClientsListed'
    BY <1>10 DEF RaiseExhausted, Exhausted
  <1>11. ASSUME NEW c \in Callers, Connected(c) PROVE ClientsListed'
    BY <1>11 DEF Connected
  <1>12. ASSUME NEW c \in Callers, ConnectFailed(c) PROVE ClientsListed'
    BY <1>12 DEF ConnectFailed
  <1>13. ASSUME NEW c \in Callers, TransferOk(c) PROVE ClientsListed'
    BY <1>13 DEF TransferOk
  <1>14. ASSUME NEW c \in Callers, TransferFailed(c) PROVE ClientsListed'
    BY <1>14 DEF TransferFailed
  <1>15. ASSUME NEW c \in Callers, TimeOutWaiting(c) PROVE ClientsListed'
    BY <1>15 DEF TimeOutWaiting
  <1>16. ASSUME NEW c \in Callers, TimeOutAtLock(c) PROVE ClientsListed'
    BY <1>16 DEF TimeOutAtLock
  <1>17. ASSUME NEW c \in Callers, TimeOutConnecting(c) PROVE ClientsListed'
    BY <1>17 DEF TimeOutConnecting
  <1>18. ASSUME NEW c \in Callers, TimeOutTransferring(c) PROVE ClientsListed'
    BY <1>18 DEF TimeOutTransferring
  <1>19. ASSUME NEW s \in Sessions, ProbeStart(s) PROVE ClientsListed'
    BY <1>19 DEF ProbeStart
  <1>20. ASSUME NEW s \in Sessions, ProbeOk(s) PROVE ClientsListed'
    BY <1>20 DEF ProbeOk
  <1>21. ASSUME NEW s \in Sessions, ProbeFailed(s) PROVE ClientsListed'
    BY <1>21 DEF ProbeFailed
  <1>22. CASE CloseStart
    BY <1>22 DEF CloseStart
  <1>23. ASSUME NEW s \in Sessions, Disconnect(s) PROVE ClientsListed'
    BY <1>23 DEF Disconnect
  <1>24. CASE CloseReturn
    BY <1>24 DEF CloseReturn
  <1>25. CASE UNCHANGED vars
    BY <1>25 DEF vars
  <1>26. QED
    BY <1>1, <1>2, <1>3, <1>4, <1>5, <1>6, <1>7, <1>8, <1>9, <1>10, <1>11, <1>12,
       <1>13, <1>14, <1>15, <1>16, <1>17, <1>18, <1>19, <1>20, <1>21, <1>22, <1>23,
       <1>24, <1>25
       DEF Next, WarmUp, Caller, GetSession, EndConnect, EndTransfer, TimeOut,
           EndProbe, Close, Stopped

\* A client out of reach is that of a connect() the timeout cut off: failures
\* and close_all leave none behind.
THEOREM LeaksHaveOneCause == Spec => []OnlyCutOffLeaks
<1>1. Init => ClientsListed
  BY DEF Init, ClientsListed
<1>2. Base /\ Base' /\ StatesMeanUse /\ ListedHaveClient /\ ClientsListed /\ [Next]_vars
      => ClientsListed'
  BY ClientStep
<1>3. ClientsListed => OnlyCutOffLeaks
  BY DEF ClientsListed, OnlyCutOffLeaks, Leaked
<1>4. Base <=> TypeOK /\ Located /\ WarmUpFirst /\ LockHeld
  BY DEF Base
<1>5. QED
  BY <1>1, <1>2, <1>3, <1>4, TypeCorrect, LockCorrect, UseCorrect, PTL DEF Spec

\* Client, state and place of the sessions agree in every reachable state.
THEOREM ClientsCorrect == Spec => []ClientsMatchStates
<1>1. NothingToReconnect /\ IdleHasClient /\ OnlyCutOffLeaks <=> ClientsMatchStates
  BY DEF ClientsMatchStates
<1>2. QED
  BY <1>1, ReconnectIsDead, IdleIsConnected, LeaksHaveOneCause, PTL

-----------------------------------------------------------------------------
(* Who can be refused.                                                      *)

\* If every listed session is busy, the callers that use them hold as many
\* permits as there are sessions, so at the limit no permit is left for a
\* caller that has no session yet.
LEMMA BusyNeedPermits ==
  ASSUME TypeOK, StatesMeanUse, PermitsAccounted, Full,
         \A s \in sessions : state[s] = "busy",
         NEW c \in Callers, pc[c] = "permitted"
  PROVE  FALSE
<1> DEFINE user == [s \in sessions |-> CHOOSE d \in Callers :
                                         pc[d] = "transferring" /\ session[d] = s]
<1>1. \A s \in sessions : /\ user[s] \in Callers
                          /\ pc[user[s]] = "transferring"
                          /\ session[user[s]] = s
  BY DEF StatesMeanUse
<1>2. user \in [sessions -> Holders \ {c}]
  BY <1>1 DEF Holders
<1> HIDE DEF user
<1>2a. user \in Injection(sessions, Holders \ {c})
  BY <1>1, <1>2 DEF Injection, IsInjective
<1>3. /\ IsFiniteSet(Holders) /\ Cardinality(Holders) \in Nat
      /\ Cardinality(Holders \ {c}) = Cardinality(Holders) - 1
      /\ IsFiniteSet(Holders \ {c})
  BY CallerSetsFinite, FS_RemoveElement DEF Holders
<1>4. Cardinality(sessions) <= Cardinality(Holders \ {c})
  BY <1>2a, <1>3, FS_Injection
<1>5. Cardinality(sessions) \in Nat
  BY FiniteParts DEF TypeOK
<1> QED
  BY <1>3, <1>4, <1>5, MaxSessionsAssumption DEF PermitsAccounted, Full, TypeOK

\* With a permit in hand, "No available session" is raised only when a listed
\* session is in state ERROR: the semaphore does what the comment at the raise
\* expects of it as long as no session fails.
THEOREM ExhaustionHasOneCause == Spec => []ExhaustedOnlyByErrors
<1>1. TypeOK /\ StatesMeanUse /\ PermitsAccounted => ExhaustedOnlyByErrors
  <2> SUFFICES ASSUME TypeOK, StatesMeanUse, PermitsAccounted,
                      NEW c \in Callers, Exhausted(c),
                      \A s \in sessions : state[s] # "error"
               PROVE  FALSE
    BY DEF ExhaustedOnlyByErrors
  <2>1. \A s \in sessions : state[s] = "busy"
    BY DEF Exhausted, Idle, Disconnected, TypeOK, SessionState
  <2> QED
    BY <2>1, BusyNeedPermits DEF Exhausted
<1>2. QED
  BY <1>1, TypeCorrect, PermitsCorrect, UseCorrect, PTL

-----------------------------------------------------------------------------
(* The refinement: every step is one of LimitedPool's or changes nothing    *)
(* that LimitedPool shows.                                                  *)

\* LimitedPool counts as this module does.
LEMMA SameCardinality ==
  ASSUME NEW S
  PROVE  Promise!Cardinality(S) = Cardinality(S)
BY DEF Promise!Cardinality, Cardinality

\* Who is served, and with what, in the terms of this module.
LEMMA LentMeans ==
  ASSUME TypeOK, Located
  PROVE  /\ \A c \in Callers : lent[c] # NoSession <=> pc[c] = "transferring"
         /\ Promise!Served = {c \in Callers : pc[c] = "transferring"}
         /\ Promise!Lent = {session[c] : c \in {d \in Callers : pc[d] = "transferring"}}
<1>1. \A c \in Callers : lent[c] # NoSession <=> pc[c] = "transferring"
  BY NoSessionAssumption DEF TypeOK, Located, Using, lent
<1>2. Promise!Served = {c \in Callers : pc[c] = "transferring"}
  BY <1>1 DEF Promise!Served
<1>3. \A c \in {d \in Callers : pc[d] = "transferring"} : lent[c] = session[c]
  BY DEF lent
<1>4. QED
  BY <1>1, <1>2, <1>3 DEF Promise!Lent

\* Whoever begins a transfer had a permit and no session, so that fewer than
\* max_sessions callers were served.
LEMMA GiveStep ==
  ASSUME TypeOK, Located, PermitsAccounted, NEW c \in Callers, NEW s \in Sessions,
         pc[c] \in {"permitted", "connecting"},
         pc' = [pc EXCEPT ![c] = "transferring"],
         session' = [session EXCEPT ![c] = s],
         s \notin Promise!Lent
  PROVE  Promise!Give(c, s)
<1>1. lent[c] = NoSession
  BY DEF lent
<1>2. lent' = [lent EXCEPT ![c] = s]
  BY DEF lent, TypeOK
<1>3. Cardinality(Promise!Served) < MaxSessions
  <2>1. Promise!Served \subseteq Holders \ {c} /\ c \in Holders
    BY LentMeans DEF Holders
  <2>2. /\ IsFiniteSet(Holders) /\ Cardinality(Holders) \in Nat
        /\ Cardinality(Holders \ {c}) = Cardinality(Holders) - 1
        /\ IsFiniteSet(Holders \ {c})
    BY <2>1, CallerSetsFinite, FS_RemoveElement DEF Holders
  <2>3. /\ Cardinality(Promise!Served) <= Cardinality(Holders \ {c})
        /\ Cardinality(Promise!Served) \in Nat
    BY <2>1, <2>2, FS_Subset, FS_CardinalityType
  <2>4. permits \in Nat /\ permits + Cardinality(Holders) = MaxSessions
    BY DEF TypeOK, PermitsAccounted
  <2> QED
    BY <2>2, <2>3, <2>4, MaxSessionsAssumption
<1>4. QED
  BY <1>1, <1>2, <1>3, SameCardinality DEF Promise!Give

\* The finally clause of acquire() after a transfer.
LEMMA ReturnStep ==
  ASSUME TypeOK, Located, NEW c \in Callers, pc[c] = "transferring", Leave(c),
         sessions' = sessions
  PROVE  Promise!Return(c)
<1>1. lent[c] # NoSession
  BY LentMeans
<1>2. lent' = [lent EXCEPT ![c] = NoSession]
  BY DEF lent, TypeOK, Leave, Goto
<1>3. QED
  BY <1>1, <1>2 DEF Promise!Return

\* Steps that begin and end no transfer.
LEMMA OthersStep ==
  ASSUME TypeOK, Located, TypeOK', sessions' = sessions,
         \A c \in Callers : /\ pc[c] = "transferring" <=> pc'[c] = "transferring"
                            /\ pc[c] = "transferring" => session'[c] = session[c]
  PROVE  UNCHANGED Promise!vars
<1>1. \A c \in Callers :
        (IF pc[c] = "transferring" THEN session[c] ELSE NoSession)
          = (IF pc'[c] = "transferring" THEN session'[c] ELSE NoSession)
  BY Zenon
<1>2. lent' = lent
  BY <1>1, Zenon DEF lent
<1>3. QED
  BY <1>2 DEF Promise!vars

\* Every step keeps the promise.
LEMMA LimitedPoolStep ==
  ASSUME Base, Base', StatesMeanUse, ListedHaveClient, PermitsAccounted, RoomLeft,
         [Next]_vars
  PROVE  [Promise!Next]_(Promise!vars)
PROOF
  <1> USE DEF Base, Located, Using, pool, Goto
  <1> DEFINE Kept == [Promise!Next]_(Promise!vars)
  <1>a. ASSUME sessions' = sessions,
               \A c \in Callers : /\ pc[c] = "transferring" <=> pc'[c] = "transferring"
                                  /\ pc[c] = "transferring" => session'[c] = session[c]
        PROVE  Kept
    BY <1>a, OthersStep
  <1>b. ASSUME NEW c \in Callers, pc[c] = "transferring", Leave(c), sessions' = sessions
        PROVE  Kept
    BY <1>b, ReturnStep DEF Promise!Next
  <1>c. ASSUME NEW c \in Callers, pc[c] # "transferring", Leave(c), sessions' = sessions
        PROVE  Kept
    BY <1>c, <1>a DEF Leave, TypeOK
  <1> SUFFICES Kept
    OBVIOUS
  <1> HIDE DEF Kept
  <1>1. CASE WarmUpStart
    <2>1. sessions' = sessions /\ pc' = pc /\ session' = session
      BY <1>1 DEF WarmUpStart
    <2> QED
      BY <2>1, <1>a
  <1>2. CASE WarmUpReturn
    <2>1. sessions' = sessions /\ pc' = pc /\ session' = session
      BY <1>2 DEF WarmUpReturn
    <2> QED
      BY <2>1, <1>a
  <1>3. CASE WarmUpTimeout
    <2>1. sessions' = sessions /\ pc' = pc /\ session' = session
      BY <1>3 DEF WarmUpTimeout
    <2> QED
      BY <2>1, <1>a
  <1>4. ASSUME NEW s \in Sessions, WarmUpConnected(s) PROVE Kept
    <2>1. \A c \in Callers : pc[c] = "outside"
      BY <1>4 DEF WarmUpConnected, WarmUpFirst
    <2>2. s \notin Promise!Lent
      BY <2>1, LentMeans
    <2>3. s \notin sessions
      BY <1>4 DEF WarmUpConnected, ListedHaveClient
    <2>4. Cardinality(sessions) < MaxSessions
      <3>1. sessions \cup {s} \in SUBSET (sessions \cup warming)
        BY <1>4 DEF WarmUpConnected
      <3>2. sessions \cup warming \in SUBSET Sessions
        BY DEF TypeOK
      <3>3. /\ Cardinality(sessions \cup {s}) = Cardinality(sessions) + 1
            /\ Cardinality(sessions) \in Nat
        BY <2>3, FiniteParts, FS_AddElement DEF TypeOK
      <3>4. /\ Cardinality(sessions \cup {s}) <= Cardinality(sessions \cup warming)
            /\ Cardinality(sessions \cup warming) \in Nat
        BY <3>1, <3>2, FiniteParts, FS_Subset
      <3> QED
        BY <3>3, <3>4, MaxSessionsAssumption DEF RoomLeft
    <2>5. sessions' = sessions \cup {s} /\ lent' = lent
      BY <1>4 DEF WarmUpConnected, lent
    <2>6. Promise!Open(s)
      BY <2>2, <2>3, <2>4, <2>5, SameCardinality DEF Promise!Open, Promise!Joins
    <2> QED
      BY <2>6 DEF Kept, Promise!Next
  <1>5. ASSUME NEW s \in Sessions, WarmUpFailed(s) PROVE Kept
    BY <1>5, <1>a DEF WarmUpFailed
  <1>6. ASSUME NEW c \in Callers, Acquire(c) PROVE Kept
    BY <1>6, <1>a DEF Acquire, TypeOK
  <1>7. ASSUME NEW c \in Callers, TakePermit(c) PROVE Kept
    BY <1>7, <1>a DEF TakePermit, TypeOK
  <1>8. ASSUME NEW c \in Callers, NEW s \in Sessions, TakeIdle(c, s) PROVE Kept
    <2>1. s \notin Promise!Lent
      BY <1>8, LentMeans DEF TakeIdle, Idle, StatesMeanUse
    <2>2. Promise!Give(c, s)
      BY <1>8, <2>1, GiveStep DEF TakeIdle
    <2>3. Promise!Lend(c, s)
      BY <1>8, <2>2 DEF Promise!Lend, TakeIdle, Idle
    <2> QED
      BY <2>3 DEF Kept, Promise!Next
  <1>9. ASSUME NEW c \in Callers, NEW s \in Sessions, StartConnect(c, s) PROVE Kept
    BY <1>9, <1>a DEF StartConnect, TypeOK
  <1>10. ASSUME NEW c \in Callers, RaiseExhausted(c) PROVE Kept
    BY <1>10, <1>c DEF RaiseExhausted, Exhausted
  <1>11. ASSUME NEW c \in Callers, Connected(c) PROVE Kept
    <2> DEFINE s == session[c]
    <2>1. s \in Sessions /\ s # NoSession
      BY <1>11, NoSessionAssumption DEF Connected
    <2>2. s \notin sessions /\ Cardinality(sessions) < MaxSessions
      BY <1>11 DEF Connected, StatesMeanUse, RoomLeft
    <2>3. \A d \in Callers : pc[d] = "transferring" => session[d] # s
      BY <1>11, <2>1 DEF Connected, StatesMeanUse
    <2>4. s \notin Promise!Lent
      BY <2>3, LentMeans
    <2>5. session' = [session EXCEPT ![c] = s]
      BY <1>11 DEF Connected, TypeOK
    <2>6. Promise!Give(c, s)
      BY <1>11, <2>1, <2>4, <2>5, GiveStep DEF Connected
    <2>7. Promise!LendNew(c, s)
      BY <1>11, <2>2, <2>4, <2>6, SameCardinality DEF Promise!LendNew,
         Promise!Joins, Connected
    <2> QED
      BY <2>1, <2>7 DEF Kept, Promise!Next
  <1>12. ASSUME NEW c \in Callers, ConnectFailed(c) PROVE Kept
    BY <1>12, <1>c DEF ConnectFailed
  <1>13. ASSUME NEW c \in Callers, TransferOk(c) PROVE Kept
    BY <1>13, <1>b DEF TransferOk
  <1>14. ASSUME NEW c \in Callers, TransferFailed(c) PROVE Kept
    BY <1>14, <1>b DEF TransferFailed
  <1>15. ASSUME NEW c \in Callers, TimeOutWaiting(c) PROVE Kept
    BY <1>15, <1>a DEF TimeOutWaiting, TypeOK
  <1>16. ASSUME NEW c \in Callers, TimeOutAtLock(c) PROVE Kept
    BY <1>16, <1>c DEF TimeOutAtLock
  <1>17. ASSUME NEW c \in Callers, TimeOutConnecting(c) PROVE Kept
    BY <1>17, <1>c DEF TimeOutConnecting
  <1>18. ASSUME NEW c \in Callers, TimeOutTransferring(c) PROVE Kept
    BY <1>18, <1>b DEF TimeOutTransferring
  <1>19. ASSUME NEW s \in Sessions, ProbeStart(s) PROVE Kept
    BY <1>19, <1>a DEF ProbeStart
  <1>20. ASSUME NEW s \in Sessions, ProbeOk(s) PROVE Kept
    BY <1>20, <1>a DEF ProbeOk
  <1>21. ASSUME NEW s \in Sessions, ProbeFailed(s) PROVE Kept
    BY <1>21, <1>a DEF ProbeFailed
  <1>22. CASE CloseStart
    <2>1. sessions' = sessions /\ pc' = pc /\ session' = session
      BY <1>22 DEF CloseStart
    <2> QED
      BY <2>1, <1>a
  <1>23. ASSUME NEW s \in Sessions, Disconnect(s) PROVE Kept
    BY <1>23, <1>a DEF Disconnect
  <1>24. CASE CloseReturn
    <2>1. Promise!Clear
      BY <1>24 DEF Promise!Clear, CloseReturn, lent
    <2> QED
      BY <2>1 DEF Kept, Promise!Next
  <1>25. CASE UNCHANGED vars
    <2>1. sessions' = sessions /\ pc' = pc /\ session' = session
      BY <1>25 DEF vars
    <2> QED
      BY <2>1, <1>a
  <1>26. QED
    BY <1>1, <1>2, <1>3, <1>4, <1>5, <1>6, <1>7, <1>8, <1>9, <1>10, <1>11, <1>12, <1>13,
       <1>14, <1>15, <1>16, <1>17, <1>18, <1>19, <1>20, <1>21, <1>22, <1>23, <1>24, <1>25
       DEF Next, WarmUp, Caller, GetSession, EndConnect, EndTransfer, TimeOut,
           EndProbe, Close, Stopped

\* SessionPool implements LimitedPool: at most max_sessions callers are ever
\* served at once, each with a session of its own, of a list that never outgrows
\* max_sessions.
THEOREM LimitedPoolImplemented == Spec => ImplementsLimitedPool
<1>1. Init => Promise!Init
  BY DEF Init, Promise!Init, lent
<1>2. /\ Base /\ Base' /\ StatesMeanUse /\ ListedHaveClient
      /\ PermitsAccounted /\ RoomLeft /\ [Next]_vars
      => [Promise!Next]_(Promise!vars)
  BY LimitedPoolStep
<1>3. Base <=> TypeOK /\ Located /\ WarmUpFirst /\ LockHeld
  BY DEF Base
<1>4. QED
  BY <1>1, <1>2, <1>3, TypeCorrect, LockCorrect, UseCorrect, PermitsCorrect, LimitCorrect,
     PTL DEF Spec, ImplementsLimitedPool, Promise!Spec
-----------------------------------------------------------------------------
(* The refinement of CountedPool: what PoolManager is told of the pool.     *)

LEMMA OneMoreSession ==
  ASSUME NEW S \in SUBSET Sessions, NEW s \in Sessions, s \notin S
  PROVE  Cardinality(S \cup {s}) = Cardinality(S) + 1
BY FiniteParts, FS_AddElement

LEMMA OneSessionLess ==
  ASSUME NEW S \in SUBSET Sessions, NEW s \in S
  PROVE  Cardinality(S \ {s}) = Cardinality(S) - 1 /\ Cardinality(S) > 0
<1>1. IsFiniteSet(S) /\ IsFiniteSet(S \ {s}) /\ Cardinality(S \ {s}) \in Nat
  BY FiniteParts
<1>2. Cardinality(S \ {s}) = Cardinality(S) - 1 /\ Cardinality(S) \in Nat
  BY <1>1, FiniteParts, FS_RemoveElement
<1>3. QED
  BY <1>1, <1>2

\* One caller moves, and the list stays.
LEMMA PlaceMoves ==
  ASSUME NEW c \in Callers, kept' = kept,
         \A d \in Callers \ {c} : pc'[d] = pc[d] /\ session'[d] = session[d]
  PROVE  placed' = [placed EXCEPT ![c] = placeOf(c)']
<1>1. \A d \in Callers \ {c} : placeOf(d)' = placeOf(d)
  BY DEF placeOf
<1>2. QED
  BY <1>1 DEF placed

\* The lock is free only while nobody connects.
LEMMA LockIsFree ==
  ASSUME TypeOK, LockHeld, ~locked
  PROVE  Count!Unlocked
<1>1. \A c \in Callers : placeOf(c) # "connecting"
  BY DEF LockHeld, TypeOK, Place, placeOf
<1>2. QED
  BY <1>1 DEF Count!Unlocked, placed

\* Every step is one of CountedPool or changes nothing that it shows.
LEMMA CountedPoolStep ==
  ASSUME Base, Base', StatesMeanUse, ListedHaveClient, RoomLeft, [Next]_vars
  PROVE  Count!Step
PROOF
  <1> USE DEF Base, Located, Using, WarmUpFirst, pool, Goto
  <1> DEFINE Kept == Count!Step
  <1>a. ASSUME UNCHANGED << kept, offered, permits, pc, session >>
        PROVE  Kept
    BY <1>a DEF Count!Step, Count!vars, placed, placeOf
  <1>b. ASSUME NEW c \in Callers, pc[c] \in {"permitted", "connecting", "transferring"},
               Leave(c), UNCHANGED << kept, offered >>
        PROVE  Kept
    <2>1. placeOf(c) \in {"entering", "connecting", "using", "stray"} /\ placeOf(c)' = "out"
      BY <1>b DEF placeOf, Leave, TypeOK
    <2>2. Count!Leave(c)
      BY <1>b, <2>1, PlaceMoves DEF Leave, Count!Leave, Count!Goto, TypeOK
    <2>3. Count!Fail(c)
      BY <1>b, <2>1, <2>2 DEF Count!Fail, Count!Places, placed
    <2> QED
      BY <2>3 DEF Count!Step, Count!Next
  <1>c. ASSUME NEW c \in Callers, pc[c] = "transferring", Leave(c),
               UNCHANGED << phase, sessions >>,
               state' = [state EXCEPT ![session[c]] = "idle"]
        PROVE  Kept
    <2>1. kept' = kept /\ session[c] \in Sessions
      BY <1>c DEF kept
    <2>2. CASE session[c] \in kept
      <3>1. /\ offered' = offered \cup {session[c]} /\ session[c] \notin offered
            /\ offered \subseteq Sessions
        BY <1>c, <2>1, <2>2 DEF offered, kept, TypeOK, StatesMeanUse
      <3>2. Cardinality(offered') = Cardinality(offered) + 1
        BY <2>1, <3>1, OneMoreSession
      <3>3. placeOf(c) = "using" /\ placeOf(c)' = "out"
        BY <1>c, <2>2 DEF placeOf, Leave, TypeOK
      <3>4. Count!Leave(c)
        BY <1>c, <2>1, <3>3, PlaceMoves DEF Leave, Count!Leave, Count!Goto, TypeOK
      <3>5. Count!Return(c)
        BY <2>1, <3>2, <3>3, <3>4 DEF Count!Return, placed
      <3> QED
        BY <3>5 DEF Count!Step, Count!Next
    <2>3. CASE session[c] \notin kept
      <3>1. offered' = offered
        BY <1>c, <2>1, <2>3 DEF offered, kept, TypeOK
      <3> QED
        BY <1>c, <2>1, <3>1, <1>b
    <2> QED
      BY <2>2, <2>3
  <1> SUFFICES Kept
    OBVIOUS
  <1> HIDE DEF Kept
  <1>1. CASE WarmUpStart
    <2>1. kept' = kept /\ UNCHANGED << state, permits, pc, session >>
      BY <1>1 DEF WarmUpStart, kept
    <2> QED
      BY <2>1, <1>a DEF offered
  <1>2. CASE WarmUpReturn
    <2>1. kept' = kept /\ UNCHANGED << state, permits, pc, session >>
      BY <1>2 DEF WarmUpReturn, kept
    <2> QED
      BY <2>1, <1>a DEF offered
  <1>3. CASE WarmUpTimeout
    <2>1. kept' = kept /\ UNCHANGED << state, permits, pc, session >>
      BY <1>3 DEF WarmUpTimeout, kept
    <2> QED
      BY <2>1, <1>a DEF offered
  <1>4. ASSUME NEW s \in Sessions, WarmUpConnected(s) PROVE Kept
    <2>1. /\ \A c \in Callers : placeOf(c) = "out" /\ placeOf(c)' = "out"
          /\ kept = sessions /\ kept' = sessions \cup {s}
      BY <1>4 DEF WarmUpConnected, placeOf, kept
    <2>2. s \notin sessions
      BY <1>4 DEF WarmUpConnected, ListedHaveClient
    <2>3. Cardinality(sessions \cup {s}) <= MaxSessions
      <3>1. sessions \cup {s} \in SUBSET (sessions \cup warming)
        BY <1>4 DEF WarmUpConnected
      <3>2. sessions \cup warming \in SUBSET Sessions
        BY DEF TypeOK
      <3>3. /\ Cardinality(sessions \cup {s}) <= Cardinality(sessions \cup warming)
            /\ Cardinality(sessions \cup warming) \in Nat
            /\ Cardinality(sessions \cup {s}) \in Nat
        BY <3>1, <3>2, FiniteParts, FS_Subset
      <3> QED
        BY <3>3, MaxSessionsAssumption DEF RoomLeft
    <2>4. Cardinality(kept') = Cardinality(kept) + 1
      BY <2>1, <2>2, OneMoreSession DEF TypeOK
    <2>5. offered' = offered \cup {s} /\ s \notin offered /\ offered \subseteq Sessions
      BY <1>4, <2>1, <2>2 DEF WarmUpConnected, offered, TypeOK
    <2>6. Cardinality(offered') = Cardinality(offered) + 1
      BY <2>5, OneMoreSession
    <2>7. placed' = placed /\ permits' = permits
      BY <1>4, <2>1 DEF WarmUpConnected, placed
    <2>8. Count!Open(1)
      BY <2>1, <2>3, <2>4, <2>6, <2>7 DEF Count!Open, placed
    <2> QED
      BY <2>8, MaxSessionsAssumption DEF Kept, Count!Step, Count!Next
  <1>5. ASSUME NEW s \in Sessions, WarmUpFailed(s) PROVE Kept
    <2>1. UNCHANGED << kept, permits, pc, session >> /\ s \notin sessions
      BY <1>5 DEF WarmUpFailed, kept, ListedHaveClient
    <2>2. offered' = offered
      BY <1>5, <2>1 DEF WarmUpFailed, offered, kept, TypeOK
    <2> QED
      BY <2>1, <2>2, <1>a
  <1>6. ASSUME NEW c \in Callers, Acquire(c) PROVE Kept
    <2>1. placeOf(c) = "out" /\ placeOf(c)' = "waiting"
      BY <1>6 DEF Acquire, placeOf, TypeOK
    <2>2. UNCHANGED << kept, offered >>
      BY <1>6 DEF Acquire, kept, offered
    <2>3. Count!Goto(c, "waiting")
      BY <1>6, <2>1, <2>2, PlaceMoves DEF Acquire, Count!Goto, TypeOK
    <2>4. Count!Ask(c)
      BY <1>6, <2>1, <2>2, <2>3 DEF Acquire, Count!Ask, placed
    <2> QED
      BY <2>4 DEF Kept, Count!Step, Count!Next
  <1>7. ASSUME NEW c \in Callers, TakePermit(c) PROVE Kept
    <2>1. placeOf(c) = "waiting" /\ placeOf(c)' = "entering"
      BY <1>7 DEF TakePermit, placeOf, TypeOK
    <2>2. UNCHANGED << kept, offered >>
      BY <1>7 DEF TakePermit, kept, offered
    <2>3. Count!Goto(c, "entering")
      BY <1>7, <2>1, <2>2, PlaceMoves DEF TakePermit, Count!Goto, TypeOK
    <2>4. Count!TakePermit(c)
      BY <1>7, <2>1, <2>2, <2>3 DEF TakePermit, Count!TakePermit, placed
    <2> QED
      BY <2>4 DEF Kept, Count!Step, Count!Next
  <1>8. ASSUME NEW c \in Callers, NEW s \in Sessions, TakeIdle(c, s) PROVE Kept
    <2>1. kept = sessions /\ kept' = sessions /\ s \in offered /\ offered \subseteq Sessions
      BY <1>8 DEF TakeIdle, kept, offered, Idle, LockHeld, TypeOK
    <2>2. placeOf(c) = "entering" /\ placeOf(c)' = "using"
      BY <1>8, <2>1 DEF TakeIdle, placeOf, TypeOK, Idle
    <2>3. Count!Goto(c, "using")
      BY <1>8, <2>1, <2>2, PlaceMoves DEF TakeIdle, Count!Goto, TypeOK
    <2>4. offered' = offered \ {s}
      BY <1>8, <2>1 DEF TakeIdle, offered, TypeOK
    <2>5. Cardinality(offered') = Cardinality(offered) - 1 /\ Cardinality(offered) > 0
      BY <2>1, <2>4, OneSessionLess
    <2>6. Count!Unlocked
      BY <1>8, LockIsFree DEF TakeIdle
    <2>7. Count!TakeIdle(c)
      BY <1>8, <2>1, <2>2, <2>3, <2>5, <2>6 DEF TakeIdle, Count!TakeIdle, placed
    <2> QED
      BY <2>7 DEF Kept, Count!Step, Count!Next
  <1>9. ASSUME NEW c \in Callers, NEW s \in Sessions, StartConnect(c, s) PROVE Kept
    <2>1. kept = sessions /\ kept' = sessions /\ offered = {}
      BY <1>9 DEF StartConnect, kept, offered, Idle, LockHeld
    <2>2. ~Full /\ s \notin sessions
      BY <1>9, ConnectsFresh DEF Base, Fresh
    <2>3. placeOf(c) = "entering" /\ placeOf(c)' = "connecting"
      BY <1>9 DEF StartConnect, placeOf, TypeOK
    <2>4. Count!Goto(c, "connecting")
      BY <1>9, <2>1, <2>3, PlaceMoves DEF StartConnect, Count!Goto, TypeOK
    <2>5. offered' = offered
      BY <1>9, <2>1, <2>2 DEF StartConnect, offered, TypeOK
    <2>6. Cardinality(offered) = 0 /\ Cardinality(kept) < MaxSessions
      <3>1. Cardinality(sessions) \in Nat
        BY FiniteParts DEF TypeOK
      <3> QED
        BY <2>1, <2>2, <3>1, FS_EmptySet, MaxSessionsAssumption DEF Full
    <2>7. Count!Unlocked
      BY <1>9, LockIsFree DEF StartConnect
    <2>8. Count!StartConnect(c)
      BY <1>9, <2>1, <2>3, <2>4, <2>5, <2>6, <2>7 DEF StartConnect, Count!StartConnect, placed
    <2> QED
      BY <2>8 DEF Kept, Count!Step, Count!Next
  <1>10. ASSUME NEW c \in Callers, RaiseExhausted(c) PROVE Kept
    <2>1. /\ pc[c] \in {"permitted", "connecting"} /\ Leave(c)
          /\ UNCHANGED << phase, sessions, state >>
      BY <1>10 DEF RaiseExhausted, Exhausted
    <2> QED
      BY <2>1, <1>b DEF kept, offered
  <1>11. ASSUME NEW c \in Callers, Connected(c) PROVE Kept
    <2> DEFINE s == session[c]
    <2>1. s \in Sessions /\ s # NoSession
      BY <1>11, NoSessionAssumption DEF Connected
    <2>2. s \notin sessions /\ phase # "closing"
      BY <1>11 DEF Connected, StatesMeanUse, LockHeld
    <2>3. kept = sessions /\ kept' = sessions \cup {s}
      BY <1>11, <2>2 DEF Connected, kept
    <2>4. placeOf(c) = "connecting" /\ placeOf(c)' = "using"
      BY <1>11, <2>3 DEF Connected, placeOf, TypeOK
    <2>5. \A d \in Callers \ {c} : placeOf(d)' = placeOf(d)
      <3>1. \A d \in Callers \ {c} : session[d] # s /\ pc'[d] = pc[d] /\ session'[d] = session[d]
        BY <1>11, <2>1 DEF Connected, StatesMeanUse, TypeOK
      <3> QED
        BY <2>3, <3>1 DEF placeOf
    <2>6. Count!Goto(c, "using")
      BY <2>4, <2>5 DEF Count!Goto, placed
    <2>7. offered' = offered
      BY <1>11, <2>2, <2>3 DEF Connected, offered, TypeOK
    <2>8. Cardinality(kept') = Cardinality(kept) + 1
      <3> HIDE DEF s
      <3> QED
        BY <2>1, <2>2, <2>3, OneMoreSession DEF TypeOK
    <2>9. Count!Connected(c)
      BY <1>11, <2>4, <2>6, <2>7, <2>8 DEF Connected, Count!Connected, placed
    <2> QED
      BY <2>9 DEF Kept, Count!Step, Count!Next
  <1>12. ASSUME NEW c \in Callers, ConnectFailed(c) PROVE Kept
    <2>1. pc[c] = "connecting" /\ Leave(c) /\ UNCHANGED << phase, sessions >>
      BY <1>12 DEF ConnectFailed
    <2>2. offered' = offered
      BY <1>12 DEF ConnectFailed, offered, kept, StatesMeanUse, TypeOK
    <2> QED
      BY <2>1, <2>2, <1>b DEF kept
  <1>13. ASSUME NEW c \in Callers, TransferOk(c) PROVE Kept
    <2>1. /\ pc[c] = "transferring" /\ Leave(c) /\ UNCHANGED << phase, sessions >>
          /\ state' = [state EXCEPT ![session[c]] = "idle"]
      BY <1>13 DEF TransferOk
    <2> QED
      BY <2>1, <1>c
  <1>14. ASSUME NEW c \in Callers, TransferFailed(c) PROVE Kept
    <2>1. pc[c] = "transferring" /\ Leave(c) /\ UNCHANGED << phase, sessions >>
      BY <1>14 DEF TransferFailed
    <2>2. offered' = offered
      BY <1>14 DEF TransferFailed, offered, kept, StatesMeanUse, TypeOK
    <2> QED
      BY <2>1, <2>2, <1>b DEF kept
  <1>15. ASSUME NEW c \in Callers, TimeOutWaiting(c) PROVE Kept
    <2>1. placeOf(c) = "waiting" /\ placeOf(c)' = "out"
      BY <1>15 DEF TimeOutWaiting, placeOf, TypeOK
    <2>2. UNCHANGED << kept, offered >>
      BY <1>15 DEF TimeOutWaiting, kept, offered
    <2>3. Count!Goto(c, "out")
      BY <1>15, <2>1, <2>2, PlaceMoves DEF TimeOutWaiting, Count!Goto, TypeOK
    <2>4. Count!GiveUp(c)
      BY <1>15, <2>1, <2>2, <2>3 DEF TimeOutWaiting, Count!GiveUp, placed
    <2> QED
      BY <2>4 DEF Kept, Count!Step, Count!Next
  <1>16. ASSUME NEW c \in Callers, TimeOutAtLock(c) PROVE Kept
    <2>1. /\ pc[c] \in {"permitted", "connecting"} /\ Leave(c)
          /\ UNCHANGED << phase, sessions, state >>
      BY <1>16 DEF TimeOutAtLock
    <2> QED
      BY <2>1, <1>b DEF kept, offered
  <1>17. ASSUME NEW c \in Callers, TimeOutConnecting(c) PROVE Kept
    <2>1. /\ pc[c] \in {"permitted", "connecting"} /\ Leave(c)
          /\ UNCHANGED << phase, sessions, state >>
      BY <1>17 DEF TimeOutConnecting
    <2> QED
      BY <2>1, <1>b DEF kept, offered
  <1>18. ASSUME NEW c \in Callers, TimeOutTransferring(c) PROVE Kept
    <2>1. pc[c] = "transferring" /\ Leave(c) /\ UNCHANGED << phase, sessions >>
      BY <1>18 DEF TimeOutTransferring
    <2>2. CASE state[session[c]] = "busy"
      <3>1. state' = [state EXCEPT ![session[c]] = "idle"]
        BY <1>18, <2>2 DEF TimeOutTransferring, TypeOK
      <3> QED
        BY <2>1, <3>1, <1>c
    <2>3. CASE state[session[c]] # "busy"
      <3>1. state' = state
        BY <1>18, <2>3 DEF TimeOutTransferring, TypeOK
      <3> QED
        BY <2>1, <3>1, <1>b DEF kept, offered
    <2> QED
      BY <2>2, <2>3
  <1>19. ASSUME NEW s \in Sessions, ProbeStart(s) PROVE Kept
    BY <1>19, <1>a DEF ProbeStart, kept, offered
  <1>20. ASSUME NEW s \in Sessions, ProbeOk(s) PROVE Kept
    BY <1>20, <1>a DEF ProbeOk, kept, offered
  <1>21. ASSUME NEW s \in Sessions, ProbeFailed(s) PROVE Kept
    <2>1. UNCHANGED << phase, sessions, permits, pc, session >>
      BY <1>21 DEF ProbeFailed
    <2>2. CASE s \in offered
      <3>1. offered' = offered \ {s} /\ offered \subseteq Sessions
        BY <1>21, <2>1, <2>2 DEF ProbeFailed, offered, kept, TypeOK
      <3>2. Cardinality(offered') = Cardinality(offered) - 1 /\ Cardinality(offered) > 0
        BY <2>2, <3>1, OneSessionLess
      <3>3. placed' = placed /\ kept' = kept
        BY <2>1 DEF placed, placeOf, kept
      <3>4. Count!Break
        BY <2>1, <3>2, <3>3 DEF Count!Break
      <3> QED
        BY <3>4 DEF Kept, Count!Step, Count!Next
    <2>3. CASE s \notin offered
      <3>1. offered' = offered
        BY <1>21, <2>1, <2>3 DEF ProbeFailed, offered, kept, TypeOK
      <3> QED
        BY <2>1, <3>1, <1>a DEF kept
    <2> QED
      BY <2>2, <2>3
  <1>22. CASE CloseStart
    <2>1. kept' = {} /\ offered' = {}
      BY <1>22 DEF CloseStart, kept, offered
    <2>2. \A c \in Callers : placeOf(c)' = IF placeOf(c) = "using" THEN "stray" ELSE placeOf(c)
      BY <1>22, <2>1 DEF CloseStart, placeOf, TypeOK, Place
    <2>3. placed' = [c \in Callers |-> IF placed[c] = "using" THEN "stray" ELSE placed[c]]
      BY <2>2 DEF placed
    <2>4. Count!Unlocked
      BY <1>22, LockIsFree DEF CloseStart
    <2>5. Count!Close
      BY <1>22, <2>1, <2>3, <2>4, FS_EmptySet DEF CloseStart, Count!Close
    <2> QED
      BY <2>5 DEF Kept, Count!Step, Count!Next
  <1>23. ASSUME NEW s \in Sessions, Disconnect(s) PROVE Kept
    <2>1. kept = {} /\ kept' = {} /\ UNCHANGED << permits, pc, session >>
      BY <1>23 DEF Disconnect, kept
    <2> QED
      BY <2>1, <1>a DEF offered
  <1>24. CASE CloseReturn
    <2>1. kept = {} /\ kept' = {} /\ UNCHANGED << permits, pc, session >>
      BY <1>24 DEF CloseReturn, kept
    <2> QED
      BY <2>1, <1>a DEF offered
  <1>25. CASE UNCHANGED vars
    BY <1>25, <1>a DEF vars, kept, offered
  <1>26. QED
    BY <1>1, <1>2, <1>3, <1>4, <1>5, <1>6, <1>7, <1>8, <1>9, <1>10, <1>11, <1>12, <1>13,
       <1>14, <1>15, <1>16, <1>17, <1>18, <1>19, <1>20, <1>21, <1>22, <1>23, <1>24, <1>25
       DEF Next, WarmUp, Caller, GetSession, EndConnect, EndTransfer, TimeOut,
           EndProbe, Close, Stopped

\* SessionPool implements CountedPool: in numbers, a pool does nothing but what
\* PoolManager has each of its pools do.
THEOREM CountedPoolImplemented == Spec => ImplementsCountedPool
<1>1. Init => Count!Init
  <2> SUFFICES ASSUME Init PROVE Count!Init
    OBVIOUS
  <2>1. kept = {} /\ offered = {} /\ \A c \in Callers : placeOf(c) = "out"
    BY DEF Init, kept, offered, placeOf
  <2> QED
    BY <2>1, FS_EmptySet DEF Init, Count!Init, placed
<1>2. /\ Base /\ Base' /\ StatesMeanUse /\ ListedHaveClient /\ RoomLeft /\ [Next]_vars
      => [Count!Step]_(Count!vars)
  BY CountedPoolStep
<1>3. Base <=> TypeOK /\ Located /\ WarmUpFirst /\ LockHeld
  BY DEF Base
<1>4. QED
  BY <1>1, <1>2, <1>3, TypeCorrect, LockCorrect, UseCorrect, LimitCorrect,
     PTL DEF Spec, ImplementsCountedPool, Count!Spec

CountProofs == INSTANCE CountedPoolProofs WITH
  Users <- Callers, listed <- Cardinality(kept), idle <- Cardinality(offered), place <- placed

\* So what holds of every CountedPool holds of the pool: in particular, at the
\* limit the sessions in use are fewer than those listed as long as a caller with
\* a permit has none.
THEOREM CountsCorrect == Spec => []CountProofs!Promises
<1>1. IsFiniteSet(Callers) /\ MaxSessions \in Nat
  BY FiniteAssumption, MaxSessionsAssumption
<1>2. CountProofs!Spec => []CountProofs!Promises
  BY <1>1, CountProofs!PromisesKept DEF CountProofs!IsFiniteSet, IsFiniteSet
<1>3. Count!Init => CountProofs!Init
  BY DEF Count!Init, CountProofs!Init
<1>4. [Count!Step]_(Count!vars) => [CountProofs!Step]_(CountProofs!vars)
  BY DEF Count!Step, Count!Next, Count!Open, Count!Ask, Count!GiveUp,
         Count!TakePermit, Count!TakeIdle, Count!StartConnect, Count!Connected,
         Count!Fail, Count!Return, Count!Break, Count!Close, Count!Goto,
         Count!Leave, Count!Unlocked, Count!Places, Count!vars,
         CountProofs!Step, CountProofs!Next, CountProofs!Open, CountProofs!Ask,
         CountProofs!GiveUp, CountProofs!TakePermit, CountProofs!TakeIdle,
         CountProofs!StartConnect, CountProofs!Connected, CountProofs!Fail,
         CountProofs!Return, CountProofs!Break, CountProofs!Close,
         CountProofs!Goto, CountProofs!Leave, CountProofs!Unlocked,
         CountProofs!Places, CountProofs!vars
<1>5. QED
  BY <1>2, <1>3, <1>4, CountedPoolImplemented,
     PTL DEF ImplementsCountedPool, Count!Spec, CountProofs!Spec
=============================================================================
