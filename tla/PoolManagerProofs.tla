-------------------------- MODULE PoolManagerProofs --------------------------
(***************************************************************************)
(* The safety of PoolManager for any callers, connections and limits, in   *)
(* layers: the types without the upper bounds of the counters (those of the*)
(* dictionary, the check and close_all in Outer, those of the pools and the*)
(* callers in Inner), then what the phases and the dictionary say of each  *)
(* other, the permits of the two levels, and the sessions in use, from     *)
(* which the bounds of the types follow.                                   *)
(***************************************************************************)
EXTENDS PoolManager, FiniteSetTheorems, TLAPS

Outer ==
  /\ phase \in {"warming", "serving"}
  /\ closer \in {"idle", "closing", "done"}
  /\ closing \subseteq Connection
  /\ pools \in Seq(Connection)
  /\ epoch \in {0, 1}
  /\ surprises \subseteq {"AttributeError"}
  /\ check \in {"idle", "running", "complete"}
  /\ size \in Nat
  /\ probed \in Seq(Pool)
  /\ check = "running" => probed # << >>
  /\ overlap \in BOOLEAN

Inner ==
  /\ podPermits \in Nat
  /\ permits \in [Pool -> Nat]
  /\ listed \in [Pool -> 0..PoolLimit]
  /\ idle \in [Pool -> Nat]
  /\ pc \in [Caller -> {"out"} \cup Waiting \cup Inside]
  /\ target \in [Caller -> Connection]
  /\ held \in [Caller -> {0, 1}]

\* One caller connects in a pool, and there is room for what it will add.
OneConnects ==
  \A k \in In({"connecting"}) :
    /\ listed[poolOf(k)] < PoolLimit
    /\ \A j \in In({"connecting"}) : poolOf(j) = poolOf(k) => j = k

\* The dictionary after a key has been added.
LEMMA KeysAppend ==
  ASSUME pools \in Seq(Connection), NEW c \in Connection, pools' = Append(pools, c)
  PROVE  /\ pools' \in Seq(Connection)
         /\ Len(pools') = Len(pools) + 1
         /\ \A i \in DOMAIN pools : i \in DOMAIN pools' /\ pools'[i] = pools[i]
         /\ \A i \in DOMAIN pools' : i \in DOMAIN pools \/ pools'[i] = c
         /\ \A i, j \in DOMAIN pools' : i \notin DOMAIN pools /\ j \notin DOMAIN pools => i = j
         /\ Keys' = Keys \cup {c}
PROOF
  <1>1. /\ pools' \in Seq(Connection)
        /\ DOMAIN pools = 1..Len(pools)
        /\ DOMAIN pools' = 1..(Len(pools) + 1)
        /\ Len(pools') = Len(pools) + 1
        /\ Len(pools) \in Nat
        /\ \A i \in 1..Len(pools) : pools'[i] = pools[i]
        /\ pools'[Len(pools) + 1] = c
    OBVIOUS
  <1>2. \A i \in DOMAIN pools' : i \in DOMAIN pools \/ i = Len(pools) + 1
    BY <1>1
  <1>3. Keys' = Keys \cup {c}
    BY <1>1, <1>2 DEF Keys
  <1>4. QED
    BY <1>1, <1>2, <1>3

\* Every action keeps the types of the dictionary, the check and close_all.
LEMMA OuterStep ==
  ASSUME Outer, Inner, [Next]_vars
  PROVE  Outer'
PROOF
  <1>a. Keys \subseteq Connection
    BY DEF Outer, Keys
  <1>b. \A where : In(where) \subseteq Caller
    BY DEF In
  <1> USE ConnectionAssumption, <1>a, <1>b
      DEF Outer, callers, content, checker, dictionary, elsewhere, unprobed
  <1>1. ASSUME NEW c \in Connection, WarmUp(c) PROVE Outer'
    <2>1. pools' \in Seq(Connection)
      BY <1>1, KeysAppend DEF WarmUp
    <2>2. QED
      BY <1>1, <2>1 DEF WarmUp
  <1>2. CASE Serve
    BY <1>2 DEF Serve
  <1>3. ASSUME NEW k \in Caller, LookupFails(k) PROVE Outer'
    BY <1>3 DEF LookupFails
  <1>4. ASSUME NEW k \in Caller, NEW c \in Connection, Ask(k, c) PROVE Outer'
    BY <1>4 DEF Ask, Goto
  <1>5. ASSUME NEW k \in Caller, TakePod(k) PROVE Outer'
    BY <1>5 DEF TakePod, Goto
  <1>6. ASSUME NEW k \in Caller, GetPool(k) PROVE Outer'
    <2>1. pools' \in Seq(Connection)
      BY <1>6, KeysAppend DEF GetPool
    <2>2. QED
      BY <1>6, <2>1 DEF GetPool
  <1>7. ASSUME NEW k \in Caller, GetPoolFails(k) PROVE Outer'
    BY <1>7 DEF GetPoolFails, HasLock, Leave, Goto
  <1>8. ASSUME NEW k \in Caller, TakePool(k) PROVE Outer'
    BY <1>8 DEF TakePool, Goto
  <1>9. ASSUME NEW k \in Caller, EnterIdle(k) PROVE Outer'
    BY <1>9 DEF EnterIdle, AtLock, Goto
  <1>10. ASSUME NEW k \in Caller, StartConnect(k) PROVE Outer'
    BY <1>10 DEF StartConnect, Goto
  <1>11. ASSUME NEW k \in Caller, Connected(k) PROVE Outer'
    BY <1>11 DEF Connected, Goto
  <1>12. ASSUME NEW k \in Caller, ConnectFails(k) PROVE Outer'
    BY <1>12 DEF ConnectFails, Leave, Goto
  <1>13. ASSUME NEW k \in Caller, Refused(k) PROVE Outer'
    BY <1>13 DEF Refused, NoneIdle, AtLock, Leave, Goto
  <1>14. ASSUME NEW k \in Caller, Return(k) PROVE Outer'
    BY <1>14 DEF Return, Leave, Goto
  <1>15. ASSUME NEW k \in Caller, TransferFails(k) PROVE Outer'
    BY <1>15 DEF TransferFails, Leave, Goto
  <1>16. ASSUME NEW k \in Caller, StrayReturns(k) PROVE Outer'
    BY <1>16 DEF StrayReturns, Leave, Goto
  <1>17. ASSUME NEW k \in Caller, TimeOut(k) PROVE Outer'
    BY <1>17 DEF TimeOut, Leave, Goto
  <1>18. CASE CloseStart
    BY <1>18 DEF CloseStart
  <1>19. ASSUME NEW c \in Connection, CloseNext(c) PROVE Outer'
    BY <1>19 DEF CloseNext
  <1>20. CASE CloseEnd
    BY <1>20 DEF CloseEnd
  <1>21. CASE CheckStart
    <2>1. << pools[1], epoch >> \in Pool
      BY <1>21 DEF CheckStart, Pool
    <2>2. QED
      BY <1>21, <2>1 DEF CheckStart
  <1>22. CASE ProbeBreaks
    BY <1>22 DEF ProbeBreaks
  <1>23. CASE CheckNext
    <2>1. << pools[Len(probed) + 1], epoch >> \in Pool
      BY <1>23 DEF CheckNext, Pool
    <2>2. QED
      BY <1>23, <2>1 DEF CheckNext
  <1>24. CASE CheckEnd
    BY <1>24 DEF CheckEnd
  <1>25. CASE CheckRaises
    BY <1>25 DEF CheckRaises
  <1>26. CASE UNCHANGED vars
    BY <1>26 DEF vars
  <1>27. QED
    BY <1>1, <1>2, <1>3, <1>4, <1>5, <1>6, <1>7, <1>8, <1>9, <1>10, <1>11,
       <1>12, <1>13, <1>14, <1>15, <1>16, <1>17, <1>18, <1>19, <1>20, <1>21, <1>22,
       <1>23, <1>24, <1>25, <1>26
       DEF Next, Acquire

\* And those of the pools and the callers.
LEMMA InnerStep ==
  ASSUME Outer, Inner, OneConnects, [Next]_vars
  PROVE  Inner'
PROOF
  <1>a. NoTarget \in Connection
    BY ConnectionAssumption DEF NoTarget
  <1>b. /\ \A k \in Caller : poolOf(k) \in Pool
        /\ \A c \in Connection : << c, 0 >> \in Pool /\ << c, epoch >> \in Pool
    BY DEF Outer, Inner, poolOf, Pool
  <1>c. check = "running" => Last(probed) \in Pool
    BY DEF Outer, Last
  <1>d. epoch \in {0, 1}
    BY DEF Outer
  <1> USE LimitAssumption, <1>a, <1>b
      DEF Inner, Waiting, Inside, callers, content, dictionary, elsewhere, unprobed
  <1>1. ASSUME NEW c \in Connection, WarmUp(c) PROVE Inner'
    <2>1. PICK n \in 0..PoolLimit : /\ listed' = [listed EXCEPT ![<< c, 0 >>] = n]
                                     /\ idle' = [idle EXCEPT ![<< c, 0 >>] = n]
      BY <1>1 DEF WarmUp
    <2> DEFINE p == << c, 0 >>
    <2>2. p \in Pool
      BY <1>b
    <2> HIDE DEF p
    <2>3. /\ listed' = [listed EXCEPT ![p] = n] /\ idle' = [idle EXCEPT ![p] = n]
          /\ UNCHANGED << podPermits, permits, pc, target, held >>
      BY <1>1, <2>1 DEF WarmUp, p
    <2>4. QED
      BY <2>2, <2>3
  <1>2. CASE Serve
    BY <1>2 DEF Serve
  <1>3. ASSUME NEW k \in Caller, LookupFails(k) PROVE Inner'
    BY <1>3 DEF LookupFails
  <1>4. ASSUME NEW k \in Caller, NEW c \in Connection, Ask(k, c) PROVE Inner'
    BY <1>4 DEF Ask, Goto
  <1>5. ASSUME NEW k \in Caller, TakePod(k) PROVE Inner'
    BY <1>5 DEF TakePod, Goto
  <1>6. ASSUME NEW k \in Caller, GetPool(k) PROVE Inner'
    BY <1>6, <1>d DEF GetPool, HasLock, Goto
  <1>7. ASSUME NEW k \in Caller, GetPoolFails(k) PROVE Inner'
    BY <1>7 DEF GetPoolFails, HasLock, Leave, Goto
  <1>8. ASSUME NEW k \in Caller, TakePool(k) PROVE Inner'
    BY <1>8 DEF TakePool, Goto
  <1>9. ASSUME NEW k \in Caller, EnterIdle(k) PROVE Inner'
    BY <1>9 DEF EnterIdle, AtLock, Goto
  <1>10. ASSUME NEW k \in Caller, StartConnect(k) PROVE Inner'
    BY <1>10 DEF StartConnect, NoneIdle, AtLock, Goto
  <1>11. ASSUME NEW k \in Caller, Connected(k) PROVE Inner'
    <2>1. listed[poolOf(k)] < PoolLimit
      BY <1>11 DEF Connected, OneConnects, In
    <2>2. QED
      BY <1>11, <2>1 DEF Connected, Goto
  <1>12. ASSUME NEW k \in Caller, ConnectFails(k) PROVE Inner'
    BY <1>12 DEF ConnectFails, Leave, Goto
  <1>13. ASSUME NEW k \in Caller, Refused(k) PROVE Inner'
    BY <1>13 DEF Refused, NoneIdle, AtLock, Leave, Goto
  <1>14. ASSUME NEW k \in Caller, Return(k) PROVE Inner'
    BY <1>14 DEF Return, Leave, Goto
  <1>15. ASSUME NEW k \in Caller, TransferFails(k) PROVE Inner'
    BY <1>15 DEF TransferFails, Leave, Goto
  <1>16. ASSUME NEW k \in Caller, StrayReturns(k) PROVE Inner'
    BY <1>16 DEF StrayReturns, Leave, Goto
  <1>17. ASSUME NEW k \in Caller, TimeOut(k) PROVE Inner'
    BY <1>17 DEF TimeOut, Leave, Goto
  <1>18. CASE CloseStart
    BY <1>18 DEF CloseStart
  <1>19. ASSUME NEW c \in Connection, CloseNext(c) PROVE Inner'
    <2> DEFINE p == << c, epoch >>
    <2>1. p \in Pool
      BY <1>b
    <2> HIDE DEF p
    <2>2. /\ listed' = [listed EXCEPT ![p] = 0] /\ idle' = [idle EXCEPT ![p] = 0]
          /\ UNCHANGED << podPermits, permits, target, held >>
      BY <1>19 DEF CloseNext, p
    <2>3. pc' \in [Caller -> {"out"} \cup Waiting \cup Inside]
      BY <1>19 DEF CloseNext
    <2>4. QED
      BY <2>1, <2>2, <2>3
  <1>20. CASE CloseEnd
    BY <1>20 DEF CloseEnd
  <1>21. CASE CheckStart
    BY <1>21 DEF CheckStart
  <1>22. CASE ProbeBreaks
    BY <1>22, <1>c DEF ProbeBreaks
  <1>23. CASE CheckNext
    BY <1>23 DEF CheckNext
  <1>24. CASE CheckEnd
    BY <1>24 DEF CheckEnd
  <1>25. CASE CheckRaises
    BY <1>25 DEF CheckRaises
  <1>26. CASE UNCHANGED vars
    BY <1>26 DEF vars
  <1>27. QED
    BY <1>1, <1>2, <1>3, <1>4, <1>5, <1>6, <1>7, <1>8, <1>9, <1>10, <1>11,
       <1>12, <1>13, <1>14, <1>15, <1>16, <1>17, <1>18, <1>19, <1>20, <1>21, <1>22,
       <1>23, <1>24, <1>25, <1>26
       DEF Next, Acquire

-----------------------------------------------------------------------------
(* Phases, epochs and the dictionary                                        *)

Order ==
  /\ phase = "warming" => closer = "idle" /\ \A k \in Caller : pc[k] = "out"
  /\ closer = "done" <=> epoch = 1
  /\ \A k \in Caller : held[k] = 1 => epoch = 1

LEMMA OrderStep ==
  ASSUME Outer, Inner, Order, [Next]_vars
  PROVE  Order'
PROOF
  <1> USE DEF Outer, Inner, Order, Waiting, Inside, callers, content, dictionary,
              elsewhere, unprobed
  <1>1. ASSUME NEW c \in Connection, WarmUp(c) PROVE Order'
    BY <1>1 DEF WarmUp
  <1>2. CASE Serve
    BY <1>2 DEF Serve
  <1>3. ASSUME NEW k \in Caller, LookupFails(k) PROVE Order'
    BY <1>3 DEF LookupFails
  <1>4. ASSUME NEW k \in Caller, NEW c \in Connection, Ask(k, c) PROVE Order'
    BY <1>4 DEF Ask, Goto
  <1>5. ASSUME NEW k \in Caller, TakePod(k) PROVE Order'
    BY <1>5 DEF TakePod, Goto
  <1>6. ASSUME NEW k \in Caller, GetPool(k) PROVE Order'
    BY <1>6 DEF GetPool, Goto, HasLock
  <1>7. ASSUME NEW k \in Caller, GetPoolFails(k) PROVE Order'
    BY <1>7 DEF GetPoolFails, HasLock, Leave, Goto
  <1>8. ASSUME NEW k \in Caller, TakePool(k) PROVE Order'
    BY <1>8 DEF TakePool, Goto
  <1>9. ASSUME NEW k \in Caller, EnterIdle(k) PROVE Order'
    BY <1>9 DEF EnterIdle, AtLock, Goto
  <1>10. ASSUME NEW k \in Caller, StartConnect(k) PROVE Order'
    BY <1>10 DEF StartConnect, NoneIdle, AtLock, Goto
  <1>11. ASSUME NEW k \in Caller, Connected(k) PROVE Order'
    BY <1>11 DEF Connected, Goto
  <1>12. ASSUME NEW k \in Caller, ConnectFails(k) PROVE Order'
    BY <1>12 DEF ConnectFails, Leave, Goto
  <1>13. ASSUME NEW k \in Caller, Refused(k) PROVE Order'
    BY <1>13 DEF Refused, NoneIdle, AtLock, Leave, Goto
  <1>14. ASSUME NEW k \in Caller, Return(k) PROVE Order'
    BY <1>14 DEF Return, Leave, Goto
  <1>15. ASSUME NEW k \in Caller, TransferFails(k) PROVE Order'
    BY <1>15 DEF TransferFails, Leave, Goto
  <1>16. ASSUME NEW k \in Caller, StrayReturns(k) PROVE Order'
    BY <1>16 DEF StrayReturns, Leave, Goto
  <1>17. ASSUME NEW k \in Caller, TimeOut(k) PROVE Order'
    BY <1>17 DEF TimeOut, Leave, Goto
  <1>18. CASE CloseStart
    BY <1>18 DEF CloseStart
  <1>19. ASSUME NEW c \in Connection, CloseNext(c) PROVE Order'
    BY <1>19 DEF CloseNext
  <1>20. CASE CloseEnd
    BY <1>20 DEF CloseEnd
  <1>21. CASE CheckStart
    BY <1>21 DEF CheckStart
  <1>22. CASE ProbeBreaks
    BY <1>22 DEF ProbeBreaks
  <1>23. CASE CheckNext
    BY <1>23 DEF CheckNext
  <1>24. CASE CheckEnd
    BY <1>24 DEF CheckEnd
  <1>25. CASE CheckRaises
    BY <1>25 DEF CheckRaises
  <1>26. CASE UNCHANGED vars
    BY <1>26 DEF vars
  <1>27. QED
    BY <1>1, <1>2, <1>3, <1>4, <1>5, <1>6, <1>7, <1>8, <1>9, <1>10, <1>11,
       <1>12, <1>13, <1>14, <1>15, <1>16, <1>17, <1>18, <1>19, <1>20, <1>21, <1>22,
       <1>23, <1>24, <1>25, <1>26
       DEF Next, Acquire

\* The dictionary keeps one pool for each key, and those callers were given.
LEMMA ReachStep ==
  ASSUME Outer, Inner, Order, PoolsReachable, [Next]_vars
  PROVE  PoolsReachable'
PROOF
  <1>a. UNCHANGED pools => UNCHANGED Keys
    BY DEF Keys
  <1> USE <1>a DEF Outer, Inner, Order, PoolsReachable, In, Waiting, Inside, callers,
              content, dictionary, elsewhere, unprobed
  <1>1. ASSUME NEW c \in Connection, WarmUp(c) PROVE PoolsReachable'
    <2>1. c \in Connection /\ c \notin Keys
      BY <1>1 DEF WarmUp
    <2>2. pools' = Append(pools, c)
      BY <1>1 DEF WarmUp
    <2>3. \A i \in DOMAIN pools : pools[i] # c
      BY <2>1 DEF Keys
    <2>4. \A i, j \in DOMAIN pools' : pools'[i] = pools'[j] => i = j
      BY <2>1, <2>2, <2>3, KeysAppend
    <2>5. Keys \subseteq Keys'
      BY <2>1, <2>2, KeysAppend
    <2>6. QED
      BY <1>1, <2>4, <2>5 DEF WarmUp
  <1>2. CASE Serve
    BY <1>2 DEF Serve
  <1>3. ASSUME NEW k \in Caller, LookupFails(k) PROVE PoolsReachable'
    BY <1>3 DEF LookupFails
  <1>4. ASSUME NEW k \in Caller, NEW c \in Connection, Ask(k, c) PROVE PoolsReachable'
    BY <1>4 DEF Ask, Goto
  <1>5. ASSUME NEW k \in Caller, TakePod(k) PROVE PoolsReachable'
    BY <1>5 DEF TakePod, Goto
  <1>6. ASSUME NEW k \in Caller, GetPool(k) PROVE PoolsReachable'
    <2> DEFINE c == target[k]
    <2>1. c \in Connection
      OBVIOUS
    <2>2. CASE c \in Keys
      BY <1>6, <2>2 DEF GetPool, HasLock, Goto
    <2>3. CASE c \notin Keys
      <3> HIDE DEF c
      <3>1. pools' = Append(pools, c)
        BY <1>6, <2>3 DEF GetPool, c
      <3>2. \A i \in DOMAIN pools : pools[i] # c
        BY <2>3 DEF Keys
      <3>3. \A i, j \in DOMAIN pools' : pools'[i] = pools'[j] => i = j
        BY <2>1, <3>1, <3>2, KeysAppend
      <3>4. Keys' = Keys \cup {c}
        BY <2>1, <3>1, KeysAppend
      <3>5. QED
        BY <1>6, <3>3, <3>4 DEF GetPool, HasLock, Goto, c
    <2>4. QED
      BY <2>2, <2>3
  <1>7. ASSUME NEW k \in Caller, GetPoolFails(k) PROVE PoolsReachable'
    BY <1>7 DEF GetPoolFails, HasLock, Leave, Goto
  <1>8. ASSUME NEW k \in Caller, TakePool(k) PROVE PoolsReachable'
    BY <1>8 DEF TakePool, Goto
  <1>9. ASSUME NEW k \in Caller, EnterIdle(k) PROVE PoolsReachable'
    BY <1>9 DEF EnterIdle, AtLock, Goto
  <1>10. ASSUME NEW k \in Caller, StartConnect(k) PROVE PoolsReachable'
    BY <1>10 DEF StartConnect, NoneIdle, AtLock, Goto
  <1>11. ASSUME NEW k \in Caller, Connected(k) PROVE PoolsReachable'
    BY <1>11 DEF Connected, Goto
  <1>12. ASSUME NEW k \in Caller, ConnectFails(k) PROVE PoolsReachable'
    BY <1>12 DEF ConnectFails, Leave, Goto
  <1>13. ASSUME NEW k \in Caller, Refused(k) PROVE PoolsReachable'
    BY <1>13 DEF Refused, NoneIdle, AtLock, Leave, Goto
  <1>14. ASSUME NEW k \in Caller, Return(k) PROVE PoolsReachable'
    BY <1>14 DEF Return, Leave, Goto
  <1>15. ASSUME NEW k \in Caller, TransferFails(k) PROVE PoolsReachable'
    BY <1>15 DEF TransferFails, Leave, Goto
  <1>16. ASSUME NEW k \in Caller, StrayReturns(k) PROVE PoolsReachable'
    BY <1>16 DEF StrayReturns, Leave, Goto
  <1>17. ASSUME NEW k \in Caller, TimeOut(k) PROVE PoolsReachable'
    BY <1>17 DEF TimeOut, Leave, Goto
  <1>18. CASE CloseStart
    BY <1>18 DEF CloseStart
  <1>19. ASSUME NEW c \in Connection, CloseNext(c) PROVE PoolsReachable'
    BY <1>19 DEF CloseNext
  <1>20. CASE CloseEnd
    BY <1>20 DEF CloseEnd
  <1>21. CASE CheckStart
    BY <1>21 DEF CheckStart
  <1>22. CASE ProbeBreaks
    BY <1>22 DEF ProbeBreaks
  <1>23. CASE CheckNext
    BY <1>23 DEF CheckNext
  <1>24. CASE CheckEnd
    BY <1>24 DEF CheckEnd
  <1>25. CASE CheckRaises
    BY <1>25 DEF CheckRaises
  <1>26. CASE UNCHANGED vars
    BY <1>26 DEF vars
  <1>27. QED
    BY <1>1, <1>2, <1>3, <1>4, <1>5, <1>6, <1>7, <1>8, <1>9, <1>10, <1>11,
       <1>12, <1>13, <1>14, <1>15, <1>16, <1>17, <1>18, <1>19, <1>20, <1>21, <1>22,
       <1>23, <1>24, <1>25, <1>26
       DEF Next, Acquire

-----------------------------------------------------------------------------
(* One caller connects at a time in each pool                               *)

LEMMA ConnectStep ==
  ASSUME Inner, Order, OneConnects, [Next]_vars
  PROVE  OneConnects'
PROOF
  <1>a. ASSUME UNCHANGED listed,
               \A j \in In({"connecting"})' : j \in In({"connecting"}) /\ poolOf(j)' = poolOf(j)
        PROVE  OneConnects'
    BY <1>a DEF OneConnects
  <1>b. ASSUME NEW k \in Caller, Leave(k), UNCHANGED listed
        PROVE  OneConnects'
    <2>1. \A j \in In({"connecting"})' : j \in In({"connecting"}) /\ poolOf(j)' = poolOf(j)
      BY <1>b DEF Leave, Goto, In, Inner, poolOf
    <2>2. QED
      BY <1>b, <2>1, <1>a
  <1>c. UNCHANGED << listed, pc, target, held >> => OneConnects'
    BY <1>a DEF In, poolOf
  <1> USE DEF content, callers, checker, dictionary, elsewhere, unprobed
  <1>1. ASSUME NEW c \in Connection, WarmUp(c) PROVE OneConnects'
    BY <1>1 DEF WarmUp, Order, OneConnects, In
  <1>2. CASE Serve
    BY <1>2, <1>c DEF Serve
  <1>3. ASSUME NEW k \in Caller, LookupFails(k) PROVE OneConnects'
    BY <1>3, <1>c DEF LookupFails
  <1>4. ASSUME NEW k \in Caller, NEW c \in Connection, Ask(k, c) PROVE OneConnects'
    <2>1. \A j \in In({"connecting"})' : j \in In({"connecting"}) /\ poolOf(j)' = poolOf(j)
      BY <1>4 DEF Ask, Goto, In, Inner, poolOf
    <2>2. QED
      BY <1>4, <2>1, <1>a DEF Ask
  <1>5. ASSUME NEW k \in Caller, TakePod(k) PROVE OneConnects'
    <2>1. \A j \in In({"connecting"})' : j \in In({"connecting"}) /\ poolOf(j)' = poolOf(j)
      BY <1>5 DEF TakePod, Goto, In, Inner, poolOf
    <2>2. QED
      BY <1>5, <2>1, <1>a DEF TakePod
  <1>6. ASSUME NEW k \in Caller, GetPool(k) PROVE OneConnects'
    <2>1. \A j \in In({"connecting"})' : j \in In({"connecting"}) /\ poolOf(j)' = poolOf(j)
      BY <1>6 DEF GetPool, HasLock, Goto, In, Inner, poolOf
    <2>2. QED
      BY <1>6, <2>1, <1>a DEF GetPool
  <1>7. ASSUME NEW k \in Caller, GetPoolFails(k) PROVE OneConnects'
    BY <1>7, <1>b DEF GetPoolFails
  <1>8. ASSUME NEW k \in Caller, TakePool(k) PROVE OneConnects'
    <2>1. \A j \in In({"connecting"})' : j \in In({"connecting"}) /\ poolOf(j)' = poolOf(j)
      BY <1>8 DEF TakePool, Goto, In, Inner, poolOf
    <2>2. QED
      BY <1>8, <2>1, <1>a DEF TakePool
  <1>9. ASSUME NEW k \in Caller, EnterIdle(k) PROVE OneConnects'
    <2>1. \A j \in In({"connecting"})' : j \in In({"connecting"}) /\ poolOf(j)' = poolOf(j)
      BY <1>9 DEF EnterIdle, AtLock, Goto, In, Inner, poolOf
    <2>2. QED
      BY <1>9, <2>1, <1>a DEF EnterIdle
  <1>10. ASSUME NEW k \in Caller, StartConnect(k) PROVE OneConnects'
    <2>1. \A j \in In({"connecting"})' : j = k \/ j \in In({"connecting"})
      BY <1>10 DEF StartConnect, Goto, In, Inner
    <2>2. \A j \in In({"connecting"}) : poolOf(j) # poolOf(k)
      BY <1>10 DEF StartConnect, NoneIdle, AtLock, Unlocked, In
    <2>3. listed' = listed /\ \A j \in Caller : poolOf(j)' = poolOf(j)
      BY <1>10 DEF StartConnect, poolOf
    <2>4. listed[poolOf(k)] < PoolLimit
      BY <1>10 DEF StartConnect
    <2>5. QED
      BY <2>1, <2>2, <2>3, <2>4 DEF OneConnects, In
  <1>11. ASSUME NEW k \in Caller, Connected(k) PROVE OneConnects'
    <2>1. \A j \in In({"connecting"})' : j \in In({"connecting"}) /\ j # k
      BY <1>11 DEF Connected, Goto, In, Inner
    <2>2. k \in In({"connecting"})
      BY <1>11 DEF Connected, In
    <2>3. \A j \in Caller : poolOf(j)' = poolOf(j) /\ poolOf(j) \in Pool
      BY <1>11 DEF Connected, poolOf, Inner, Pool
    <2>4. \A p \in Pool : p # poolOf(k) => listed'[p] = listed[p]
      BY <1>11 DEF Connected, Inner
    <2>5. QED
      BY <2>1, <2>2, <2>3, <2>4 DEF OneConnects, In
  <1>12. ASSUME NEW k \in Caller, ConnectFails(k) PROVE OneConnects'
    BY <1>12, <1>b DEF ConnectFails
  <1>13. ASSUME NEW k \in Caller, Refused(k) PROVE OneConnects'
    BY <1>13, <1>b DEF Refused
  <1>14. ASSUME NEW k \in Caller, Return(k) PROVE OneConnects'
    BY <1>14, <1>b DEF Return
  <1>15. ASSUME NEW k \in Caller, TransferFails(k) PROVE OneConnects'
    BY <1>15, <1>b DEF TransferFails
  <1>16. ASSUME NEW k \in Caller, StrayReturns(k) PROVE OneConnects'
    BY <1>16, <1>b DEF StrayReturns
  <1>17. ASSUME NEW k \in Caller, TimeOut(k) PROVE OneConnects'
    BY <1>17, <1>b DEF TimeOut
  <1>18. CASE CloseStart
    BY <1>18, <1>c DEF CloseStart
  <1>19. ASSUME NEW c \in Connection, CloseNext(c) PROVE OneConnects'
    <2>1. \A j \in In({"connecting"})' : j \in In({"connecting"})
      BY <1>19 DEF CloseNext, In, Inner
    <2>2. \A j \in Caller : poolOf(j)' = poolOf(j) /\ poolOf(j) \in Pool
      BY <1>19 DEF CloseNext, poolOf, Inner, Pool
    <2>3. \A p \in Pool : listed'[p] \in {0, listed[p]}
      BY <1>19 DEF CloseNext, Inner
    <2>4. QED
      BY <2>1, <2>2, <2>3, LimitAssumption DEF OneConnects, In
  <1>20. CASE CloseEnd
    BY <1>20, <1>c DEF CloseEnd
  <1>21. CASE CheckStart
    BY <1>21, <1>c DEF CheckStart
  <1>22. CASE ProbeBreaks
    BY <1>22, <1>c DEF ProbeBreaks
  <1>23. CASE CheckNext
    BY <1>23, <1>c DEF CheckNext
  <1>24. CASE CheckEnd
    BY <1>24, <1>c DEF CheckEnd
  <1>25. CASE CheckRaises
    BY <1>25, <1>c DEF CheckRaises
  <1>26. CASE UNCHANGED vars
    BY <1>26, <1>c DEF vars
  <1>27. QED
    BY <1>1, <1>2, <1>3, <1>4, <1>5, <1>6, <1>7, <1>8, <1>9, <1>10, <1>11,
       <1>12, <1>13, <1>14, <1>15, <1>16, <1>17, <1>18, <1>19, <1>20, <1>21, <1>22,
       <1>23, <1>24, <1>25, <1>26
       DEF Next, Acquire

-----------------------------------------------------------------------------
(* What close_all leaves open                                               *)

Leaks == {c \in Connection : listed[<< c, 0 >>] > 0}

LeaksLater ==
  /\ epoch = 0 => Leaks \subseteq Keys
  /\ closer # "idle" /\ ~overlap =>
       /\ \A k \in In({"wait_pool"} \cup Inside) : held[k] = 1
       /\ Leaks \subseteq closing
  /\ closer = "done" => closing = {}

\* Sessions are only added by warm_up_all, before close_all, and by callers.
LEMMA LeakStep ==
  ASSUME Outer, Inner, Order, PoolsReachable, LeaksLater, [Next]_vars
  PROVE  LeaksLater'
PROOF
  <1>a. UNCHANGED pools => UNCHANGED Keys
    BY DEF Keys
  <1>b. UNCHANGED listed => UNCHANGED Leaks
    BY DEF Leaks
  <1> USE <1>a, <1>b
      DEF Outer, Inner, Order, LeaksLater, In, Waiting, Inside, callers,
          content, dictionary, elsewhere, unprobed
  <1>1. ASSUME NEW c \in Connection, WarmUp(c) PROVE LeaksLater'
    <2>1. Keys' = Keys \cup {c}
      BY <1>1, KeysAppend DEF WarmUp
    <2>2. PICK n \in 0..PoolLimit : listed' = [listed EXCEPT ![<< c, 0 >>] = n]
      BY <1>1 DEF WarmUp
    <2>3. Leaks' \subseteq Leaks \cup {c}
      BY <2>2 DEF Leaks, Pool
    <2>4. QED
      BY <1>1, <2>1, <2>3 DEF WarmUp
  <1>2. CASE Serve
    BY <1>2 DEF Serve
  <1>3. ASSUME NEW k \in Caller, LookupFails(k) PROVE LeaksLater'
    BY <1>3 DEF LookupFails
  <1>4. ASSUME NEW k \in Caller, NEW c \in Connection, Ask(k, c) PROVE LeaksLater'
    BY <1>4 DEF Ask, Goto
  <1>5. ASSUME NEW k \in Caller, TakePod(k) PROVE LeaksLater'
    BY <1>5 DEF TakePod, Goto
  <1>6. ASSUME NEW k \in Caller, GetPool(k) PROVE LeaksLater'
    <2>1. CASE target[k] \in Keys
      BY <1>6, <2>1 DEF GetPool, HasLock, Goto
    <2>2. CASE target[k] \notin Keys
      <3>1. Keys' = Keys \cup {target[k]}
        BY <1>6, <2>2, KeysAppend DEF GetPool
      <3>2. QED
        BY <1>6, <3>1 DEF GetPool, HasLock, Goto
    <2>3. QED
      BY <2>1, <2>2
  <1>7. ASSUME NEW k \in Caller, GetPoolFails(k) PROVE LeaksLater'
    BY <1>7 DEF GetPoolFails, HasLock, Leave, Goto
  <1>8. ASSUME NEW k \in Caller, TakePool(k) PROVE LeaksLater'
    BY <1>8 DEF TakePool, Goto
  <1>9. ASSUME NEW k \in Caller, EnterIdle(k) PROVE LeaksLater'
    BY <1>9 DEF EnterIdle, AtLock, Goto
  <1>10. ASSUME NEW k \in Caller, StartConnect(k) PROVE LeaksLater'
    BY <1>10 DEF StartConnect, NoneIdle, AtLock, Goto
  <1>11. ASSUME NEW k \in Caller, Connected(k) PROVE LeaksLater'
    <2>1. pc[k] \in Inside /\ poolOf(k) \in Pool
      BY <1>11 DEF Connected, poolOf, Pool
    <2>2. listed' = [listed EXCEPT ![poolOf(k)] = listed[poolOf(k)] + 1]
      BY <1>11 DEF Connected
    <2>3. CASE held[k] = 1
      <3>1. Leaks' = Leaks
        BY <2>2, <2>3 DEF Leaks, poolOf, Pool
      <3>2. QED
        BY <1>11, <3>1 DEF Connected, Goto
    <2>4. CASE held[k] = 0
      <3>1. Leaks' \subseteq Leaks \cup {target[k]}
        BY <2>2, <2>4 DEF Leaks, poolOf, Pool
      <3>2. epoch = 0 => target[k] \in Keys
        BY <2>1, <2>4 DEF PoolsReachable
      <3>3. closer # "idle" => overlap
        BY <2>1, <2>4
      <3>4. QED
        BY <1>11, <3>1, <3>2, <3>3 DEF Connected, Goto
    <2>5. QED
      BY <2>3, <2>4
  <1>12. ASSUME NEW k \in Caller, ConnectFails(k) PROVE LeaksLater'
    BY <1>12 DEF ConnectFails, Leave, Goto
  <1>13. ASSUME NEW k \in Caller, Refused(k) PROVE LeaksLater'
    BY <1>13 DEF Refused, NoneIdle, AtLock, Leave, Goto
  <1>14. ASSUME NEW k \in Caller, Return(k) PROVE LeaksLater'
    BY <1>14 DEF Return, Leave, Goto
  <1>15. ASSUME NEW k \in Caller, TransferFails(k) PROVE LeaksLater'
    BY <1>15 DEF TransferFails, Leave, Goto
  <1>16. ASSUME NEW k \in Caller, StrayReturns(k) PROVE LeaksLater'
    BY <1>16 DEF StrayReturns, Leave, Goto
  <1>17. ASSUME NEW k \in Caller, TimeOut(k) PROVE LeaksLater'
    BY <1>17 DEF TimeOut, Leave, Goto
  <1>18. CASE CloseStart
    BY <1>18 DEF CloseStart
  <1>19. ASSUME NEW c \in Connection, CloseNext(c) PROVE LeaksLater'
    <2>1. epoch = 0
      BY <1>19 DEF CloseNext
    <2>2. listed' = [listed EXCEPT ![<< c, 0 >>] = 0]
      BY <1>19, <2>1 DEF CloseNext
    <2>3. Leaks' = Leaks \ {c}
      BY <2>2 DEF Leaks, Pool
    <2>4. QED
      BY <1>19, <2>1, <2>3 DEF CloseNext
  <1>20. CASE CloseEnd
    BY <1>20 DEF CloseEnd
  <1>21. CASE CheckStart
    BY <1>21 DEF CheckStart
  <1>22. CASE ProbeBreaks
    BY <1>22 DEF ProbeBreaks
  <1>23. CASE CheckNext
    BY <1>23 DEF CheckNext
  <1>24. CASE CheckEnd
    BY <1>24 DEF CheckEnd
  <1>25. CASE CheckRaises
    BY <1>25 DEF CheckRaises
  <1>26. CASE UNCHANGED vars
    BY <1>26 DEF vars
  <1>27. QED
    BY <1>1, <1>2, <1>3, <1>4, <1>5, <1>6, <1>7, <1>8, <1>9, <1>10, <1>11,
       <1>12, <1>13, <1>14, <1>15, <1>16, <1>17, <1>18, <1>19, <1>20, <1>21, <1>22,
       <1>23, <1>24, <1>25, <1>26
       DEF Next, Acquire

-----------------------------------------------------------------------------
(* The permits of both levels                                               *)

LEMMA CallersFinite ==
  ASSUME NEW S, S \subseteq Caller
  PROVE  IsFiniteSet(S) /\ Cardinality(S) \in Nat
BY CallerAssumption, FS_Subset, FS_CardinalityType

LEMMA OneMore ==
  ASSUME NEW S, S \subseteq Caller, NEW k \in Caller, k \notin S
  PROVE  Cardinality(S \cup {k}) = Cardinality(S) + 1
BY CallersFinite, FS_AddElement

LEMMA OneLess ==
  ASSUME NEW S, S \subseteq Caller, NEW k \in S
  PROVE  Cardinality(S \ {k}) = Cardinality(S) - 1
BY CallersFinite, FS_RemoveElement

\* A caller that leaves gives back what it holds of the pod.
LEMMA PodLeave ==
  ASSUME Inner, PodPermitsAccounted, NEW k \in Caller, Leave(k)
  PROVE  PodPermitsAccounted'
PROOF
  <1> DEFINE H == In(Holding)
  <1>1. H \subseteq Caller /\ (k \in H <=> pc[k] \in Holding)
    BY DEF In
  <1>2. H' = H \ {k}
    BY DEF Inner, Leave, Goto, In, Holding, Inside
  <1>3. podPermits' = podPermits + (IF k \in H THEN 1 ELSE 0)
    BY <1>1 DEF Leave
  <1>4. podPermits + Cardinality(H) = PodLimit /\ podPermits \in Nat
    BY DEF PodPermitsAccounted, Inner
  <1>5. Cardinality(H) \in Nat
    BY <1>1, CallersFinite
  <1>6. podPermits' + Cardinality(H') = PodLimit
    <2> HIDE DEF H
    <2>1. CASE k \in H
      <3>1. Cardinality(H \ {k}) = Cardinality(H) - 1
        BY <1>1, <2>1, OneLess
      <3>2. QED
        BY <1>2, <1>3, <1>4, <1>5, <2>1, <3>1
    <2>2. CASE k \notin H
      <3>1. H \ {k} = H
        BY <2>2
      <3>2. QED
        BY <1>2, <1>3, <1>4, <2>2, <3>1
    <2>3. QED
      BY <2>1, <2>2
  <1>7. QED
    BY <1>6 DEF PodPermitsAccounted

LEMMA PodSame ==
  ASSUME PodPermitsAccounted, UNCHANGED << podPermits, In(Holding) >>
  PROVE  PodPermitsAccounted'
BY DEF PodPermitsAccounted

LEMMA PodStep ==
  ASSUME Inner, PodPermitsAccounted, [Next]_vars
  PROVE  PodPermitsAccounted'
PROOF
  <1>a. UNCHANGED << podPermits, pc >> => PodPermitsAccounted'
    BY PodSame DEF In
  <1> USE DEF content, callers, checker, dictionary, elsewhere, unprobed
  <1>1. ASSUME NEW c \in Connection, WarmUp(c) PROVE PodPermitsAccounted'
    BY <1>1, <1>a DEF WarmUp
  <1>2. CASE Serve
    BY <1>2, <1>a DEF Serve
  <1>3. ASSUME NEW k \in Caller, LookupFails(k) PROVE PodPermitsAccounted'
    BY <1>3, <1>a DEF LookupFails
  <1>4. ASSUME NEW k \in Caller, NEW c \in Connection, Ask(k, c) PROVE PodPermitsAccounted'
    <2>1. UNCHANGED << podPermits, In(Holding) >>
      BY <1>4 DEF Ask, Inner, Goto, In, Holding, Inside
    <2>2. QED
      BY <2>1, PodSame
  <1>5. ASSUME NEW k \in Caller, TakePod(k) PROVE PodPermitsAccounted'
    <2> DEFINE H == In(Holding)
    <2>1. H \subseteq Caller /\ k \notin H
      BY <1>5 DEF TakePod, In, Holding, Inside
    <2>2. H' = H \cup {k}
      BY <1>5 DEF TakePod, Inner, Goto, In, Holding, Inside
    <2>3. podPermits' = podPermits - 1 /\ podPermits \in Nat
      BY <1>5 DEF TakePod, Inner
    <2>4. podPermits + Cardinality(H) = PodLimit
      BY DEF PodPermitsAccounted
    <2>5. Cardinality(H \cup {k}) = Cardinality(H) + 1 /\ Cardinality(H) \in Nat
      <3> HIDE DEF H
      <3>1. QED
        BY <2>1, OneMore, CallersFinite
    <2>6. podPermits' + Cardinality(H') = PodLimit
      <3> HIDE DEF H
      <3>1. QED
        BY <2>2, <2>3, <2>4, <2>5
    <2>7. QED
      BY <2>6 DEF PodPermitsAccounted
  <1>6. ASSUME NEW k \in Caller, GetPool(k) PROVE PodPermitsAccounted'
    <2>1. UNCHANGED << podPermits, In(Holding) >>
      BY <1>6 DEF GetPool, Inner, Goto, In, Holding, Inside, HasLock
    <2>2. QED
      BY <2>1, PodSame
  <1>7. ASSUME NEW k \in Caller, GetPoolFails(k) PROVE PodPermitsAccounted'
    BY <1>7, PodLeave DEF GetPoolFails
  <1>8. ASSUME NEW k \in Caller, TakePool(k) PROVE PodPermitsAccounted'
    <2>1. UNCHANGED << podPermits, In(Holding) >>
      BY <1>8 DEF TakePool, Inner, Goto, In, Holding, Inside
    <2>2. QED
      BY <2>1, PodSame
  <1>9. ASSUME NEW k \in Caller, EnterIdle(k) PROVE PodPermitsAccounted'
    <2>1. UNCHANGED << podPermits, In(Holding) >>
      BY <1>9 DEF EnterIdle, AtLock, Inner, Goto, In, Holding, Inside
    <2>2. QED
      BY <2>1, PodSame
  <1>10. ASSUME NEW k \in Caller, StartConnect(k) PROVE PodPermitsAccounted'
    <2>1. UNCHANGED << podPermits, In(Holding) >>
      BY <1>10 DEF StartConnect, NoneIdle, AtLock, Inner, Goto, In, Holding, Inside
    <2>2. QED
      BY <2>1, PodSame
  <1>11. ASSUME NEW k \in Caller, Connected(k) PROVE PodPermitsAccounted'
    <2>1. UNCHANGED << podPermits, In(Holding) >>
      BY <1>11 DEF Connected, Inner, Goto, In, Holding, Inside
    <2>2. QED
      BY <2>1, PodSame
  <1>12. ASSUME NEW k \in Caller, ConnectFails(k) PROVE PodPermitsAccounted'
    BY <1>12, PodLeave DEF ConnectFails
  <1>13. ASSUME NEW k \in Caller, Refused(k) PROVE PodPermitsAccounted'
    BY <1>13, PodLeave DEF Refused
  <1>14. ASSUME NEW k \in Caller, Return(k) PROVE PodPermitsAccounted'
    BY <1>14, PodLeave DEF Return
  <1>15. ASSUME NEW k \in Caller, TransferFails(k) PROVE PodPermitsAccounted'
    BY <1>15, PodLeave DEF TransferFails
  <1>16. ASSUME NEW k \in Caller, StrayReturns(k) PROVE PodPermitsAccounted'
    BY <1>16, PodLeave DEF StrayReturns
  <1>17. ASSUME NEW k \in Caller, TimeOut(k) PROVE PodPermitsAccounted'
    BY <1>17, PodLeave DEF TimeOut
  <1>18. CASE CloseStart
    BY <1>18, <1>a DEF CloseStart
  <1>19. ASSUME NEW c \in Connection, CloseNext(c) PROVE PodPermitsAccounted'
    <2>1. UNCHANGED << podPermits, In(Holding) >>
      BY <1>19 DEF CloseNext, Inner, Goto, In, Holding, Inside
    <2>2. QED
      BY <2>1, PodSame
  <1>20. CASE CloseEnd
    BY <1>20, <1>a DEF CloseEnd
  <1>21. CASE CheckStart
    BY <1>21, <1>a DEF CheckStart
  <1>22. CASE ProbeBreaks
    BY <1>22, <1>a DEF ProbeBreaks
  <1>23. CASE CheckNext
    BY <1>23, <1>a DEF CheckNext
  <1>24. CASE CheckEnd
    BY <1>24, <1>a DEF CheckEnd
  <1>25. CASE CheckRaises
    BY <1>25, <1>a DEF CheckRaises
  <1>26. CASE UNCHANGED vars
    BY <1>26, <1>a DEF vars
  <1>27. QED
    BY <1>1, <1>2, <1>3, <1>4, <1>5, <1>6, <1>7, <1>8, <1>9, <1>10, <1>11,
       <1>12, <1>13, <1>14, <1>15, <1>16, <1>17, <1>18, <1>19, <1>20, <1>21, <1>22,
       <1>23, <1>24, <1>25, <1>26
       DEF Next, Acquire

\* A caller that leaves gives back what it holds of a pool.
LEMMA PoolLeave ==
  ASSUME Inner, PoolPermitsAccounted, NEW k \in Caller, Leave(k)
  PROVE  PoolPermitsAccounted'
PROOF
  <1> SUFFICES ASSUME NEW p \in Pool
               PROVE  permits'[p] + Cardinality(UsersOf(p)') = PoolLimit
    BY DEF PoolPermitsAccounted
  <1> DEFINE U == UsersOf(p)
  <1>1. U \subseteq Caller /\ (k \in U <=> pc[k] \in Inside /\ poolOf(k) = p)
    BY DEF UsersOf, In
  <1>2. U' = U \ {k}
    BY DEF Inner, Leave, Goto, In, Inside, UsersOf, poolOf
  <1>3. poolOf(k) \in Pool
    BY DEF Inner, poolOf, Pool
  <1>4. permits'[p] = permits[p] + (IF k \in U THEN 1 ELSE 0)
    BY <1>1, <1>3 DEF Leave, Inner
  <1>5. permits[p] + Cardinality(U) = PoolLimit /\ permits[p] \in Nat
    BY DEF PoolPermitsAccounted, Inner
  <1>6. Cardinality(U) \in Nat
    BY <1>1, CallersFinite
  <1>7. permits'[p] + Cardinality(U') = PoolLimit
    <2> HIDE DEF U
    <2>1. CASE k \in U
      <3>1. Cardinality(U \ {k}) = Cardinality(U) - 1
        BY <1>1, <2>1, OneLess
      <3>2. QED
        BY <1>2, <1>4, <1>5, <1>6, <2>1, <3>1
    <2>2. CASE k \notin U
      <3>1. U \ {k} = U
        BY <2>2
      <3>2. QED
        BY <1>2, <1>4, <1>5, <2>2, <3>1
    <2>3. QED
      BY <2>1, <2>2
  <1>8. QED
    BY <1>7

LEMMA PoolSame ==
  ASSUME PoolPermitsAccounted, UNCHANGED permits, \A p \in Pool : UNCHANGED UsersOf(p)
  PROVE  PoolPermitsAccounted'
BY DEF PoolPermitsAccounted

LEMMA PoolStep ==
  ASSUME Inner, PoolPermitsAccounted, [Next]_vars
  PROVE  PoolPermitsAccounted'
PROOF
  <1>a. UNCHANGED << permits, pc, target, held >> => PoolPermitsAccounted'
    BY PoolSame DEF UsersOf, In, poolOf
  <1> USE DEF content, callers, checker, dictionary, elsewhere, unprobed
  <1>1. ASSUME NEW c \in Connection, WarmUp(c) PROVE PoolPermitsAccounted'
    BY <1>1, <1>a DEF WarmUp
  <1>2. CASE Serve
    BY <1>2, <1>a DEF Serve
  <1>3. ASSUME NEW k \in Caller, LookupFails(k) PROVE PoolPermitsAccounted'
    BY <1>3, <1>a DEF LookupFails
  <1>4. ASSUME NEW k \in Caller, NEW c \in Connection, Ask(k, c) PROVE PoolPermitsAccounted'
    <2>1. UNCHANGED permits /\ \A p \in Pool : UNCHANGED UsersOf(p)
      BY <1>4 DEF Ask, Inner, Goto, UsersOf, In, Inside, poolOf
    <2>2. QED
      BY <2>1, PoolSame
  <1>5. ASSUME NEW k \in Caller, TakePod(k) PROVE PoolPermitsAccounted'
    <2>1. UNCHANGED permits /\ \A p \in Pool : UNCHANGED UsersOf(p)
      BY <1>5 DEF TakePod, Inner, Goto, UsersOf, In, Inside, poolOf
    <2>2. QED
      BY <2>1, PoolSame
  <1>6. ASSUME NEW k \in Caller, GetPool(k) PROVE PoolPermitsAccounted'
    <2>1. UNCHANGED permits /\ \A p \in Pool : UNCHANGED UsersOf(p)
      BY <1>6 DEF GetPool, Inner, Goto, UsersOf, In, Inside, poolOf, HasLock
    <2>2. QED
      BY <2>1, PoolSame
  <1>7. ASSUME NEW k \in Caller, GetPoolFails(k) PROVE PoolPermitsAccounted'
    BY <1>7, PoolLeave DEF GetPoolFails
  <1>8. ASSUME NEW k \in Caller, TakePool(k) PROVE PoolPermitsAccounted'
    <2> SUFFICES ASSUME NEW p \in Pool
                 PROVE  permits'[p] + Cardinality(UsersOf(p)') = PoolLimit
      BY DEF PoolPermitsAccounted
    <2> DEFINE U == UsersOf(p)
    <2>1. U \subseteq Caller /\ k \notin U
      BY <1>8 DEF TakePool, UsersOf, In, Inside
    <2>2. permits[p] + Cardinality(U) = PoolLimit /\ permits[p] \in Nat
      BY DEF PoolPermitsAccounted, Inner
    <2>3. Cardinality(U \cup {k}) = Cardinality(U) + 1 /\ Cardinality(U) \in Nat
      <3> HIDE DEF U
      <3>1. QED
        BY <2>1, OneMore, CallersFinite
    <2>4. CASE poolOf(k) = p
      <3>1. U' = U \cup {k}
        BY <1>8, <2>4 DEF TakePool, Inner, Goto, UsersOf, In, Inside, poolOf
      <3>2. permits'[p] = permits[p] - 1
        BY <1>8, <2>4 DEF TakePool, Inner
      <3>3. QED
        BY <2>2, <2>3, <3>1, <3>2
    <2>5. CASE poolOf(k) # p
      <3>1. U' = U
        BY <1>8, <2>5 DEF TakePool, Inner, Goto, UsersOf, In, Inside, poolOf
      <3>2. permits'[p] = permits[p]
        BY <1>8, <2>5 DEF TakePool, Inner
      <3>3. QED
        BY <2>2, <3>1, <3>2
    <2>6. QED
      BY <2>4, <2>5
  <1>9. ASSUME NEW k \in Caller, EnterIdle(k) PROVE PoolPermitsAccounted'
    <2>1. UNCHANGED permits /\ \A p \in Pool : UNCHANGED UsersOf(p)
      BY <1>9 DEF EnterIdle, AtLock, Inner, Goto, UsersOf, In, Inside, poolOf
    <2>2. QED
      BY <2>1, PoolSame
  <1>10. ASSUME NEW k \in Caller, StartConnect(k) PROVE PoolPermitsAccounted'
    <2>1. UNCHANGED permits /\ \A p \in Pool : UNCHANGED UsersOf(p)
      BY <1>10 DEF StartConnect, NoneIdle, AtLock, Inner, Goto, UsersOf, In, Inside, poolOf
    <2>2. QED
      BY <2>1, PoolSame
  <1>11. ASSUME NEW k \in Caller, Connected(k) PROVE PoolPermitsAccounted'
    <2>1. UNCHANGED permits /\ \A p \in Pool : UNCHANGED UsersOf(p)
      BY <1>11 DEF Connected, Inner, Goto, UsersOf, In, Inside, poolOf
    <2>2. QED
      BY <2>1, PoolSame
  <1>12. ASSUME NEW k \in Caller, ConnectFails(k) PROVE PoolPermitsAccounted'
    BY <1>12, PoolLeave DEF ConnectFails
  <1>13. ASSUME NEW k \in Caller, Refused(k) PROVE PoolPermitsAccounted'
    BY <1>13, PoolLeave DEF Refused
  <1>14. ASSUME NEW k \in Caller, Return(k) PROVE PoolPermitsAccounted'
    BY <1>14, PoolLeave DEF Return
  <1>15. ASSUME NEW k \in Caller, TransferFails(k) PROVE PoolPermitsAccounted'
    BY <1>15, PoolLeave DEF TransferFails
  <1>16. ASSUME NEW k \in Caller, StrayReturns(k) PROVE PoolPermitsAccounted'
    BY <1>16, PoolLeave DEF StrayReturns
  <1>17. ASSUME NEW k \in Caller, TimeOut(k) PROVE PoolPermitsAccounted'
    BY <1>17, PoolLeave DEF TimeOut
  <1>18. CASE CloseStart
    BY <1>18, <1>a DEF CloseStart
  <1>19. ASSUME NEW c \in Connection, CloseNext(c) PROVE PoolPermitsAccounted'
    <2>1. UNCHANGED permits /\ \A p \in Pool : UNCHANGED UsersOf(p)
      BY <1>19 DEF CloseNext, Inner, Goto, UsersOf, In, Inside, poolOf
    <2>2. QED
      BY <2>1, PoolSame
  <1>20. CASE CloseEnd
    BY <1>20, <1>a DEF CloseEnd
  <1>21. CASE CheckStart
    BY <1>21, <1>a DEF CheckStart
  <1>22. CASE ProbeBreaks
    BY <1>22, <1>a DEF ProbeBreaks
  <1>23. CASE CheckNext
    BY <1>23, <1>a DEF CheckNext
  <1>24. CASE CheckEnd
    BY <1>24, <1>a DEF CheckEnd
  <1>25. CASE CheckRaises
    BY <1>25, <1>a DEF CheckRaises
  <1>26. CASE UNCHANGED vars
    BY <1>26, <1>a DEF vars
  <1>27. QED
    BY <1>1, <1>2, <1>3, <1>4, <1>5, <1>6, <1>7, <1>8, <1>9, <1>10, <1>11,
       <1>12, <1>13, <1>14, <1>15, <1>16, <1>17, <1>18, <1>19, <1>20, <1>21, <1>22,
       <1>23, <1>24, <1>25, <1>26
       DEF Next, Acquire

-----------------------------------------------------------------------------
(* Sessions in use are listed                                               *)

Using(p) == {k \in In({"using"}) : poolOf(k) = p}

LEMMA UseSame ==
  ASSUME UseIsListed, UNCHANGED << idle, listed >>, \A p \in Pool : UNCHANGED Using(p)
  PROVE  UseIsListed'
BY DEF UseIsListed, Using

\* The users of a pool after a caller has left.
LEMMA UseLeave ==
  ASSUME Inner, NEW k \in Caller, Leave(k)
  PROVE  \A p \in Pool : Using(p)' = Using(p) \ {k}
BY DEF Inner, Leave, Goto, In, Inside, Using, poolOf

\* One session of a pool changes hands, or is lost to an error.
LEMMA UseGives ==
  ASSUME Inner, UseIsListed, NEW k \in Caller, pc[k] = "using", Leave(k),
         UNCHANGED listed,
         \/ UNCHANGED idle
         \/ idle' = [idle EXCEPT ![poolOf(k)] = idle[poolOf(k)] + 1]
  PROVE  UseIsListed'
PROOF
  <1> SUFFICES ASSUME NEW p \in Pool
               PROVE  idle'[p] + Cardinality(Using(p)') <= listed'[p]
    BY DEF UseIsListed, Using
  <1>1. Using(p) \subseteq Caller /\ (k \in Using(p) <=> poolOf(k) = p)
    BY DEF Using, In
  <1>2. Using(p)' = Using(p) \ {k}
    BY UseLeave
  <1>3. idle[p] + Cardinality(Using(p)) <= listed[p] /\ idle[p] \in Nat /\ listed[p] \in Nat
    BY LimitAssumption DEF UseIsListed, Using, Inner
  <1>4. Cardinality(Using(p)) \in Nat
    BY <1>1, CallersFinite
  <1>5. poolOf(k) \in Pool
    BY DEF Inner, poolOf, Pool
  <1>6. CASE poolOf(k) = p
    <2>1. idle'[p] <= idle[p] + 1 /\ idle'[p] \in Nat
      BY <1>6, <1>5, <1>3 DEF Inner
    <2>2. Cardinality(Using(p) \ {k}) = Cardinality(Using(p)) - 1
      BY <1>1, <1>6, OneLess
    <2>3. QED
      BY <1>2, <1>3, <1>4, <2>1, <2>2
  <1>7. CASE poolOf(k) # p
    <2>1. idle'[p] = idle[p]
      BY <1>7, <1>5 DEF Inner
    <2>2. Using(p) \ {k} = Using(p)
      BY <1>1, <1>7
    <2>3. QED
      BY <1>2, <1>3, <2>1, <2>2
  <1>8. QED
    BY <1>6, <1>7

\* A caller is handed a session: one on offer, or a new one.
LEMMA UseTakes ==
  ASSUME Inner, UseIsListed, NEW k \in Caller, pc[k] \in {"entering", "connecting"},
         Goto(k, "using"),
         UNCHANGED << target, held >>,
         \/ /\ idle[poolOf(k)] > 0
            /\ idle' = [idle EXCEPT ![poolOf(k)] = idle[poolOf(k)] - 1]
            /\ UNCHANGED listed
         \/ /\ listed' = [listed EXCEPT ![poolOf(k)] = listed[poolOf(k)] + 1]
            /\ UNCHANGED idle
  PROVE  UseIsListed'
PROOF
  <1> SUFFICES ASSUME NEW p \in Pool
               PROVE  idle'[p] + Cardinality(Using(p)') <= listed'[p]
    BY DEF UseIsListed, Using
  <1>1. Using(p) \subseteq Caller /\ k \notin Using(p)
    BY DEF Using, In
  <1>2. idle[p] + Cardinality(Using(p)) <= listed[p] /\ idle[p] \in Nat /\ listed[p] \in Nat
    BY LimitAssumption DEF UseIsListed, Using, Inner
  <1>3. Cardinality(Using(p)) \in Nat
    BY <1>1, CallersFinite
  <1>4. poolOf(k) \in Pool
    BY DEF Inner, poolOf, Pool
  <1>5. CASE poolOf(k) = p
    <2>1. Using(p)' = Using(p) \cup {k}
      BY <1>5 DEF Inner, Goto, Using, In, Inside, poolOf
    <2>2. \/ idle[p] > 0 /\ idle'[p] = idle[p] - 1 /\ listed'[p] = listed[p]
          \/ idle'[p] = idle[p] /\ listed'[p] = listed[p] + 1
      BY <1>5, <1>4 DEF Inner
    <2>3. Cardinality(Using(p) \cup {k}) = Cardinality(Using(p)) + 1
      BY <1>1, OneMore
    <2>4. QED
      BY <1>2, <1>3, <2>1, <2>2, <2>3
  <1>6. CASE poolOf(k) # p
    <2>1. Using(p)' = Using(p)
      BY <1>6 DEF Inner, Goto, Using, In, Inside, poolOf
    <2>2. idle'[p] = idle[p] /\ listed'[p] = listed[p]
      BY <1>6, <1>4 DEF Inner
    <2>3. QED
      BY <1>2, <2>1, <2>2
  <1>7. QED
    BY <1>5, <1>6

LEMMA UseStep ==
  ASSUME Outer, Inner, Order, UseIsListed, [Next]_vars
  PROVE  UseIsListed'
PROOF
  <1>a. UNCHANGED << idle, listed, pc, target, held >> => UseIsListed'
    BY UseSame DEF Using, In, poolOf
  <1>b. ASSUME NEW k \in Caller, pc[k] # "using", Leave(k), UNCHANGED << idle, listed >>
        PROVE  UseIsListed'
    <2>1. \A p \in Pool : k \notin Using(p)
      BY <1>b DEF Using, In
    <2>2. \A p \in Pool : UNCHANGED Using(p)
      BY <1>b, <2>1, UseLeave
    <2>3. QED
      BY <1>b, <2>2, UseSame
  <1> USE DEF content, callers, checker, dictionary, elsewhere, unprobed
  <1>1. ASSUME NEW c \in Connection, WarmUp(c) PROVE UseIsListed'
    <2> SUFFICES ASSUME NEW p \in Pool
                 PROVE  idle'[p] + Cardinality(Using(p)') <= listed'[p]
      BY DEF UseIsListed, Using
    <2>1. Using(p)' = {} /\ Using(p) = {}
      BY <1>1 DEF WarmUp, Order, Using, In
    <2>2. \/ idle'[p] \in Nat /\ listed'[p] = idle'[p]
          \/ idle'[p] = idle[p] /\ listed'[p] = listed[p]
      <3>1. PICK n \in 0..PoolLimit : /\ listed' = [listed EXCEPT ![<< c, 0 >>] = n]
                                       /\ idle' = [idle EXCEPT ![<< c, 0 >>] = n]
        BY <1>1 DEF WarmUp
      <3> DEFINE q == << c, 0 >>
      <3> HIDE DEF q
      <3>2. listed' = [listed EXCEPT ![q] = n] /\ idle' = [idle EXCEPT ![q] = n]
        BY <3>1 DEF q
      <3>3. QED
        BY <3>2, LimitAssumption DEF Inner
    <2>3. idle[p] + Cardinality(Using(p)) <= listed[p] /\ idle[p] \in Nat
      BY DEF UseIsListed, Using, Inner
    <2>4. QED
      BY <2>1, <2>2, <2>3, FS_EmptySet
  <1>2. CASE Serve
    BY <1>2, <1>a DEF Serve
  <1>3. ASSUME NEW k \in Caller, LookupFails(k) PROVE UseIsListed'
    BY <1>3, <1>a DEF LookupFails
  <1>4. ASSUME NEW k \in Caller, NEW c \in Connection, Ask(k, c) PROVE UseIsListed'
    <2>1. UNCHANGED << idle, listed >> /\ \A p \in Pool : UNCHANGED Using(p)
      BY <1>4 DEF Ask, Inner, Goto, Using, In, poolOf
    <2>2. QED
      BY <2>1, UseSame
  <1>5. ASSUME NEW k \in Caller, TakePod(k) PROVE UseIsListed'
    <2>1. UNCHANGED << idle, listed >> /\ \A p \in Pool : UNCHANGED Using(p)
      BY <1>5 DEF TakePod, Inner, Goto, Using, In, poolOf
    <2>2. QED
      BY <2>1, UseSame
  <1>6. ASSUME NEW k \in Caller, GetPool(k) PROVE UseIsListed'
    <2>1. UNCHANGED << idle, listed >> /\ \A p \in Pool : UNCHANGED Using(p)
      BY <1>6 DEF GetPool, Inner, Goto, Using, In, poolOf, HasLock
    <2>2. QED
      BY <2>1, UseSame
  <1>7. ASSUME NEW k \in Caller, GetPoolFails(k) PROVE UseIsListed'
    BY <1>7, <1>b DEF GetPoolFails, HasLock
  <1>8. ASSUME NEW k \in Caller, TakePool(k) PROVE UseIsListed'
    <2>1. UNCHANGED << idle, listed >> /\ \A p \in Pool : UNCHANGED Using(p)
      BY <1>8 DEF TakePool, Inner, Goto, Using, In, poolOf
    <2>2. QED
      BY <2>1, UseSame
  <1>9. ASSUME NEW k \in Caller, EnterIdle(k) PROVE UseIsListed'
    BY <1>9, UseTakes DEF EnterIdle, AtLock
  <1>10. ASSUME NEW k \in Caller, StartConnect(k) PROVE UseIsListed'
    <2>1. UNCHANGED << idle, listed >> /\ \A p \in Pool : UNCHANGED Using(p)
      BY <1>10 DEF StartConnect, NoneIdle, AtLock, Inner, Goto, Using, In, poolOf
    <2>2. QED
      BY <2>1, UseSame
  <1>11. ASSUME NEW k \in Caller, Connected(k) PROVE UseIsListed'
    BY <1>11, UseTakes DEF Connected
  <1>12. ASSUME NEW k \in Caller, ConnectFails(k) PROVE UseIsListed'
    BY <1>12, <1>b DEF ConnectFails
  <1>13. ASSUME NEW k \in Caller, Refused(k) PROVE UseIsListed'
    BY <1>13, <1>b DEF Refused, NoneIdle, AtLock
  <1>14. ASSUME NEW k \in Caller, Return(k) PROVE UseIsListed'
    BY <1>14, UseGives DEF Return
  <1>15. ASSUME NEW k \in Caller, TransferFails(k) PROVE UseIsListed'
    <2>1. CASE pc[k] = "using"
      BY <1>15, <2>1, UseGives DEF TransferFails
    <2>2. CASE pc[k] # "using"
      BY <1>15, <2>2, <1>b DEF TransferFails
    <2>3. QED
      BY <2>1, <2>2
  <1>16. ASSUME NEW k \in Caller, StrayReturns(k) PROVE UseIsListed'
    BY <1>16, <1>b DEF StrayReturns
  <1>17. ASSUME NEW k \in Caller, TimeOut(k) PROVE UseIsListed'
    <2>1. CASE pc[k] = "using"
      BY <1>17, <2>1, UseGives DEF TimeOut
    <2>2. CASE pc[k] # "using"
      BY <1>17, <2>2, <1>b DEF TimeOut
    <2>3. QED
      BY <2>1, <2>2
  <1>18. CASE CloseStart
    BY <1>18, <1>a DEF CloseStart
  <1>19. ASSUME NEW c \in Connection, CloseNext(c) PROVE UseIsListed'
    <2> SUFFICES ASSUME NEW p \in Pool
                 PROVE  idle'[p] + Cardinality(Using(p)') <= listed'[p]
      BY DEF UseIsListed, Using
    <2> DEFINE q == << c, epoch >>
    <2>1. pc' = [k \in Caller |-> IF pc[k] = "using" /\ poolOf(k) = q THEN "stray" ELSE pc[k]]
      BY <1>19 DEF CloseNext
    <2>2. listed' = [listed EXCEPT ![q] = 0] /\ idle' = [idle EXCEPT ![q] = 0]
      BY <1>19 DEF CloseNext
    <2>3. UNCHANGED << target, held >>
      BY <1>19 DEF CloseNext
    <2> HIDE DEF q
    <2>4. CASE p = q
      <3>1. Using(p)' = {}
        BY <2>1, <2>3, <2>4 DEF Using, In, poolOf
      <3>2. idle'[p] = 0 /\ listed'[p] = 0
        BY <2>2, <2>4 DEF Inner
      <3>3. QED
        BY <3>1, <3>2, FS_EmptySet
    <2>5. CASE p # q
      <3>1. Using(p)' = Using(p)
        BY <2>1, <2>3, <2>5 DEF Using, In, poolOf
      <3>2. idle'[p] = idle[p] /\ listed'[p] = listed[p]
        BY <2>2, <2>5 DEF Inner
      <3>3. QED
        BY <3>1, <3>2 DEF UseIsListed, Using
    <2>6. QED
      BY <2>4, <2>5
  <1>20. CASE CloseEnd
    BY <1>20, <1>a DEF CloseEnd
  <1>21. CASE CheckStart
    BY <1>21, <1>a DEF CheckStart
  <1>22. CASE ProbeBreaks
    <2> SUFFICES ASSUME NEW p \in Pool
                 PROVE  idle'[p] + Cardinality(Using(p)') <= listed'[p]
      BY DEF UseIsListed, Using
    <2>1. Using(p)' = Using(p) /\ listed' = listed
      BY <1>22 DEF ProbeBreaks, Using, In, poolOf
    <2>2. idle'[p] <= idle[p] /\ idle'[p] \in Int
      BY <1>22 DEF ProbeBreaks, Inner
    <2>3. idle[p] + Cardinality(Using(p)) <= listed[p]
      BY DEF UseIsListed, Using
    <2>4. /\ Cardinality(Using(p)) \in Nat /\ idle[p] \in Nat /\ listed[p] \in Nat
      <3>1. Using(p) \subseteq Caller
        BY DEF Using, In
      <3>2. QED
        BY <3>1, CallersFinite, LimitAssumption DEF Inner
    <2>5. QED
      BY <2>1, <2>2, <2>3, <2>4
  <1>23. CASE CheckNext
    BY <1>23, <1>a DEF CheckNext
  <1>24. CASE CheckEnd
    BY <1>24, <1>a DEF CheckEnd
  <1>25. CASE CheckRaises
    BY <1>25, <1>a DEF CheckRaises
  <1>26. CASE UNCHANGED vars
    BY <1>26, <1>a DEF vars
  <1>27. QED
    BY <1>1, <1>2, <1>3, <1>4, <1>5, <1>6, <1>7, <1>8, <1>9, <1>10, <1>11,
       <1>12, <1>13, <1>14, <1>15, <1>16, <1>17, <1>18, <1>19, <1>20, <1>21, <1>22,
       <1>23, <1>24, <1>25, <1>26
       DEF Next, Acquire

-----------------------------------------------------------------------------
(* What a health check has read                                             *)

\* While _pools is not cleared, the pools read are the first of its pools.
CheckReads ==
  /\ \A i \in DOMAIN probed : probed[i][2] = 1 => epoch = 1
  /\ check = "running" /\ (\A i \in DOMAIN probed : probed[i][2] = epoch) =>
       /\ Len(probed) <= Len(pools)
       /\ \A i \in DOMAIN probed : probed[i][1] = pools[i]

LEMMA CheckStep ==
  ASSUME Outer, Inner, Order, CheckReads, [Next]_vars
  PROVE  CheckReads'
PROOF
  <1>a. UNCHANGED << check, probed, epoch, pools >> => CheckReads'
    BY DEF CheckReads
  <1>b. ASSUME NEW c \in Connection, pools' = Append(pools, c),
               UNCHANGED << check, probed, epoch >>
        PROVE  CheckReads'
    <2>1. /\ Len(pools') = Len(pools) + 1
          /\ \A i \in DOMAIN pools : pools'[i] = pools[i]
          /\ Len(pools) \in Nat /\ Len(probed) \in Nat
          /\ DOMAIN pools = 1..Len(pools) /\ DOMAIN probed = 1..Len(probed)
      BY <1>b, KeysAppend DEF Outer
    <2>2. ASSUME check = "running", \A i \in DOMAIN probed : probed[i][2] = epoch
          PROVE  /\ Len(probed) <= Len(pools')
                 /\ \A i \in DOMAIN probed : probed[i][1] = pools'[i]
      <3>1. /\ Len(probed) <= Len(pools)
            /\ \A i \in DOMAIN probed : probed[i][1] = pools[i]
        BY <2>2 DEF CheckReads
      <3>2. \A i \in DOMAIN probed : i \in DOMAIN pools
        BY <2>1, <3>1
      <3>3. QED
        BY <2>1, <3>1, <3>2
    <2>3. QED
      BY <1>b, <2>2 DEF CheckReads
  <1> USE DEF content, callers, checker, dictionary, elsewhere, unprobed
  <1>1. ASSUME NEW c \in Connection, WarmUp(c) PROVE CheckReads'
    BY <1>1, <1>b DEF WarmUp
  <1>2. CASE Serve
    BY <1>2, <1>a DEF Serve
  <1>3. ASSUME NEW k \in Caller, LookupFails(k) PROVE CheckReads'
    BY <1>3, <1>a DEF LookupFails
  <1>4. ASSUME NEW k \in Caller, NEW c \in Connection, Ask(k, c) PROVE CheckReads'
    BY <1>4, <1>a DEF Ask
  <1>5. ASSUME NEW k \in Caller, TakePod(k) PROVE CheckReads'
    BY <1>5, <1>a DEF TakePod
  <1>6. ASSUME NEW k \in Caller, GetPool(k) PROVE CheckReads'
    <2>1. target[k] \in Connection
      BY DEF Inner
    <2>2. QED
      BY <1>6, <2>1, <1>a, <1>b DEF GetPool
  <1>7. ASSUME NEW k \in Caller, GetPoolFails(k) PROVE CheckReads'
    BY <1>7, <1>a DEF GetPoolFails
  <1>8. ASSUME NEW k \in Caller, TakePool(k) PROVE CheckReads'
    BY <1>8, <1>a DEF TakePool
  <1>9. ASSUME NEW k \in Caller, EnterIdle(k) PROVE CheckReads'
    BY <1>9, <1>a DEF EnterIdle
  <1>10. ASSUME NEW k \in Caller, StartConnect(k) PROVE CheckReads'
    BY <1>10, <1>a DEF StartConnect
  <1>11. ASSUME NEW k \in Caller, Connected(k) PROVE CheckReads'
    BY <1>11, <1>a DEF Connected
  <1>12. ASSUME NEW k \in Caller, ConnectFails(k) PROVE CheckReads'
    BY <1>12, <1>a DEF ConnectFails
  <1>13. ASSUME NEW k \in Caller, Refused(k) PROVE CheckReads'
    BY <1>13, <1>a DEF Refused
  <1>14. ASSUME NEW k \in Caller, Return(k) PROVE CheckReads'
    BY <1>14, <1>a DEF Return
  <1>15. ASSUME NEW k \in Caller, TransferFails(k) PROVE CheckReads'
    BY <1>15, <1>a DEF TransferFails
  <1>16. ASSUME NEW k \in Caller, StrayReturns(k) PROVE CheckReads'
    BY <1>16, <1>a DEF StrayReturns
  <1>17. ASSUME NEW k \in Caller, TimeOut(k) PROVE CheckReads'
    BY <1>17, <1>a DEF TimeOut
  <1>18. CASE CloseStart
    BY <1>18, <1>a DEF CloseStart
  <1>19. ASSUME NEW c \in Connection, CloseNext(c) PROVE CheckReads'
    BY <1>19, <1>a DEF CloseNext
  <1>20. CASE CloseEnd
    <2>1. epoch = 0 /\ epoch' = 1 /\ UNCHANGED << check, probed >>
      BY <1>20 DEF CloseEnd, Order, Outer
    <2>2. \A i \in DOMAIN probed : probed[i][2] # 1
      BY <2>1 DEF CheckReads
    <2>3. check = "running" => 1 \in DOMAIN probed
      BY DEF Outer
    <2>4. QED
      BY <2>1, <2>2, <2>3 DEF CheckReads
  <1>21. CASE CheckStart
    <2>1. /\ probed' = << << pools[1], epoch >> >>
          /\ UNCHANGED << pools, epoch >> /\ pools # << >>
      BY <1>21 DEF CheckStart
    <2>2. DOMAIN probed' = {1} /\ Len(probed') = 1
      BY <2>1
    <2>3. probed'[1][1] = pools[1] /\ probed'[1][2] = epoch
      BY <2>1
    <2>4. Len(pools) >= 1
      BY <2>1 DEF Outer
    <2>5. QED
      BY <2>1, <2>2, <2>3, <2>4 DEF CheckReads
  <1>22. CASE ProbeBreaks
    BY <1>22, <1>a DEF ProbeBreaks
  <1>23. CASE CheckNext
    <2>1. /\ probed' = Append(probed, << pools[Len(probed) + 1], epoch >>)
          /\ UNCHANGED << pools, epoch, check >> /\ Len(probed) < Len(pools)
          /\ check = "running"
      BY <1>23 DEF CheckNext
    <2> DEFINE q == << pools[Len(probed) + 1], epoch >>
    <2>2. q \in Pool /\ q[1] = pools[Len(probed) + 1] /\ q[2] = epoch
      BY <2>1 DEF Outer, Pool
    <2> HIDE DEF q
    <2>3. /\ Len(probed) \in Nat /\ Len(pools) \in Nat
          /\ Len(probed') = Len(probed) + 1
          /\ DOMAIN probed = 1..Len(probed)
          /\ DOMAIN probed' = 1..(Len(probed) + 1)
          /\ \A i \in 1..Len(probed) : probed'[i] = probed[i]
          /\ probed'[Len(probed) + 1] = q
      BY <2>1, <2>2 DEF Outer, q
    <2>4. \A i \in DOMAIN probed' : i \in DOMAIN probed \/ i = Len(probed) + 1
      BY <2>3
    <2>5. \A i \in DOMAIN probed' : probed'[i][2] = 1 => epoch = 1
      BY <2>2, <2>3, <2>4 DEF CheckReads
    <2>6. (\A i \in DOMAIN probed' : probed'[i][2] = epoch) =>
             \A i \in DOMAIN probed' : probed'[i][1] = pools[i]
      BY <2>1, <2>2, <2>3, <2>4 DEF CheckReads
    <2>7. QED
      BY <2>1, <2>3, <2>5, <2>6 DEF CheckReads
  <1>24. CASE CheckEnd
    BY <1>24 DEF CheckEnd, CheckReads
  <1>25. CASE CheckRaises
    BY <1>25 DEF CheckRaises, CheckReads
  <1>26. CASE UNCHANGED vars
    BY <1>26, <1>a DEF vars
  <1>27. QED
    BY <1>1, <1>2, <1>3, <1>4, <1>5, <1>6, <1>7, <1>8, <1>9, <1>10, <1>11,
       <1>12, <1>13, <1>14, <1>15, <1>16, <1>17, <1>18, <1>19, <1>20, <1>21, <1>22,
       <1>23, <1>24, <1>25, <1>26
       DEF Next, Acquire

-----------------------------------------------------------------------------
(* The theorems                                                             *)

IInv ==
  /\ Outer /\ Inner
  /\ Order
  /\ OneConnects
  /\ PoolsReachable
  /\ LeaksLater
  /\ PodPermitsAccounted
  /\ PoolPermitsAccounted
  /\ UseIsListed
  /\ CheckReads

\* The invariant holds in every reachable state.
THEOREM InvCorrect == Spec => []IInv
<1>1. Init => IInv
  <2> SUFFICES ASSUME Init PROVE IInv
    OBVIOUS
  <2>a. NoTarget \in Connection
    BY ConnectionAssumption DEF NoTarget
  <2>1. In(Holding) = {} /\ \A p \in Pool : UsersOf(p) = {} /\ Using(p) = {}
    BY DEF Init, In, Holding, Inside, UsersOf, Using
  <2>2. \A p \in Pool : permits[p] = PoolLimit /\ idle[p] = 0 /\ listed[p] = 0
    BY DEF Init
  <2>3. PodPermitsAccounted /\ PoolPermitsAccounted /\ UseIsListed
    <3>1. PodPermitsAccounted
      BY <2>1, FS_EmptySet, LimitAssumption DEF Init, PodPermitsAccounted
    <3>2. PoolPermitsAccounted
      BY <2>1, <2>2, FS_EmptySet, LimitAssumption DEF PoolPermitsAccounted
    <3>3. \A p \in Pool : idle[p] + Cardinality(Using(p)) <= listed[p]
      BY <2>1, <2>2, FS_EmptySet
    <3>4. UseIsListed
      BY <3>3 DEF UseIsListed, Using
    <3>5. QED
      BY <3>1, <3>2, <3>4
  <2>4. Keys = {} /\ Leaks = {}
    BY DEF Init, Keys, Leaks, Pool
  <2>5. Outer
    <3>1. overlap \in BOOLEAN
      BY DEF Init
    <3>2. QED
      BY <3>1 DEF Init, Outer
  <2>6. Inner
    BY <2>a, LimitAssumption DEF Init, Inner
  <2>7. Order /\ OneConnects /\ PoolsReachable /\ LeaksLater /\ CheckReads
    BY <2>4 DEF Init, Order, OneConnects, PoolsReachable, LeaksLater, CheckReads, In, Inside
  <2>8. QED
    BY <2>3, <2>5, <2>6, <2>7 DEF IInv
<1>2. IInv /\ [Next]_vars => IInv'
  BY OuterStep, InnerStep, OrderStep, ConnectStep, ReachStep, LeakStep, PodStep, PoolStep, UseStep,
     CheckStep DEF IInv
<1>3. QED
  BY <1>1, <1>2, PTL DEF Spec

\* The types: no semaphore exceeds its limit and no pool offers more sessions
\* than it may have.
THEOREM TypeCorrect == Spec => []TypeOK
<1>1. IInv => TypeOK
  <2> SUFFICES ASSUME IInv PROVE TypeOK
    OBVIOUS
  <2>1. podPermits \in 0..PodLimit
    <3>1. In(Holding) \subseteq Caller
      BY DEF In
    <3>2. QED
      BY <3>1, CallersFinite, LimitAssumption DEF IInv, Inner, PodPermitsAccounted
  <2>2. \A p \in Pool : permits[p] \in 0..PoolLimit
    <3>1. \A p \in Pool : UsersOf(p) \subseteq Caller
      BY DEF UsersOf, In
    <3>2. QED
      BY <3>1, CallersFinite, LimitAssumption DEF IInv, Inner, PoolPermitsAccounted
  <2>3. \A p \in Pool : idle[p] \in 0..PoolLimit
    <3>1. \A p \in Pool : Using(p) \subseteq Caller
      BY DEF Using, In
    <3>2. \A p \in Pool : idle[p] + Cardinality(Using(p)) <= listed[p]
      BY DEF IInv, UseIsListed, Using
    <3>3. QED
      BY <3>1, <3>2, CallersFinite, LimitAssumption DEF IInv, Inner
  <2>4. QED
    BY <2>1, <2>2, <2>3 DEF IInv, Outer, Inner, TypeOK
<1>2. QED
  BY <1>1, InvCorrect, PTL

\* Every permit of the pod and of every pool object, also of those close_all has
\* dropped, is with a caller or back, whatever made it leave.
THEOREM PermitsCorrect == Spec => []PermitsAccounted
<1>1. IInv => PermitsAccounted
  BY DEF IInv, PermitsAccounted
<1>2. QED
  BY <1>1, InvCorrect, PTL

\* One pool for each key, and no caller in a pool that close_all would miss.
THEOREM ReachCorrect == Spec => []PoolsReachable
<1>1. IInv => PoolsReachable
  BY DEF IInv
<1>2. QED
  BY <1>1, InvCorrect, PTL

\* Sessions on offer and in use fit in those listed.
THEOREM UseCorrect == Spec => []UseIsListed
<1>1. IInv => UseIsListed
  BY DEF IInv
<1>2. QED
  BY <1>1, InvCorrect, PTL

\* A caller that holds a permit of a pool can go on, or waits for one that
\* connects.
LEMMA InsideCanGo ==
  ASSUME NEW k \in Caller, pc[k] \in Inside
  PROVE  \E j \in Caller : CanGo(j)
PROOF
  <1>1. CASE pc[k] = "entering" /\ ~Unlocked(poolOf(k))
    <2>1. PICK j \in Caller : pc[j] = "connecting"
      BY <1>1 DEF Unlocked
    <2>2. QED
      BY <2>1 DEF CanGo
  <1>2. CASE pc[k] # "entering" \/ Unlocked(poolOf(k))
    BY <1>2 DEF CanGo, AtLock, Inside
  <1>3. QED
    BY <1>1, <1>2

\* A caller that waits for a pool can go on, or somebody has a permit of it.
LEMMA PoolCanGo ==
  ASSUME IInv, NEW k \in Caller, pc[k] = "wait_pool"
  PROVE  \E j \in Caller : CanGo(j)
PROOF
  <1> DEFINE p == poolOf(k)
  <1>1. p \in Pool
    BY DEF IInv, Inner, poolOf, Pool
  <1>2. CASE permits[p] > 0
    BY <1>2 DEF CanGo
  <1>3. CASE ~(permits[p] > 0)
    <2>1. permits[p] = 0
      BY <1>1, <1>3 DEF IInv, Inner
    <2>2. Cardinality(UsersOf(p)) = PoolLimit
      <3>1. Cardinality(UsersOf(p)) \in Nat
        BY CallersFinite DEF UsersOf, In
      <3>2. QED
        BY <1>1, <2>1, <3>1 DEF IInv, PoolPermitsAccounted
    <2>3. UsersOf(p) # {}
      BY <2>2, FS_EmptySet, LimitAssumption
    <2>4. PICK j \in Caller : pc[j] \in Inside
      BY <2>3 DEF UsersOf, In
    <2>5. QED
      BY <2>4, InsideCanGo
  <1>4. QED
    BY <1>2, <1>3

\* Nobody waits for a permit or a lock that will not come, whatever the limits.
THEOREM NobodyStuckCorrect == Spec => []NobodyStuck
<1>1. IInv => NobodyStuck
  <2> SUFFICES ASSUME IInv, In(Waiting \cup Inside) # {} \/ closer = "closing",
                      \A k \in Caller : ~CanGo(k)
               PROVE  CloseCanGo
    BY DEF NobodyStuck
  <2>1. \A k \in Caller : pc[k] \notin Inside
    BY InsideCanGo
  <2>2. \A k \in Caller : pc[k] # "wait_pool"
    BY PoolCanGo
  <2>3. CASE closer = "closing"
    BY <2>1, <2>3 DEF CloseCanGo, Unlocked, Inside
  <2>4. CASE closer # "closing"
    <3>1. In(Holding) = {}
      BY <2>1, <2>2, <2>4 DEF In, Holding, CanGo, HasLock
    <3>2. podPermits > 0
      BY <3>1, FS_EmptySet, LimitAssumption DEF IInv, PodPermitsAccounted, Inner
    <3>3. PICK k \in Caller : pc[k] = "wait_pod"
      BY <2>1, <2>2, <2>4, <3>1 DEF In, Holding, Waiting
    <3>4. QED
      BY <3>2, <3>3 DEF CanGo
  <2>5. QED
    BY <2>3, <2>4
<1>2. QED
  BY <1>1, InvCorrect, PTL

\* close_all leaves nothing open but what a caller opened that had the pool
\* before it began.
THEOREM LeakCorrect == Spec => []LeakNeedsOverlap
<1>1. IInv => LeakNeedsOverlap
  <2> SUFFICES ASSUME IInv, epoch = 1, ~overlap, NEW c \in Connection
               PROVE  listed[<< c, 0 >>] = 0
    BY DEF LeakNeedsOverlap
  <2>1. closer = "done" /\ closing = {}
    BY DEF IInv, Order, LeaksLater
  <2>2. c \notin Leaks
    BY <2>1 DEF IInv, LeaksLater
  <2>3. listed[<< c, 0 >>] \in Nat
    BY LimitAssumption DEF IInv, Inner, Pool
  <2>4. QED
    BY <2>2, <2>3 DEF Leaks
<1>2. QED
  BY <1>1, InvCorrect, PTL

\* A health check that returns has read every pool of a dictionary that was not
\* cleared since it began.
THEOREM CheckCorrect == Spec => CheckIsComplete
<1> DEFINE Complete ==
      /\ check = "running" /\ check' = "complete"
      /\ \A i \in DOMAIN probed : probed[i][2] = epoch
      => Keys \subseteq {probed[i][1] : i \in DOMAIN probed}
<1>1. IInv /\ [Next]_vars => [Complete]_vars
  <2> SUFFICES ASSUME IInv, [Next]_vars, check = "running", check' = "complete",
                      \A i \in DOMAIN probed : probed[i][2] = epoch
               PROVE  Keys \subseteq {probed[i][1] : i \in DOMAIN probed}
    OBVIOUS
  <2>1. CASE CheckEnd
    <3>1. Len(pools) = Len(probed)
      BY <2>1 DEF CheckEnd
    <3>2. \A i \in DOMAIN probed : probed[i][1] = pools[i]
      BY DEF IInv, CheckReads
    <3>3. DOMAIN pools = DOMAIN probed
      BY <3>1 DEF IInv, Outer
    <3>4. QED
      BY <3>2, <3>3 DEF Keys
  <2>2. CASE ~ CheckEnd
    <3>1. check' # "complete" \/ check' = check
      BY <2>2 DEF Next, Acquire, vars, content, callers, checker, dictionary, elsewhere,
         unprobed, WarmUp, Serve, LookupFails, Ask, TakePod, GetPool, GetPoolFails,
         TakePool, EnterIdle, StartConnect, Connected, ConnectFails, Refused, Return, TransferFails,
         StrayReturns, TimeOut, CloseStart, CloseNext, CloseEnd, CheckStart,
         ProbeBreaks, CheckNext, CheckRaises
    <3>2. QED
      BY <3>1
  <2>3. QED
    BY <2>1, <2>2
<1>2. QED
  BY <1>1, InvCorrect, PTL DEF CheckIsComplete, Spec

-----------------------------------------------------------------------------
(* Each pool object is a CountedPool                                        *)

\* One caller moves, as one pool sees it.
LEMMA ShareMoves ==
  ASSUME NEW p \in Pool, NEW k \in Caller,
         \A j \in Caller \ {k} : pc'[j] = pc[j] /\ target'[j] = target[j] /\ held'[j] = held[j]
  PROVE  shareOf(p)' = [shareOf(p) EXCEPT ![k] = shareOf(p)'[k]]
PROOF
  <1>1. \A j \in Caller \ {k} : shareOf(p)'[j] = shareOf(p)[j]
    BY DEF shareOf, poolOf
  <1>2. shareOf(p)' = [j \in Caller |-> shareOf(p)'[j]]
    BY DEF shareOf
  <1>3. shareOf(p) = [j \in Caller |-> shareOf(p)[j]]
    BY DEF shareOf
  <1>4. QED
    BY <1>1, <1>2, <1>3

\* A caller goes on inside a pool, or with its permit into it.
LEMMA ShareGoes ==
  ASSUME Inner, NEW p \in Pool, NEW k \in Caller, NEW to \in Inside,
         pc[k] \in {"wait_pool"} \cup Inside, Goto(k, to), UNCHANGED << target, held >>
  PROVE  /\ poolOf(k) = p => Share(p)!Goto(k, to)
         /\ poolOf(k) # p => shareOf(p)' = shareOf(p)
PROOF
  <1>1. pc'[k] = to /\ to # "wait_pool"
    BY DEF Goto, Inner, Inside
  <1>2. shareOf(p)' = [shareOf(p) EXCEPT ![k] = shareOf(p)'[k]]
    BY ShareMoves DEF Goto, Inner
  <1>3. poolOf(k)' = poolOf(k)
    BY DEF poolOf
  <1>4. CASE poolOf(k) = p
    <2>1. shareOf(p)'[k] = to
      BY <1>1, <1>3, <1>4 DEF shareOf
    <2>2. QED
      BY <1>2, <1>4, <2>1 DEF Share!Goto
  <1>5. CASE poolOf(k) # p
    <2>1. shareOf(p)'[k] = shareOf(p)[k]
      BY <1>3, <1>5 DEF shareOf
    <2>2. shareOf(p)' = shareOf(p)
      BY <1>2, <2>1 DEF shareOf
    <2>3. QED
      BY <1>5, <2>2
  <1>6. QED
    BY <1>4, <1>5

\* A caller leaves acquire().
LEMMA ShareLeaves ==
  ASSUME Inner, NEW p \in Pool, NEW k \in Caller, Leave(k)
  PROVE  /\ poolOf(k) = p /\ pc[k] \in Inside => Share(p)!Leave(k)
         /\ poolOf(k) = p /\ pc[k] = "wait_pool" =>
              Share(p)!Goto(k, "out") /\ permits'[p] = permits[p]
         /\ ~(poolOf(k) = p /\ pc[k] \in {"wait_pool"} \cup Inside) =>
              shareOf(p)' = shareOf(p) /\ permits'[p] = permits[p]
PROOF
  <1>1. shareOf(p)' = [shareOf(p) EXCEPT ![k] = shareOf(p)'[k]]
    BY ShareMoves DEF Leave, Goto, Inner
  <1>2. shareOf(p)'[k] = "out"
    BY DEF Leave, Goto, Inner, Inside, shareOf
  <1>3. poolOf(k) \in Pool
    BY DEF Inner, poolOf, Pool
  <1>4. CASE poolOf(k) = p /\ pc[k] \in Inside
    <2>1. permits'[p] = permits[p] + 1
      BY <1>3, <1>4 DEF Leave, Inner
    <2>2. QED
      BY <1>1, <1>2, <1>4, <2>1 DEF Share!Leave, Share!Goto, Inside
  <1>5. CASE poolOf(k) = p /\ pc[k] = "wait_pool"
    <2>1. permits'[p] = permits[p]
      BY <1>5 DEF Leave, Inside
    <2>2. QED
      BY <1>1, <1>2, <1>5, <2>1 DEF Share!Goto, Inside
  <1>6. CASE ~(poolOf(k) = p /\ pc[k] \in {"wait_pool"} \cup Inside)
    <2>1. shareOf(p)[k] = "out"
      BY <1>6 DEF shareOf
    <2>2. shareOf(p)' = shareOf(p)
      BY <1>1, <1>2, <2>1 DEF shareOf
    <2>3. permits'[p] = permits[p]
      BY <1>3, <1>6 DEF Leave, Inner
    <2>4. QED
      BY <1>6, <2>2, <2>3
  <1>7. QED
    BY <1>4, <1>5, <1>6

LEMMA ShareUnlocked ==
  ASSUME NEW p \in Pool, Unlocked(p)
  PROVE  Share(p)!Unlocked
BY DEF Unlocked, Share!Unlocked, shareOf

\* Every step is one step of one pool object, and none of the others.
LEMMA ShareStep ==
  ASSUME IInv, NEW p \in Pool, [Next]_vars
  PROVE  Share(p)!Step
PROOF
  <1>a. UNCHANGED << permits, listed, idle, pc, target, held >> => Share(p)!Step
    BY DEF Share!Step, Share!vars, shareOf, poolOf
  <1>b. UNCHANGED << listed, idle, shareOf(p) >> /\ permits'[p] = permits[p] => Share(p)!Step
    BY DEF Share!Step, Share!vars
  <1>c. ASSUME NEW k \in Caller, pc[k] \in Inside, Leave(k), UNCHANGED << listed, idle >>
        PROVE  Share(p)!Step
    <2>1. CASE poolOf(k) = p
      <3>1. Share(p)!Leave(k)
        BY <1>c, <2>1, ShareLeaves DEF IInv
      <3>2. shareOf(p)[k] = pc[k]
        BY <1>c, <2>1 DEF shareOf, Inside
      <3>3. Share(p)!Fail(k)
        BY <1>c, <3>1, <3>2 DEF Share!Fail, Share!Places, Inside
      <3>4. QED
        BY <3>3 DEF Share!Step, Share!Next
    <2>2. CASE poolOf(k) # p
      BY <1>b, <1>c, <2>2, ShareLeaves DEF IInv
    <2>3. QED
      BY <2>1, <2>2
  <1>d. ASSUME NEW k \in Caller, pc[k] = "using", Leave(k), UNCHANGED listed,
               idle' = [idle EXCEPT ![poolOf(k)] = idle[poolOf(k)] + 1]
        PROVE  Share(p)!Step
    <2>1. pc[k] \in Inside
      BY <1>d DEF Inside
    <2>2. CASE poolOf(k) = p
      <3>1. Share(p)!Leave(k)
        BY <1>d, <2>1, <2>2, ShareLeaves DEF IInv
      <3>2. shareOf(p)[k] = "using"
        BY <1>d, <2>1, <2>2 DEF shareOf
      <3>3. idle'[p] = idle[p] + 1
        BY <1>d, <2>2 DEF IInv, Inner
      <3>4. Share(p)!Return(k)
        BY <1>d, <3>1, <3>2, <3>3 DEF Share!Return
      <3>5. QED
        BY <3>4 DEF Share!Step, Share!Next
    <2>3. CASE poolOf(k) # p
      <3>1. shareOf(p)' = shareOf(p) /\ permits'[p] = permits[p]
        BY <1>d, <2>3, ShareLeaves DEF IInv
      <3>2. idle'[p] = idle[p]
        BY <1>d, <2>3 DEF IInv, Inner
      <3>3. QED
        BY <1>d, <3>1, <3>2 DEF Share!Step, Share!vars
    <2>4. QED
      BY <2>2, <2>3
  <1> USE DEF content, callers, checker, dictionary, elsewhere, unprobed
  <1>1. ASSUME NEW c \in Connection, WarmUp(c) PROVE Share(p)!Step
    <2>1. \A k \in Caller : shareOf(p)[k] = "out"
      BY <1>1 DEF WarmUp, IInv, Order, shareOf
    <2>2. PICK n \in 0..PoolLimit : /\ listed' = [listed EXCEPT ![<< c, 0 >>] = n]
                                     /\ idle' = [idle EXCEPT ![<< c, 0 >>] = n]
      BY <1>1 DEF WarmUp
    <2>3. UNCHANGED permits /\ shareOf(p)' = shareOf(p)
      BY <1>1 DEF WarmUp, shareOf, poolOf
    <2>4. CASE p = << c, 0 >>
      <3>1. listed[p] = 0 /\ idle[p] = 0
        <4>1. c \notin Leaks /\ epoch = 0
          BY <1>1 DEF WarmUp, IInv, LeaksLater, Order, Outer
        <4>2. listed[p] = 0
          BY <4>1, <2>4, LimitAssumption DEF IInv, Inner, Leaks
        <4>3. idle[p] + Cardinality(Using(p)) <= listed[p]
          BY DEF IInv, UseIsListed, Using
        <4>4. Cardinality(Using(p)) \in Nat
          BY CallersFinite DEF Using, In
        <4>5. QED
          BY <4>2, <4>3, <4>4 DEF IInv, Inner
      <3>2. listed'[p] = listed[p] + n /\ idle'[p] = idle[p] + n
        <4> DEFINE q == << c, 0 >>
        <4> HIDE DEF q
        <4>1. p = q /\ listed' = [listed EXCEPT ![q] = n] /\ idle' = [idle EXCEPT ![q] = n]
          BY <2>2, <2>4 DEF q
        <4>2. QED
          BY <4>1, <3>1 DEF IInv, Inner
      <3>3. listed[p] + n <= PoolLimit
        BY <3>1, LimitAssumption
      <3>4. Share(p)!Open(n)
        BY <2>1, <2>3, <3>2, <3>3 DEF Share!Open
      <3>5. QED
        BY <3>4 DEF Share!Step, Share!Next
    <2>5. CASE p # << c, 0 >>
      <3>1. listed'[p] = listed[p] /\ idle'[p] = idle[p]
        BY <2>2, <2>5 DEF IInv, Inner
      <3>2. QED
        BY <2>3, <3>1 DEF Share!Step, Share!vars
    <2>6. QED
      BY <2>4, <2>5
  <1>2. CASE Serve
    BY <1>2, <1>a DEF Serve
  <1>3. ASSUME NEW k \in Caller, LookupFails(k) PROVE Share(p)!Step
    BY <1>3, <1>a DEF LookupFails
  <1>4. ASSUME NEW k \in Caller, NEW c \in Connection, Ask(k, c) PROVE Share(p)!Step
    <2>1. shareOf(p)'[k] = "out" /\ shareOf(p)[k] = "out"
      BY <1>4 DEF Ask, Goto, IInv, Inner, shareOf, Inside
    <2>2. shareOf(p)' = [shareOf(p) EXCEPT ![k] = shareOf(p)'[k]]
      BY <1>4, ShareMoves DEF Ask, Goto, IInv, Inner
    <2>3. shareOf(p)' = shareOf(p)
      BY <2>1, <2>2 DEF shareOf
    <2>4. QED
      BY <1>4, <2>3 DEF Ask, Share!Step, Share!vars
  <1>5. ASSUME NEW k \in Caller, TakePod(k) PROVE Share(p)!Step
    <2>1. shareOf(p)'[k] = "out" /\ shareOf(p)[k] = "out"
      BY <1>5 DEF TakePod, Goto, IInv, Inner, shareOf, Inside
    <2>2. shareOf(p)' = [shareOf(p) EXCEPT ![k] = shareOf(p)'[k]]
      BY <1>5, ShareMoves DEF TakePod, Goto, IInv, Inner
    <2>3. shareOf(p)' = shareOf(p)
      BY <2>1, <2>2 DEF shareOf
    <2>4. QED
      BY <1>5, <2>3 DEF TakePod, Share!Step, Share!vars
  <1>6. ASSUME NEW k \in Caller, GetPool(k) PROVE Share(p)!Step
    <2>1. shareOf(p)[k] = "out" /\ shareOf(p)'[k] \in {"out", "waiting"}
      BY <1>6 DEF GetPool, HasLock, Goto, IInv, Inner, shareOf, Inside
    <2>2. shareOf(p)' = [shareOf(p) EXCEPT ![k] = shareOf(p)'[k]]
      BY <1>6, ShareMoves DEF GetPool, Goto, IInv, Inner
    <2>3. UNCHANGED << permits[p], listed[p], idle[p] >>
      BY <1>6 DEF GetPool
    <2>4. CASE shareOf(p)'[k] = "out"
      <3>1. shareOf(p)' = shareOf(p)
        BY <2>1, <2>2, <2>4 DEF shareOf
      <3>2. QED
        BY <2>3, <3>1 DEF Share!Step, Share!vars
    <2>5. CASE shareOf(p)'[k] = "waiting"
      <3>1. Share(p)!Ask(k)
        BY <2>1, <2>2, <2>3, <2>5 DEF Share!Ask, Share!Goto
      <3>2. QED
        BY <3>1 DEF Share!Step, Share!Next
    <2>6. QED
      BY <2>1, <2>4, <2>5
  <1>7. ASSUME NEW k \in Caller, GetPoolFails(k) PROVE Share(p)!Step
    BY <1>7, <1>b, ShareLeaves DEF GetPoolFails, HasLock, Inside, IInv
  <1>8. ASSUME NEW k \in Caller, TakePool(k) PROVE Share(p)!Step
    <2>1. /\ pc[k] = "wait_pool" /\ Goto(k, "entering") /\ UNCHANGED << target, held >>
          /\ permits[poolOf(k)] > 0
          /\ UNCHANGED << listed, idle >>
          /\ permits' = [permits EXCEPT ![poolOf(k)] = permits[poolOf(k)] - 1]
      BY <1>8 DEF TakePool
    <2>2. CASE poolOf(k) = p
      <3>1. Share(p)!Goto(k, "entering") /\ shareOf(p)[k] = "waiting"
        BY <2>1, <2>2, ShareGoes DEF Inside, IInv, shareOf
      <3>2. permits'[p] = permits[p] - 1
        BY <2>1, <2>2 DEF IInv, Inner
      <3>3. Share(p)!TakePermit(k)
        BY <2>1, <2>2, <3>1, <3>2 DEF Share!TakePermit
      <3>4. QED
        BY <3>3 DEF Share!Step, Share!Next
    <2>3. CASE poolOf(k) # p
      <3>1. shareOf(p)' = shareOf(p) /\ permits'[p] = permits[p]
        BY <2>1, <2>3, ShareGoes DEF Inside, IInv, Inner
      <3>2. QED
        BY <2>1, <3>1 DEF Share!Step, Share!vars
    <2>4. QED
      BY <2>2, <2>3
  <1>9. ASSUME NEW k \in Caller, EnterIdle(k) PROVE Share(p)!Step
    <2>1. /\ pc[k] = "entering" /\ Goto(k, "using") /\ UNCHANGED << target, held >>
          /\ Unlocked(poolOf(k)) /\ idle[poolOf(k)] > 0
          /\ UNCHANGED << permits, listed >>
          /\ idle' = [idle EXCEPT ![poolOf(k)] = idle[poolOf(k)] - 1]
      BY <1>9 DEF EnterIdle, AtLock
    <2>2. CASE poolOf(k) = p
      <3>1. Share(p)!Goto(k, "using") /\ shareOf(p)[k] = "entering"
        BY <2>1, <2>2, ShareGoes DEF Inside, IInv, shareOf
      <3>2. idle'[p] = idle[p] - 1
        BY <2>1, <2>2 DEF IInv, Inner
      <3>3. Share(p)!TakeIdle(k)
        BY <2>1, <2>2, <3>1, <3>2, ShareUnlocked DEF Share!TakeIdle
      <3>4. QED
        BY <3>3 DEF Share!Step, Share!Next
    <2>3. CASE poolOf(k) # p
      <3>1. shareOf(p)' = shareOf(p) /\ idle'[p] = idle[p]
        BY <2>1, <2>3, ShareGoes DEF Inside, IInv, Inner
      <3>2. QED
        BY <2>1, <3>1 DEF Share!Step, Share!vars
    <2>4. QED
      BY <2>2, <2>3
  <1>10. ASSUME NEW k \in Caller, StartConnect(k) PROVE Share(p)!Step
    <2>1. /\ pc[k] = "entering" /\ Goto(k, "connecting") /\ UNCHANGED << target, held >>
          /\ Unlocked(poolOf(k)) /\ idle[poolOf(k)] = 0 /\ listed[poolOf(k)] < PoolLimit
          /\ UNCHANGED << permits, listed, idle >>
      BY <1>10 DEF StartConnect, NoneIdle, AtLock
    <2>2. CASE poolOf(k) = p
      <3>1. Share(p)!Goto(k, "connecting") /\ shareOf(p)[k] = "entering"
        BY <2>1, <2>2, ShareGoes DEF Inside, IInv, shareOf
      <3>3. Share(p)!StartConnect(k)
        BY <2>1, <2>2, <3>1, ShareUnlocked DEF Share!StartConnect
      <3>4. QED
        BY <3>3 DEF Share!Step, Share!Next
    <2>3. CASE poolOf(k) # p
      <3>1. shareOf(p)' = shareOf(p)
        BY <2>1, <2>3, ShareGoes DEF Inside, IInv, Inner
      <3>2. QED
        BY <2>1, <3>1 DEF Share!Step, Share!vars
    <2>4. QED
      BY <2>2, <2>3
  <1>11. ASSUME NEW k \in Caller, Connected(k) PROVE Share(p)!Step
    <2>1. /\ pc[k] = "connecting" /\ Goto(k, "using") /\ UNCHANGED << target, held >>
          /\ UNCHANGED << permits, idle >>
          /\ listed' = [listed EXCEPT ![poolOf(k)] = listed[poolOf(k)] + 1]
      BY <1>11 DEF Connected
    <2>2. CASE poolOf(k) = p
      <3>1. Share(p)!Goto(k, "using") /\ shareOf(p)[k] = "connecting"
        BY <2>1, <2>2, ShareGoes DEF Inside, IInv, shareOf
      <3>2. listed'[p] = listed[p] + 1
        BY <2>1, <2>2 DEF IInv, Inner
      <3>3. Share(p)!Connected(k)
        BY <2>1, <2>2, <3>1, <3>2 DEF Share!Connected
      <3>4. QED
        BY <3>3 DEF Share!Step, Share!Next
    <2>3. CASE poolOf(k) # p
      <3>1. shareOf(p)' = shareOf(p) /\ listed'[p] = listed[p]
        BY <2>1, <2>3, ShareGoes DEF Inside, IInv, Inner
      <3>2. QED
        BY <2>1, <3>1 DEF Share!Step, Share!vars
    <2>4. QED
      BY <2>2, <2>3
  <1>12. ASSUME NEW k \in Caller, ConnectFails(k) PROVE Share(p)!Step
    <2>1. pc[k] \in Inside /\ Leave(k) /\ UNCHANGED << listed, idle >>
      BY <1>12 DEF ConnectFails, Inside
    <2>2. QED
      BY <2>1, <1>c
  <1>13. ASSUME NEW k \in Caller, Refused(k) PROVE Share(p)!Step
    <2>1. pc[k] \in Inside /\ Leave(k) /\ UNCHANGED << listed, idle >>
      BY <1>13 DEF Refused, NoneIdle, AtLock, Inside
    <2>2. QED
      BY <2>1, <1>c
  <1>14. ASSUME NEW k \in Caller, Return(k) PROVE Share(p)!Step
    <2>1. /\ pc[k] = "using" /\ Leave(k) /\ UNCHANGED listed
          /\ idle' = [idle EXCEPT ![poolOf(k)] = idle[poolOf(k)] + 1]
      BY <1>14 DEF Return
    <2>2. QED
      BY <2>1, <1>d
  <1>15. ASSUME NEW k \in Caller, TransferFails(k) PROVE Share(p)!Step
    <2>1. pc[k] \in Inside /\ Leave(k) /\ UNCHANGED << listed, idle >>
      BY <1>15 DEF TransferFails, Inside
    <2>2. QED
      BY <2>1, <1>c
  <1>16. ASSUME NEW k \in Caller, StrayReturns(k) PROVE Share(p)!Step
    <2>1. pc[k] \in Inside /\ Leave(k) /\ UNCHANGED << listed, idle >>
      BY <1>16 DEF StrayReturns, Inside
    <2>2. QED
      BY <2>1, <1>c
  <1>17. ASSUME NEW k \in Caller, TimeOut(k) PROVE Share(p)!Step
    <2>1. Leave(k) /\ UNCHANGED listed
      BY <1>17 DEF TimeOut
    <2>2. CASE pc[k] = "using"
      <3>1. idle' = [idle EXCEPT ![poolOf(k)] = idle[poolOf(k)] + 1]
        BY <1>17, <2>2 DEF TimeOut
      <3>2. QED
        BY <2>1, <2>2, <3>1, <1>d
    <2>3. CASE pc[k] # "using"
      <3>1. UNCHANGED idle
        BY <1>17, <2>3 DEF TimeOut
      <3>2. CASE pc[k] \in Inside
        BY <2>1, <3>1, <3>2, <1>c
      <3>3. CASE pc[k] = "wait_pool" /\ poolOf(k) = p
        <4>1. Share(p)!GiveUp(k)
          BY <2>1, <3>1, <3>3, ShareLeaves DEF Share!GiveUp, IInv, shareOf
        <4>2. QED
          BY <4>1 DEF Share!Step, Share!Next
      <3>4. CASE pc[k] \notin Inside /\ ~(pc[k] = "wait_pool" /\ poolOf(k) = p)
        BY <2>1, <3>1, <3>4, <1>b, ShareLeaves DEF IInv
      <3>5. QED
        BY <3>2, <3>3, <3>4
    <2>4. QED
      BY <2>2, <2>3
  <1>18. CASE CloseStart
    BY <1>18, <1>a DEF CloseStart
  <1>19. ASSUME NEW c \in Connection, CloseNext(c) PROVE Share(p)!Step
    <2> DEFINE q == << c, epoch >>
    <2>1. /\ Unlocked(q)
          /\ listed' = [listed EXCEPT ![q] = 0] /\ idle' = [idle EXCEPT ![q] = 0]
          /\ pc' = [k \in Caller |-> IF pc[k] = "using" /\ poolOf(k) = q THEN "stray" ELSE pc[k]]
          /\ UNCHANGED << permits, target, held >>
      BY <1>19 DEF CloseNext
    <2> HIDE DEF q
    <2>2. CASE p = q
      <3>1. listed'[p] = 0 /\ idle'[p] = 0
        BY <2>1, <2>2 DEF IInv, Inner
      <3>2. shareOf(p)' = [k \in Caller |-> IF shareOf(p)[k] = "using" THEN "stray"
                                             ELSE shareOf(p)[k]]
        BY <2>1, <2>2 DEF shareOf, poolOf, Inside
      <3>3. Share(p)!Close
        BY <2>1, <2>2, <3>1, <3>2, ShareUnlocked DEF Share!Close
      <3>4. QED
        BY <3>3 DEF Share!Step, Share!Next
    <2>3. CASE p # q
      <3>1. listed'[p] = listed[p] /\ idle'[p] = idle[p]
        BY <2>1, <2>3 DEF IInv, Inner
      <3>2. shareOf(p)' = shareOf(p)
        BY <2>1, <2>3 DEF shareOf, poolOf
      <3>3. QED
        BY <2>1, <3>1, <3>2 DEF Share!Step, Share!vars
    <2>4. QED
      BY <2>2, <2>3
  <1>20. CASE CloseEnd
    BY <1>20, <1>a DEF CloseEnd
  <1>21. CASE CheckStart
    BY <1>21, <1>a DEF CheckStart
  <1>22. CASE ProbeBreaks
    <2> DEFINE q == Last(probed)
    <2>1. idle[q] > 0 /\ idle' = [idle EXCEPT ![q] = idle[q] - 1] /\ UNCHANGED << permits, listed >>
      BY <1>22 DEF ProbeBreaks
    <2>2. shareOf(p)' = shareOf(p)
      BY <1>22 DEF ProbeBreaks, shareOf, poolOf
    <2> HIDE DEF q
    <2>3. CASE p = q
      <3>1. Share(p)!Break
        BY <2>1, <2>2, <2>3 DEF Share!Break, IInv, Inner
      <3>2. QED
        BY <3>1 DEF Share!Step, Share!Next
    <2>4. CASE p # q
      <3>1. idle'[p] = idle[p]
        BY <2>1, <2>4 DEF IInv, Inner
      <3>2. QED
        BY <2>1, <2>2, <3>1 DEF Share!Step, Share!vars
    <2>5. QED
      BY <2>3, <2>4
  <1>23. CASE CheckNext
    BY <1>23, <1>a DEF CheckNext
  <1>24. CASE CheckEnd
    BY <1>24, <1>a DEF CheckEnd
  <1>25. CASE CheckRaises
    BY <1>25, <1>a DEF CheckRaises
  <1>26. CASE UNCHANGED vars
    BY <1>26, <1>a DEF vars
  <1>27. QED
    BY <1>1, <1>2, <1>3, <1>4, <1>5, <1>6, <1>7, <1>8, <1>9, <1>10, <1>11,
       <1>12, <1>13, <1>14, <1>15, <1>16, <1>17, <1>18, <1>19, <1>20, <1>21, <1>22,
       <1>23, <1>24, <1>25, <1>26
       DEF Next, Acquire

\* PoolManager implements CountedPool for each pool object it ever makes: what is
\* shown of one SessionPool holds of each of the manager's.
THEOREM CountedPoolsImplemented == Spec => ImplementsCountedPools
<1>1. Init => \A p \in Pool : Share(p)!Init
  BY DEF Init, Share!Init, shareOf
<1>2. IInv /\ [Next]_vars => [\A p \in Pool : Share(p)!Step]_vars
  BY ShareStep
<1>3. QED
  BY <1>1, <1>2, InvCorrect, PTL DEF Spec, ImplementsCountedPools

=============================================================================
