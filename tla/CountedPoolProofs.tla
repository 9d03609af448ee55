------------------------- MODULE CountedPoolProofs -------------------------
(***************************************************************************)
(* What follows from a pool being a CountedPool, for any users and any     *)
(* limit.  SessionPool implements CountedPool, and so does each pool of    *)
(* PoolManager, so it holds of both.                                       *)
(***************************************************************************)
EXTENDS CountedPool, FiniteSetTheorems, TLAPS

TypeOK ==
  /\ permits \in Nat /\ listed \in Nat /\ idle \in Nat
  /\ place \in [Users -> Places]

\* A user that moves leaves the count of one place and joins that of another.
LEMMA Moves ==
  ASSUME IsFiniteSet(Users), TypeOK, NEW u \in Users, NEW to, Goto(u, to),
         NEW P
  PROVE  /\ Cardinality(At(P)) \in Nat /\ Cardinality(At(P)') \in Nat
         /\ to \in P /\ place[u] \notin P =>
              Cardinality(At(P)') = Cardinality(At(P)) + 1
         /\ to \notin P /\ place[u] \in P =>
              Cardinality(At(P)') = Cardinality(At(P)) - 1
         /\ (to \in P <=> place[u] \in P) => Cardinality(At(P)') = Cardinality(At(P))
<1>1. /\ IsFiniteSet(At(P)) /\ Cardinality(At(P)) \in Nat
      /\ IsFiniteSet(At(P)') /\ Cardinality(At(P)') \in Nat
  BY FS_Subset, FS_CardinalityType DEF At
<1>2. \A v \in Users : place'[v] = IF v = u THEN to ELSE place[v]
  BY DEF Goto, TypeOK
<1>3. CASE to \in P /\ place[u] \notin P
  <2>1. At(P)' = At(P) \cup {u} /\ u \notin At(P)
    BY <1>2, <1>3 DEF At
  <2> QED
    BY <1>1, <1>3, <2>1, FS_AddElement
<1>4. CASE to \notin P /\ place[u] \in P
  <2>1. At(P)' = At(P) \ {u} /\ u \in At(P)
    BY <1>2, <1>4 DEF At
  <2> QED
    BY <1>1, <1>4, <2>1, FS_RemoveElement
<1>5. CASE to \in P <=> place[u] \in P
  <2>1. At(P)' = At(P)
    BY <1>2, <1>5 DEF At
  <2> QED
    BY <1>1, <1>5, <2>1
<1> QED
  BY <1>1, <1>3, <1>4, <1>5, FS_CardinalityType

\* Nobody is anywhere but outside.
LEMMA Nobody ==
  ASSUME NEW P, At(P) = {}
  PROVE  Cardinality(At(P)) = 0
BY FS_EmptySet

IInv == TypeOK /\ Balanced /\ RoomKept /\ OfferedOnce

\* Every step keeps the counts.
LEMMA InvStep ==
  ASSUME IsFiniteSet(Users), MaxSessions \in Nat, IInv, Step
  PROVE  IInv'
PROOF
  <1> DEFINE In == Places \ {"out", "waiting"}
  <1>h. In = Places \ {"out", "waiting"}
    OBVIOUS
  <1>0. /\ Cardinality(At(In)) \in Nat
        /\ Cardinality(At({"connecting"})) \in Nat
        /\ Cardinality(At({"using"})) \in Nat
    <2>1. \A P : IsFiniteSet(At(P))
      BY FS_Subset DEF At
    <2> QED
      BY <2>1, FS_CardinalityType
  <1>t. TypeOK
    BY DEF IInv
  <1>u. Unlocked => Cardinality(At({"connecting"})) = 0
    <2>1. Unlocked => At({"connecting"}) = {}
      BY DEF Unlocked, At
    <2> QED
      BY <2>1, Nobody
  <1> USE DEF IInv, TypeOK, Balanced, RoomKept, OfferedOnce, Places
  <1>1. CASE UNCHANGED vars
    BY <1>1 DEF vars, At
  <1>2. ASSUME NEW n \in 0..MaxSessions, Open(n) PROVE IInv'
    <2>1. At({"connecting"}) = {} /\ At({"connecting"})' = {}
      BY <1>2 DEF Open, At
    <2>2. At({"using"}) = {} /\ At({"using"})' = {}
      BY <1>2 DEF Open, At
    <2>3. At(In)' = At(In)
      BY <1>2 DEF Open, At
    <2> QED
      BY <1>2, <1>0, <2>1, <2>2, <2>3, FS_EmptySet DEF Open
  <1>3. ASSUME NEW u \in Users, Ask(u) PROVE IInv'
    <2>1. Goto(u, "waiting") /\ place[u] = "out"
      BY <1>3 DEF Ask
    <2>2. place' \in [Users -> Places]
      BY <2>1 DEF Goto
    <2>3. Cardinality(At(In)') = Cardinality(At(In))
      BY <1>t, <2>1, Moves
    <2>4. Cardinality(At({"connecting"})') = Cardinality(At({"connecting"}))
      BY <1>t, <1>0, <2>1, Moves
    <2>5. Cardinality(At({"using"})') = Cardinality(At({"using"}))
      BY <1>t, <1>0, <2>1, Moves
    <2> HIDE DEF In
    <2> QED
      BY <1>3, <1>0, <2>2, <2>3, <2>4, <2>5, <1>h DEF Ask
  <1>4. ASSUME NEW u \in Users, GiveUp(u) PROVE IInv'
    <2>1. Goto(u, "out") /\ place[u] = "waiting"
      BY <1>4 DEF GiveUp
    <2>2. place' \in [Users -> Places]
      BY <2>1 DEF Goto
    <2>3. Cardinality(At(In)') = Cardinality(At(In))
      BY <1>t, <2>1, Moves
    <2>4. Cardinality(At({"connecting"})') = Cardinality(At({"connecting"}))
      BY <1>t, <1>0, <2>1, Moves
    <2>5. Cardinality(At({"using"})') = Cardinality(At({"using"}))
      BY <1>t, <1>0, <2>1, Moves
    <2> HIDE DEF In
    <2> QED
      BY <1>4, <1>0, <2>2, <2>3, <2>4, <2>5, <1>h DEF GiveUp
  <1>5. ASSUME NEW u \in Users, TakePermit(u) PROVE IInv'
    <2>1. Goto(u, "entering") /\ place[u] = "waiting"
      BY <1>5 DEF TakePermit
    <2>2. place' \in [Users -> Places]
      BY <2>1 DEF Goto
    <2>3. Cardinality(At(In)') = Cardinality(At(In)) + 1
      BY <1>t, <2>1, Moves
    <2>4. Cardinality(At({"connecting"})') = Cardinality(At({"connecting"}))
      BY <1>t, <1>0, <2>1, Moves
    <2>5. Cardinality(At({"using"})') = Cardinality(At({"using"}))
      BY <1>t, <1>0, <2>1, Moves
    <2> HIDE DEF In
    <2> QED
      BY <1>5, <1>0, <2>2, <2>3, <2>4, <2>5, <1>h DEF TakePermit
  <1>6. ASSUME NEW u \in Users, TakeIdle(u) PROVE IInv'
    <2>1. Goto(u, "using") /\ place[u] = "entering"
      BY <1>6 DEF TakeIdle
    <2>2. place' \in [Users -> Places]
      BY <2>1 DEF Goto
    <2>3. Cardinality(At(In)') = Cardinality(At(In))
      BY <1>t, <2>1, Moves
    <2>4. Cardinality(At({"connecting"})') = Cardinality(At({"connecting"}))
      BY <1>t, <1>0, <2>1, Moves
    <2>5. Cardinality(At({"using"})') = Cardinality(At({"using"})) + 1
      BY <1>t, <1>0, <2>1, Moves
    <2> HIDE DEF In
    <2> QED
      BY <1>6, <1>0, <2>2, <2>3, <2>4, <2>5, <1>h DEF TakeIdle
  <1>7. ASSUME NEW u \in Users, StartConnect(u) PROVE IInv'
    <2>1. Goto(u, "connecting") /\ place[u] = "entering"
      BY <1>7 DEF StartConnect
    <2>2. place' \in [Users -> Places]
      BY <2>1 DEF Goto
    <2>3. Cardinality(At(In)') = Cardinality(At(In))
      BY <1>t, <2>1, Moves
    <2>4. Cardinality(At({"connecting"})') = Cardinality(At({"connecting"})) + 1
      BY <1>t, <1>0, <2>1, Moves
    <2>5. Cardinality(At({"using"})') = Cardinality(At({"using"}))
      BY <1>t, <1>0, <2>1, Moves
    <2> HIDE DEF In
    <2> QED
      BY <1>7, <1>0, <1>u, <2>2, <2>3, <2>4, <2>5, <1>h DEF StartConnect
  <1>8. ASSUME NEW u \in Users, Connected(u) PROVE IInv'
    <2>1. Goto(u, "using") /\ place[u] = "connecting"
      BY <1>8 DEF Connected
    <2>2. place' \in [Users -> Places]
      BY <2>1 DEF Goto
    <2>3. Cardinality(At(In)') = Cardinality(At(In))
      BY <1>t, <2>1, Moves
    <2>4. Cardinality(At({"connecting"})') = Cardinality(At({"connecting"})) - 1
      BY <1>t, <1>0, <2>1, Moves
    <2>5. Cardinality(At({"using"})') = Cardinality(At({"using"})) + 1
      BY <1>t, <1>0, <2>1, Moves
    <2> HIDE DEF In
    <2> QED
      BY <1>8, <1>0, <2>2, <2>3, <2>4, <2>5, <1>h DEF Connected
  <1>9. ASSUME NEW u \in Users, Fail(u) PROVE IInv'
    <2>1. Goto(u, "out") /\ place[u] \in In
      BY <1>9 DEF Fail, Leave
    <2>2. place' \in [Users -> Places]
      BY <2>1 DEF Goto
    <2>3. Cardinality(At(In)') = Cardinality(At(In)) - 1
      BY <1>t, <2>1, Moves
    <2>4. /\ Cardinality(At({"connecting"})') \in Nat
          /\ Cardinality(At({"connecting"})') =< Cardinality(At({"connecting"}))
      <3>1. CASE place[u] \in {"connecting"}
        BY <1>t, <1>0, <2>1, <3>1, Moves
      <3>2. CASE place[u] \notin {"connecting"}
        BY <1>t, <1>0, <2>1, <3>2, Moves
      <3> QED
        BY <3>1, <3>2
    <2>5. /\ Cardinality(At({"using"})') \in Nat
          /\ Cardinality(At({"using"})') =< Cardinality(At({"using"}))
      <3>1. CASE place[u] \in {"using"}
        BY <1>t, <1>0, <2>1, <3>1, Moves
      <3>2. CASE place[u] \notin {"using"}
        BY <1>t, <1>0, <2>1, <3>2, Moves
      <3> QED
        BY <3>1, <3>2
    <2> HIDE DEF In
    <2> QED
      BY <1>9, <1>0, <2>2, <2>3, <2>4, <2>5, <1>h DEF Fail, Leave
  <1>10. ASSUME NEW u \in Users, Return(u) PROVE IInv'
    <2>1. Goto(u, "out") /\ place[u] = "using"
      BY <1>10 DEF Return, Leave
    <2>2. place' \in [Users -> Places]
      BY <2>1 DEF Goto
    <2>3. Cardinality(At(In)') = Cardinality(At(In)) - 1
      BY <1>t, <2>1, Moves
    <2>4. Cardinality(At({"connecting"})') = Cardinality(At({"connecting"}))
      BY <1>t, <1>0, <2>1, Moves
    <2>5. Cardinality(At({"using"})') = Cardinality(At({"using"})) - 1
      BY <1>t, <1>0, <2>1, Moves
    <2> HIDE DEF In
    <2> QED
      BY <1>10, <1>0, <2>2, <2>3, <2>4, <2>5, <1>h DEF Return, Leave
  <1>11. CASE Break
    <2>1. \A P : At(P)' = At(P)
      BY <1>11 DEF Break, At
    <2> QED
      BY <1>11, <1>0, <2>1, <1>h DEF Break
  <1>12. CASE Close
    <2>1. At(In)' = At(In)
      BY <1>12 DEF Close, At
    <2>2. At({"connecting"})' = At({"connecting"})
      BY <1>12 DEF Close, At
    <2>3. At({"using"})' = {}
      BY <1>12 DEF Close, At
    <2>4. place' \in [Users -> Places]
      BY <1>12 DEF Close
    <2> QED
      <3>1. /\ Cardinality(At(In)') = Cardinality(At(In))
            /\ Cardinality(At({"connecting"})') = 0 /\ Cardinality(At({"using"})') = 0
        BY <1>12, <1>u, <2>1, <2>2, <2>3, FS_EmptySet DEF Close
      <3> HIDE DEF In
      <3> QED
        BY <1>12, <1>0, <2>4, <3>1, <1>h DEF Close
  <1> QED
    BY <1>1, <1>2, <1>3, <1>4, <1>5, <1>6, <1>7, <1>8, <1>9, <1>10, <1>11, <1>12
       DEF Step, Next

\* In every state of a pool the permits add up, the list has room, sessions are
\* offered once, and only broken ones starve a user.
THEOREM PromisesKept ==
  IsFiniteSet(Users) /\ MaxSessions \in Nat => (Spec => []Promises)
<1> SUFFICES ASSUME IsFiniteSet(Users), MaxSessions \in Nat
             PROVE  Spec => []Promises
  OBVIOUS
<1>1. Init => IInv
  <2> SUFFICES ASSUME Init PROVE IInv
    OBVIOUS
  <2>1. /\ At(Places \ {"out", "waiting"}) = {}
        /\ At({"connecting"}) = {} /\ At({"using"}) = {}
    BY DEF Init, At
  <2>2. TypeOK
    BY DEF Init, TypeOK, Places
  <2> QED
    BY <2>1, <2>2, FS_EmptySet DEF Init, IInv, Balanced, RoomKept, OfferedOnce
<1>2. IInv /\ [Step]_vars => IInv'
  BY InvStep DEF Step
<1>3. IInv => Promises
  <2> SUFFICES ASSUME IInv PROVE Promises
    OBVIOUS
  <2>1. ASSUME At({"entering"}) # {}, listed = MaxSessions
        PROVE  Cardinality(At({"using"})) < listed
    <3>1. PICK u \in At({"entering"}) : TRUE
      BY <2>1
    <3> DEFINE In == Places \ {"out", "waiting"}
    <3>2. At({"using"}) \subseteq At(In) \ {u} /\ u \in At(In)
      BY <3>1 DEF At, Places
    <3>3. \A P : IsFiniteSet(At(P))
      BY FS_Subset DEF At
    <3>4. Cardinality(At({"using"})) =< Cardinality(At(In) \ {u})
      <4>1. IsFiniteSet(At(In) \ {u})
        BY <3>2, <3>3, FS_RemoveElement
      <4> QED
        BY <4>1, <3>2, FS_Subset
    <3>5. Cardinality(At(In) \ {u}) = Cardinality(At(In)) - 1
      <4>1. IsFiniteSet(At(In)) /\ u \in At(In)
        BY <3>2, <3>3
      <4> HIDE DEF In
      <4> QED
        BY <4>1, FS_RemoveElement
    <3>6. Cardinality(At(In)) =< MaxSessions
      BY <3>3, FS_CardinalityType DEF IInv, TypeOK, Balanced
    <3>7. Cardinality(At({"using"})) \in Nat /\ Cardinality(At(In)) \in Nat
      BY <3>3, FS_CardinalityType
    <3> HIDE DEF In
    <3> QED
      BY <2>1, <3>4, <3>5, <3>6, <3>7
  <2> QED
    BY <2>1 DEF IInv, Promises, StarvedByBroken
<1> QED
  BY <1>1, <1>2, <1>3, PTL DEF Spec
=============================================================================
