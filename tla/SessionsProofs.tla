--------------------------- MODULE SessionsProofs ---------------------------
(***************************************************************************)
(* Theorems about Sessions, for every value of its constants.              *)
(***************************************************************************)
EXTENDS Sessions, TLAPS, FiniteSetTheorems

\* Every registry operation stores well-formed sessions and every task keeps a
\* well-formed place, token and time: the type invariant is inductive.
LEMMA TypeInductive == TypeOK /\ [Next]_vars => TypeOK'
<1> SUFFICES ASSUME TypeOK, [Next]_vars PROVE TypeOK'
  OBVIOUS
<1> USE ConstantsAssumption DEF TypeOK, Local, Task, Idle, Goes, Returns
<1>1. CASE Tick
  BY <1>1 DEF Tick
<1>2. CASE SweepBegin
  BY <1>2 DEF SweepBegin
<1>3. CASE SweepDrain
  BY <1>3 DEF SweepDrain, Restrict, ActiveTokens, ExpiredTokens
<1>4. ASSUME NEW p \in Request, CreateBegin(p) PROVE TypeOK'
  BY <1>4 DEF CreateBegin
<1>5. ASSUME NEW p \in Request, NEW u \in User, NEW t \in Token, CreateRegister(p, u, t)
      PROVE  TypeOK'
  BY <1>5 DEF CreateRegister, ActiveTokens, ExpiredTokens, NewSession, StoredSession
<1>6. ASSUME NEW p \in Request, NEW u \in User, CreateRejected(p, u) PROVE TypeOK'
  BY <1>6 DEF CreateRejected
<1>7. ASSUME NEW p \in Request, Connect(p) PROVE TypeOK'
  BY <1>7 DEF Connect, Ready
<1>8. ASSUME NEW p \in Request, ConnectFails(p) PROVE TypeOK'
  BY <1>8 DEF ConnectFails, Restrict
<1>9. ASSUME NEW p \in Request, ConnectCancelled(p) PROVE TypeOK'
  BY <1>9 DEF ConnectCancelled
<1>10. ASSUME NEW p \in Request, NEW t \in Token, Delete(p, t) PROVE TypeOK'
  BY <1>10 DEF Delete, Restrict
<1>11. ASSUME NEW p \in Task, NEW t \in Token, Disconnect(p, t) PROVE TypeOK'
  BY <1>11 DEF Disconnect
<1>12. ASSUME NEW p \in Request, NEW t \in Token, TouchBegin(p, t) PROVE TypeOK'
  BY <1>12 DEF TouchBegin
<1>13. ASSUME NEW p \in Request, Refused(p) PROVE TypeOK'
  BY <1>13 DEF Refused
<1>14. ASSUME NEW p \in Request, FoundExpired(p) PROVE TypeOK'
  BY <1>14 DEF FoundExpired, StoredSession
<1>15. ASSUME NEW p \in Request, Touch(p) PROVE TypeOK'
  BY <1>15 DEF Touch, Ready, Registered, StoredSession
<1>16. ASSUME NEW p \in Request, Dispatch(p) PROVE TypeOK'
  BY <1>16 DEF Dispatch, Ready
<1>17. ASSUME NEW t \in Token, BackendDisconnects(t) PROVE TypeOK'
  BY <1>17 DEF BackendDisconnects
<1>18. ASSUME NEW p \in Request, CallReturns(p) \/ CallFails(p) PROVE TypeOK'
  BY <1>18 DEF CallReturns, CallFails
<1>19. ASSUME NEW p \in Request, HoldBegin(p) PROVE TypeOK'
  BY <1>19 DEF HoldBegin, Ready
<1>20. ASSUME NEW p \in Request, Hold(p) PROVE TypeOK'
  BY <1>20 DEF Hold, Ready, Registered, StoredSession
<1>21. ASSUME NEW p \in Request, Release(p) PROVE TypeOK'
  BY <1>21 DEF Release, Registered, SaturatingSub, StoredSession
<1>22. CASE UNCHANGED vars
  BY <1>22 DEF vars
<1>23. QED
  BY <1>1, <1>2, <1>3, <1>4, <1>5, <1>6, <1>7, <1>8, <1>9, <1>10, <1>11, <1>12,
     <1>13, <1>14, <1>15, <1>16, <1>17, <1>18, <1>19, <1>20, <1>21, <1>22
     DEF Next, Sweep, Continues, Connects, Answered, Arrives

\* Type correctness of the registry, the adapter's map and the tasks.
THEOREM TypeCorrect == Spec => []TypeOK
<1>1. Init => TypeOK
  BY ConstantsAssumption DEF Init, TypeOK, Task, Idle, Local
<1>2. QED
  BY <1>1, TypeInductive, PTL DEF Spec

-----------------------------------------------------------------------------
(* Capacity limits *)

\* One more element adds at most one to the size of a finite set.
LEMMA OneMore ==
  ASSUME NEW S, NEW x, IsFiniteSet(S)
  PROVE  /\ IsFiniteSet(S \cup {x})
         /\ Cardinality(S) \in Nat
         /\ Cardinality(S \cup {x}) \in Nat
         /\ Cardinality(S \cup {x}) <= Cardinality(S) + 1
<1>1. IsFiniteSet(S \cup {x})
  BY FS_AddElement
<1>2. Cardinality(S) \in Nat /\ Cardinality(S \cup {x}) \in Nat
  BY <1>1, FS_CardinalityType
<1>3. Cardinality(S \cup {x}) = IF x \in S THEN Cardinality(S) ELSE Cardinality(S) + 1
  BY FS_AddElement
<1>4. QED
  BY <1>1, <1>2, <1>3

\* Only create_draining_expired enters a session; every other step leaves a
\* subset of the registry, and no step changes whose session it is.
LEMMA OnlyCreateRegisters ==
  ASSUME TypeOK, [Next]_vars,
         ~ \E p \in Request, u \in User, t \in Token : CreateRegister(p, u, t)
  PROVE  /\ DOMAIN sessions' \subseteq DOMAIN sessions
         /\ \A t \in DOMAIN sessions' : sessions'[t].user = sessions[t].user
<1> DEFINE Goal == /\ DOMAIN sessions' \subseteq DOMAIN sessions
                   /\ \A t \in DOMAIN sessions' : sessions'[t].user = sessions[t].user
<1> USE DEF TypeOK
<1>1. ASSUME UNCHANGED sessions PROVE Goal
  BY <1>1
<1>2. ASSUME SweepDrain PROVE Goal
  BY <1>2 DEF SweepDrain, Restrict, ActiveTokens
<1>3. ASSUME NEW p \in Request, ConnectFails(p) PROVE Goal
  BY <1>3 DEF ConnectFails, Restrict
<1>4. ASSUME NEW p \in Request, NEW t \in Token, Delete(p, t) PROVE Goal
  BY <1>4 DEF Delete, Restrict
<1>5. ASSUME NEW p \in Request, FoundExpired(p) PROVE Goal
  BY <1>5 DEF FoundExpired, StoredSession
<1>6. ASSUME NEW p \in Request, Touch(p) PROVE Goal
  BY <1>6 DEF Touch, StoredSession
<1>7. ASSUME NEW p \in Request, Hold(p) PROVE Goal
  BY <1>7 DEF Hold, StoredSession
<1>8. ASSUME NEW p \in Request, Release(p) PROVE Goal
  BY <1>8 DEF Release, StoredSession
<1>9. QED
  BY <1>1, <1>2, <1>3, <1>4, <1>5, <1>6, <1>7, <1>8
     DEF Next, Sweep, Continues, Connects, Answered, Arrives, vars, Tick, SweepBegin, CreateBegin,
         CreateRejected, Connect, ConnectCancelled, Disconnect, TouchBegin, Refused,
         Dispatch, BackendDisconnects, CallReturns, CallFails, HoldBegin

\* The limits survive every step: a creation counts, drains and inserts under
\* one lock and by one reading of the clock.
LEMMA LimitsInductive ==
  ASSUME TypeOK, GlobalLimitKept, UserLimitKept, [Next]_vars
  PROVE  GlobalLimitKept' /\ UserLimitKept'
<1> USE ConstantsAssumption DEF TypeOK, Limit
<1>1. IsFiniteSet(DOMAIN sessions)
  BY FS_Subset
<1>2. ASSUME NEW p \in Request, NEW u \in User, NEW t \in Token, CreateRegister(p, u, t)
      PROVE  GlobalLimitKept' /\ UserLimitKept'
  <2> DEFINE A == ActiveTokens(task[p].now)
             Of(v) == {x \in A : sessions[x].user = v}
  <2>1. /\ DOMAIN sessions' = A \cup {t}
        /\ \A x \in A : x # t => sessions'[x] = sessions[x]
        /\ sessions'[t].user = u
    BY <1>2 DEF CreateRegister, NewSession
  <2>2. A \subseteq DOMAIN sessions /\ IsFiniteSet(A)
    BY <1>1, FS_Subset DEF ActiveTokens
  <2>3. /\ MaxGlobal # NoLimit => Cardinality(A) < MaxGlobal
        /\ MaxPerUser # NoLimit => Cardinality(Of(u)) < MaxPerUser
    BY <1>2 DEF CreateRegister, LimitsAllow, Below
  <2>4. GlobalLimitKept'
    <3>1. Cardinality(A \cup {t}) <= Cardinality(A) + 1 /\ Cardinality(A) \in Nat
      BY <2>2, OneMore
    <3>2. Cardinality(A \cup {t}) \in Nat
      BY <2>2, OneMore
    <3>3. QED
      BY <2>1, <2>3, <3>1, <3>2 DEF GlobalLimitKept
  <2>5. UserLimitKept'
    <3>1. SUFFICES ASSUME MaxPerUser # NoLimit, NEW v \in User
                   PROVE  Cardinality(SessionsOf(v)') <= MaxPerUser
      BY DEF UserLimitKept
    <3>2. IsFiniteSet(Of(v)) /\ Cardinality(Of(v)) \in Nat
      BY <2>2, FS_Subset, FS_CardinalityType
    <3>3. CASE v = u
      <4>1. SessionsOf(v)' \subseteq Of(v) \cup {t}
        BY <2>1 DEF SessionsOf
      <4>2. /\ IsFiniteSet(Of(v) \cup {t})
            /\ Cardinality(Of(v) \cup {t}) <= Cardinality(Of(v)) + 1
        BY <3>2, OneMore
      <4>3. /\ Cardinality(SessionsOf(v)') <= Cardinality(Of(v) \cup {t})
            /\ Cardinality(SessionsOf(v)') \in Nat /\ Cardinality(Of(v) \cup {t}) \in Nat
        BY <4>1, <4>2, FS_Subset, FS_CardinalityType
      <4>4. QED
        BY <2>3, <3>1, <3>2, <3>3, <4>2, <4>3
    <3>4. CASE v # u
      <4>1. SessionsOf(v)' \subseteq SessionsOf(v)
        BY <2>1, <2>2, <3>4 DEF SessionsOf
      <4>2. IsFiniteSet(SessionsOf(v))
        BY <1>1, FS_Subset DEF SessionsOf
      <4>3. /\ Cardinality(SessionsOf(v)') <= Cardinality(SessionsOf(v))
            /\ Cardinality(SessionsOf(v)') \in Nat /\ Cardinality(SessionsOf(v)) \in Nat
        BY <4>1, <4>2, FS_Subset, FS_CardinalityType
      <4>4. QED
        BY <3>1, <4>3 DEF UserLimitKept
    <3>5. QED
      BY <3>3, <3>4
  <2>6. QED
    BY <2>4, <2>5
<1>3. ASSUME ~ \E p \in Request, u \in User, t \in Token : CreateRegister(p, u, t)
      PROVE  GlobalLimitKept' /\ UserLimitKept'
  <2>1. /\ DOMAIN sessions' \subseteq DOMAIN sessions
        /\ \A v \in User : SessionsOf(v)' \subseteq SessionsOf(v)
    BY <1>3, OnlyCreateRegisters DEF SessionsOf
  <2>2. \A S, T : IsFiniteSet(S) /\ T \subseteq S =>
             /\ Cardinality(T) <= Cardinality(S)
             /\ Cardinality(T) \in Nat /\ Cardinality(S) \in Nat
    BY FS_Subset, FS_CardinalityType
  <2>3. \A v \in User : IsFiniteSet(SessionsOf(v))
    BY <1>1, FS_Subset DEF SessionsOf
  <2>4. GlobalLimitKept'
    BY <1>1, <2>1, <2>2 DEF GlobalLimitKept
  <2>5. UserLimitKept'
    BY <2>1, <2>2, <2>3 DEF UserLimitKept
  <2>6. QED
    BY <2>4, <2>5
<1>4. QED
  BY <1>2, <1>3

\* However the tasks interleave and however stale their clocks are, the
\* registry never exceeds max_global sessions, nor max_per_user of one user.
THEOREM CapacitySafe == Spec => [](GlobalLimitKept /\ UserLimitKept)
<1>1. Init => GlobalLimitKept /\ UserLimitKept
  <2>1. SUFFICES ASSUME Init PROVE GlobalLimitKept /\ UserLimitKept
    OBVIOUS
  <2>2. DOMAIN sessions = {} /\ \A u \in User : SessionsOf(u) = {}
    BY <2>1 DEF Init, SessionsOf
  <2>3. Cardinality({}) = 0
    BY FS_EmptySet
  <2>4. GlobalLimitKept
    BY <2>2, <2>3, ConstantsAssumption DEF GlobalLimitKept, Limit
  <2>5. ASSUME MaxPerUser # NoLimit, NEW u \in User
        PROVE  Cardinality(SessionsOf(u)) <= MaxPerUser
    <3>1. Cardinality(SessionsOf(u)) = 0
      BY <2>2, <2>3
    <3>2. QED
      BY <2>5, <3>1, ConstantsAssumption DEF Limit
  <2>6. QED
    BY <2>4, <2>5 DEF UserLimitKept
<1>2. QED
  BY <1>1, LimitsInductive, TypeCorrect, PTL DEF Spec

-----------------------------------------------------------------------------
(* Tokens and holds *)

\* A task works on registered tokens only, and a client's request on tokens
\* that were returned to a client.
LEMMA TokensInductive == TypeOK /\ TokensMinted /\ [Next]_vars => TokensMinted'
<1> SUFFICES ASSUME TypeOK, TokensMinted, [Next]_vars PROVE TokensMinted'
  OBVIOUS
<1> USE ConstantsAssumption
    DEF TypeOK, Local, Task, Idle, Goes, Returns, Ready, TokensMinted, Registered
<1>1. CASE Tick
  BY <1>1 DEF Tick
<1>2. CASE SweepBegin
  BY <1>2 DEF SweepBegin
<1>3. CASE SweepDrain
  BY <1>3 DEF SweepDrain, Restrict, ActiveTokens, ExpiredTokens
<1>4. ASSUME NEW p \in Request, CreateBegin(p) PROVE TokensMinted'
  BY <1>4 DEF CreateBegin
<1>5. ASSUME NEW p \in Request, NEW u \in User, NEW t \in Token, CreateRegister(p, u, t)
      PROVE  TokensMinted'
  BY <1>5 DEF CreateRegister, ActiveTokens, ExpiredTokens
<1>6. ASSUME NEW p \in Request, NEW u \in User, CreateRejected(p, u) PROVE TokensMinted'
  BY <1>6 DEF CreateRejected
<1>7. ASSUME NEW p \in Request, Connect(p) PROVE TokensMinted'
  BY <1>7 DEF Connect
<1>8. ASSUME NEW p \in Request, ConnectFails(p) \/ ConnectCancelled(p) PROVE TokensMinted'
  BY <1>8 DEF ConnectFails, ConnectCancelled, Restrict
<1>9. ASSUME NEW p \in Request, NEW t \in Token, Delete(p, t) PROVE TokensMinted'
  BY <1>9 DEF Delete, Restrict
<1>10. ASSUME NEW p \in Task, NEW t \in Token, Disconnect(p, t) PROVE TokensMinted'
  BY <1>10 DEF Disconnect
<1>11. ASSUME NEW p \in Request, NEW t \in Token, TouchBegin(p, t) PROVE TokensMinted'
  BY <1>11 DEF TouchBegin
<1>12. ASSUME NEW p \in Request, Refused(p) \/ FoundExpired(p) PROVE TokensMinted'
  BY <1>12 DEF Refused, FoundExpired
<1>13. ASSUME NEW p \in Request, Touch(p) PROVE TokensMinted'
  BY <1>13 DEF Touch
<1>14. ASSUME NEW p \in Request, Dispatch(p) PROVE TokensMinted'
  BY <1>14 DEF Dispatch
<1>15. ASSUME NEW t \in Token, BackendDisconnects(t) PROVE TokensMinted'
  BY <1>15 DEF BackendDisconnects
<1>16. ASSUME NEW p \in Request, CallReturns(p) \/ CallFails(p) PROVE TokensMinted'
  BY <1>16 DEF CallReturns, CallFails
<1>17. ASSUME NEW p \in Request, HoldBegin(p) PROVE TokensMinted'
  BY <1>17 DEF HoldBegin
<1>18. ASSUME NEW p \in Request, Hold(p) PROVE TokensMinted'
  BY <1>18 DEF Hold
<1>19. ASSUME NEW p \in Request, Release(p) PROVE TokensMinted'
  BY <1>19 DEF Release
<1>20. CASE UNCHANGED vars
  BY <1>20 DEF vars
<1>21. QED
  BY <1>1, <1>2, <1>3, <1>4, <1>5, <1>6, <1>7, <1>8, <1>9, <1>10, <1>11, <1>12,
     <1>13, <1>14, <1>15, <1>16, <1>17, <1>18, <1>19, <1>20
     DEF Next, Sweep, Continues, Connects, Answered, Arrives

\* A step that is neither Hold nor Release leaves the holders of every token,
\* and no session it leaves registered changes its hold count or becomes
\* Expired while it is held; a session it enters has no holds.
LEMMA OtherStepsKeepHolds ==
  ASSUME TypeOK, TokensMinted, [Next]_vars,
         ~ \E p \in Request : Hold(p) \/ Release(p)
  PROVE  /\ \A t \in Token : Holders(t)' = Holders(t)
         /\ \A t \in DOMAIN sessions' \cap DOMAIN sessions :
               /\ sessions'[t].holds = sessions[t].holds
               /\ \/ sessions'[t].state = sessions[t].state
                  \/ sessions[t].state = "Expired" \/ sessions[t].holds = 0
         /\ \A t \in DOMAIN sessions' \ DOMAIN sessions :
               t \notin minted /\ sessions'[t].holds = 0 /\ sessions'[t].state = "Active"
<1> DEFINE Same == \A t \in Token : Holders(t)' = Holders(t)
           Kept == \A t \in DOMAIN sessions' \cap DOMAIN sessions :
                      /\ sessions'[t].holds = sessions[t].holds
                      /\ \/ sessions'[t].state = sessions[t].state
                         \/ sessions[t].state = "Expired" \/ sessions[t].holds = 0
           New == \A t \in DOMAIN sessions' \ DOMAIN sessions :
                      t \notin minted /\ sessions'[t].holds = 0 /\ sessions'[t].state = "Active"
<1> USE ConstantsAssumption DEF TypeOK, Local, Task, Ready
<1>0. ASSUME NEW p \in Task, task[p].at # "held", Returns(p)
      PROVE  Same
  BY <1>0 DEF Holders, Returns, Idle
<1>1. ASSUME NEW p \in Task, task[p].at # "held",
             NEW place \in {"create", "connect", "touch", "run", "call", "hold", "sweep"},
             NEW t, NEW n, Goes(p, place, t, n)
      PROVE  Same
  BY <1>1 DEF Holders, Goes
<1>2. ASSUME UNCHANGED task PROVE Same
  BY <1>2 DEF Holders
<1>3. ASSUME UNCHANGED sessions PROVE Kept /\ New
  BY <1>3
<1>4. CASE SweepDrain
  <2>1. Same
    BY <1>0, <1>4 DEF SweepDrain
  <2>2. Kept /\ New
    BY <1>4 DEF SweepDrain, Restrict, ActiveTokens
  <2>3. QED
    BY <2>1, <2>2
<1>5. ASSUME NEW p \in Request, NEW u \in User, NEW t \in Token, CreateRegister(p, u, t)
      PROVE  Same /\ Kept /\ New
  <2>1. Same
    BY <1>1, <1>5 DEF CreateRegister
  <2>2. Kept /\ New
    BY <1>5 DEF CreateRegister, ActiveTokens, NewSession, TokensMinted
  <2>3. QED
    BY <2>1, <2>2
<1>6. ASSUME NEW p \in Request, ConnectFails(p) PROVE Same /\ Kept /\ New
  <2>1. Same
    BY <1>0, <1>6 DEF ConnectFails
  <2>2. Kept /\ New
    BY <1>6 DEF ConnectFails, Restrict
  <2>3. QED
    BY <2>1, <2>2
<1>7. ASSUME NEW p \in Request, NEW t \in Token, Delete(p, t) PROVE Same /\ Kept /\ New
  <2>1. Same
    BY <1>2, <1>7 DEF Delete
  <2>2. Kept /\ New
    BY <1>7 DEF Delete, Restrict
  <2>3. QED
    BY <2>1, <2>2
<1>8. ASSUME NEW p \in Request, FoundExpired(p) PROVE Same /\ Kept /\ New
  <2>1. Same
    BY <1>0, <1>8 DEF FoundExpired
  <2>2. Kept /\ New
    BY <1>8 DEF FoundExpired, StoredSession, IsExpiredAt
  <2>3. QED
    BY <2>1, <2>2
<1>9. ASSUME NEW p \in Request, Touch(p) PROVE Same /\ Kept /\ New
  <2>1. Same
    BY <1>1, <1>9 DEF Touch
  <2>2. Kept /\ New
    BY <1>9 DEF Touch, StoredSession
  <2>3. QED
    BY <2>1, <2>2
<1>10. ASSUME UNCHANGED <<sessions, task>> PROVE Same /\ Kept /\ New
  BY <1>2, <1>3, <1>10
<1>11. CASE SweepBegin
  BY <1>1, <1>3, <1>11 DEF SweepBegin
<1>12. ASSUME NEW p \in Request,
              \/ CreateBegin(p) \/ (\E u \in User : CreateRejected(p, u)) \/ Connect(p)
              \/ ConnectCancelled(p) \/ (\E t \in Token : TouchBegin(p, t))
              \/ Refused(p) \/ Dispatch(p) \/ CallReturns(p) \/ CallFails(p) \/ HoldBegin(p)
       PROVE  Same /\ Kept /\ New
  <2>1. Same
    BY <1>0, <1>1, <1>12
       DEF CreateBegin, CreateRejected, Connect, ConnectCancelled, TouchBegin, Refused,
           Dispatch, CallReturns, CallFails, HoldBegin
  <2>2. UNCHANGED sessions
    BY <1>12
       DEF CreateBegin, CreateRejected, Connect, ConnectCancelled, TouchBegin, Refused,
           Dispatch, CallReturns, CallFails, HoldBegin
  <2>3. QED
    BY <1>3, <2>1, <2>2
<1>13. QED
  BY <1>4, <1>5, <1>6, <1>7, <1>8, <1>9, <1>10, <1>11, <1>12
     DEF Next, Sweep, Continues, Connects, Answered, Arrives, vars, Tick, Disconnect, BackendDisconnects

\* hold counts one more holder, SessionHold::drop one less, and nobody else
\* touches the counts.
LEMMA HoldsInductive ==
  ASSUME TypeOK, TokensMinted, HoldsConsistent, [Next]_vars
  PROVE  HoldsConsistent'
<1> USE ConstantsAssumption DEF TypeOK, Task
<1>0. /\ IsFiniteSet(Task)
      /\ \A t : IsFiniteSet(Holders(t)) /\ Cardinality(Holders(t)) \in Nat
  <2>1. IsFiniteSet(Task)
    BY FS_AddElement
  <2>2. \A t : Holders(t) \in SUBSET Task
    BY DEF Holders
  <2>3. QED
    BY <2>1, <2>2, FS_Subset, FS_CardinalityType
<1>1. ASSUME NEW p \in Request, Hold(p) PROVE HoldsConsistent'
  <2>0. PICK h \in Token : h = task[p].token
    BY <1>1 DEF Hold, Ready, Local
  <2>1. /\ p \notin Holders(h) /\ h \in DOMAIN sessions
        /\ sessions' = [sessions EXCEPT ![h].holds = @ + 1, ![h].lastUsed = task[p].now,
                                       ![h].usedAt = clock]
        /\ ~IsExpiredAt(sessions[h], task[p].now)
    BY <1>1, <2>0 DEF Hold, Ready, Holders, Registered
  <2>2. Holders(h)' = Holders(h) \cup {p}
    BY <1>1, <2>0 DEF Hold, Goes, Holders, Ready, Local
  <2>3. \A t \in Token : t # h => Holders(t)' = Holders(t)
    BY <1>1, <2>0 DEF Hold, Goes, Holders, Ready, Local
  <2>4. Cardinality(Holders(h) \cup {p}) = Cardinality(Holders(h)) + 1
    BY <1>0, <2>1, FS_AddElement
  <2>5. ASSUME NEW t \in DOMAIN sessions'
        PROVE  /\ sessions'[t].holds = Cardinality(Holders(t)')
               /\ sessions'[t].state = "Expired" => sessions'[t].holds = 0
    <3>1. CASE t = h
      BY <2>1, <2>2, <2>4, <3>1 DEF HoldsConsistent, StoredSession, IsExpiredAt
    <3>2. CASE t # h
      BY <2>1, <2>3, <2>5, <3>2 DEF HoldsConsistent, StoredSession
    <3>3. QED
      BY <3>1, <3>2
  <2>6. QED
    BY <2>5 DEF HoldsConsistent
<1>2. ASSUME NEW p \in Request, Release(p) PROVE HoldsConsistent'
  <2>0. PICK h \in Token : h = task[p].token
    BY <1>2 DEF Release, Ready, Local
  <2>1. /\ p \in Holders(h) 
        /\ sessions' = IF h \in DOMAIN sessions
                       THEN [sessions EXCEPT ![h].holds = SaturatingSub(@, 1)]
                       ELSE sessions
    BY <1>2, <2>0 DEF Release, Ready, Holders, Registered, Local
  <2>2. Holders(h)' = Holders(h) \ {p}
    BY <1>2, <2>0 DEF Release, Returns, Idle, Holders, Ready, Local
  <2>3. \A t \in Token : t # h => Holders(t)' = Holders(t)
    BY <1>2, <2>0 DEF Release, Returns, Idle, Holders, Ready, Local
  <2>4. /\ Cardinality(Holders(h) \ {p}) = Cardinality(Holders(h)) - 1
        /\ Cardinality(Holders(h) \ {p}) \in Nat
    <3>1. IsFiniteSet(Holders(h) \ {p})
      BY <1>0, FS_RemoveElement
    <3>2. QED
      BY <1>0, <2>1, <3>1, FS_RemoveElement, FS_CardinalityType
  <2>5. ASSUME NEW t \in DOMAIN sessions'
        PROVE  /\ sessions'[t].holds = Cardinality(Holders(t)')
               /\ sessions'[t].state = "Expired" => sessions'[t].holds = 0
    <3>1. CASE t = h
      <4>1. sessions[h].holds = Cardinality(Holders(h)) /\ h \in DOMAIN sessions
        BY <2>1, <2>5, <3>1 DEF HoldsConsistent
      <4>2. sessions'[h].holds = sessions[h].holds - 1
        BY <1>0, <2>1, <2>4, <4>1 DEF SaturatingSub, StoredSession
      <4>3. sessions'[h].state = sessions[h].state /\ sessions[h].holds # 0
        BY <1>0, <2>1, <2>4, <4>1 DEF StoredSession
      <4>4. QED
        BY <2>2, <2>4, <3>1, <4>1, <4>2, <4>3 DEF HoldsConsistent
    <3>2. CASE t # h
      BY <2>1, <2>3, <2>5, <3>2 DEF HoldsConsistent, StoredSession
    <3>3. QED
      BY <3>1, <3>2
  <2>6. QED
    BY <2>5 DEF HoldsConsistent
<1>3. ASSUME ~ \E p \in Request : Hold(p) \/ Release(p) PROVE HoldsConsistent'
  <2>1. /\ \A t \in Token : Holders(t)' = Holders(t)
        /\ DOMAIN sessions' \subseteq Token
    BY <1>3, OtherStepsKeepHolds, TypeInductive
  <2>2. ASSUME NEW t \in DOMAIN sessions', t \in DOMAIN sessions
        PROVE  /\ sessions'[t].holds = Cardinality(Holders(t)')
               /\ sessions'[t].state = "Expired" => sessions'[t].holds = 0
    BY <1>3, <2>1, <2>2, OtherStepsKeepHolds DEF HoldsConsistent
  <2>3. ASSUME NEW t \in DOMAIN sessions', t \notin DOMAIN sessions
        PROVE  /\ sessions'[t].holds = Cardinality(Holders(t)')
               /\ sessions'[t].state = "Expired" => sessions'[t].holds = 0
    <3>1. t \notin minted /\ sessions'[t].holds = 0 /\ sessions'[t].state = "Active"
      BY <1>3, <2>3, OtherStepsKeepHolds
    <3>2. Holders(t) = {}
      BY <3>1 DEF Holders, TokensMinted
    <3>3. QED
      BY <2>1, <3>1, <3>2, FS_EmptySet
  <2>4. QED
    BY <2>2, <2>3 DEF HoldsConsistent
<1>4. QED
  BY <1>1, <1>2, <1>3

\* A creation mints its token, tells nobody before it returns, and returns once.
LEMMA ConnectingInductive ==
  ASSUME TypeOK, TokensMinted, ConnectingPrivate, [Next]_vars
  PROVE  ConnectingPrivate'
<1> USE ConstantsAssumption DEF TypeOK, Local, Task, Ready, ConnectingPrivate, Connecting
<1>1. ASSUME NEW p \in Request, NEW u \in User, NEW t \in Token, CreateRegister(p, u, t)
      PROVE  ConnectingPrivate'
  BY <1>1 DEF CreateRegister, Goes, TokensMinted
<1>2. ASSUME NEW p \in Request, Connect(p) PROVE ConnectingPrivate'
  BY <1>2 DEF Connect, Returns, Idle
<1>3. ASSUME UNCHANGED known,
             \A p \in Task : task'[p].at = "connect" => task'[p] = task[p]
      PROVE  ConnectingPrivate'
  BY <1>3
<1>4. ASSUME NEW p \in Task, Returns(p), UNCHANGED known PROVE ConnectingPrivate'
  BY <1>3, <1>4 DEF Returns, Idle
<1>5. ASSUME NEW p \in Task, NEW place \in {"create", "touch", "run", "call", "hold", "held", "sweep"},
             NEW t, NEW n, Goes(p, place, t, n), UNCHANGED known
      PROVE  ConnectingPrivate'
  BY <1>3, <1>5 DEF Goes
<1>6. QED
  BY <1>1, <1>2, <1>3, <1>4, <1>5
     DEF Next, Sweep, Continues, Connects, Answered, Arrives, vars, Tick, SweepBegin, SweepDrain,
         CreateBegin, CreateRejected, ConnectFails, ConnectCancelled, Delete, Disconnect,
         TouchBegin, Refused, FoundExpired, Touch, Dispatch, BackendDisconnects, CallReturns,
         CallFails, HoldBegin, Hold, Release

\* The registry's invariant behind the theorems below.
RegistryInv == TypeOK /\ TokensMinted /\ HoldsConsistent /\ ConnectingPrivate

LEMMA RegistryInvariant == Spec => []RegistryInv
<1>1. Init => RegistryInv
  BY ConstantsAssumption DEF Init, RegistryInv, TypeOK, TokensMinted, HoldsConsistent,
         ConnectingPrivate, Connecting, Task, Idle, Local
<1>2. RegistryInv /\ [Next]_vars => RegistryInv'
  BY TypeInductive, TokensInductive, HoldsInductive, ConnectingInductive DEF RegistryInv
<1>3. QED
  BY <1>1, <1>2, PTL DEF Spec

\* The stored hold count of a registered session is the number of its holders.
THEOREM HoldsAreAccounted == Spec => []HoldsAccounted
<1>1. RegistryInv => HoldsAccounted
  BY DEF RegistryInv, HoldsConsistent, HoldsAccounted
<1>2. QED
  BY <1>1, RegistryInvariant, PTL

-----------------------------------------------------------------------------
(* Held sessions *)

\* A held session is not expired, whatever the time: the drains of the reaper
\* and of create_session pass over it.
LEMMA HeldIsActive ==
  ASSUME RegistryInv, NEW t \in DOMAIN sessions, Holders(t) # {}, NEW n
  PROVE  t \notin ExpiredTokens(n)
<1> USE ConstantsAssumption DEF RegistryInv, TypeOK
<1>1. IsFiniteSet(Task)
  BY FS_AddElement DEF Task
<1>2. Holders(t) \in SUBSET Task
  BY DEF Holders
<1>3. IsFiniteSet(Holders(t))
  BY <1>1, <1>2, FS_Subset
<1>4. Cardinality(Holders(t)) # 0
  BY <1>3, FS_EmptySet
<1>5. QED
  BY <1>4 DEF ExpiredTokens, IsExpiredAt, HoldsConsistent

\* Only delete_session takes a held session out of the registry: the drains
\* pass over it, and a creation that rolls back removes a session nobody knows.
LEMMA HeldLeavesByDelete ==
  ASSUME RegistryInv, [Next]_vars, NEW t \in DOMAIN sessions,
         Holders(t) # {}, t \notin DOMAIN sessions'
  PROVE  \E p \in Request : Delete(p, t)
<1> USE DEF RegistryInv, TypeOK
<1>1. ~SweepDrain
  BY HeldIsActive DEF SweepDrain, Restrict, ActiveTokens
<1>2. ASSUME NEW p \in Request, NEW u \in User, NEW x \in Token, CreateRegister(p, u, x)
      PROVE  FALSE
  BY <1>2, HeldIsActive DEF CreateRegister, ActiveTokens
<1>3. sessions' # sessions
  OBVIOUS
<1>4. ASSUME NEW p \in Request, Touch(p) \/ FoundExpired(p) \/ Hold(p) \/ Release(p)
      PROVE  FALSE
  BY <1>4 DEF Touch, FoundExpired, Hold, Release
<1>5. ASSUME NEW p \in Request, ConnectFails(p) PROVE FALSE
  <2>1. task[p].token = t /\ Connecting(p)
    BY <1>5 DEF ConnectFails, Restrict, Ready, Connecting
  <2>2. t \in known
    BY DEF Holders, TokensMinted
  <2>3. QED
    BY <2>1, <2>2 DEF ConnectingPrivate, Task
<1>6. ASSUME NEW p \in Request, NEW x \in Token, Delete(p, x) PROVE x = t
  BY <1>6 DEF Delete, Restrict
<1>7. QED
  BY <1>1, <1>2, <1>3, <1>4, <1>5, <1>6
     DEF Next, Sweep, Continues, Connects, Answered, Arrives, vars, Tick, SweepBegin, CreateBegin,
         CreateRejected, Connect, ConnectCancelled, Disconnect, TouchBegin, Refused,
         Dispatch, BackendDisconnects, CallReturns, CallFails, HoldBegin

\* A session with a SessionHold is drained neither by the reaper nor by another
\* client's create_session.
THEOREM HeldSessionsStay == Spec => HeldNeverDrained
<1>1. RegistryInv /\ [Next]_vars =>
        [\A t \in DOMAIN sessions :
            Holders(t) # {} /\ t \notin DOMAIN sessions'
                => \E p \in Request : Delete(p, t)]_vars
  BY HeldLeavesByDelete
<1>2. QED
  BY <1>1, RegistryInvariant, PTL DEF Spec, HeldNeverDrained

-----------------------------------------------------------------------------
(* Connections *)

\* The task that removes a session is the only one to disconnect it, and no
\* session is disconnected that a client can still use.
ConnectionInv == KnownHasClient /\ TeardownExclusive

LEMMA ConnectionInductive ==
  ASSUME TypeOK, TokensMinted, ConnectionInv, [Next]_vars
  PROVE  ConnectionInv'
<1> USE ConstantsAssumption
    DEF TypeOK, Task, ConnectionInv, KnownHasClient, TeardownExclusive, Registered
<1>1. ASSUME UNCHANGED <<known, clients, doomed>>, DOMAIN sessions' \subseteq DOMAIN sessions
      PROVE  ConnectionInv'
  BY <1>1
<1>2. ASSUME UNCHANGED <<known, clients, doomed, sessions>> PROVE ConnectionInv'
  BY <1>2
<1>3. CASE SweepDrain
  BY <1>3 DEF SweepDrain, Ready, Restrict, ActiveTokens, ExpiredTokens
<1>4. ASSUME NEW p \in Request, NEW u \in User, NEW t \in Token, CreateRegister(p, u, t)
      PROVE  ConnectionInv'
  <2>1. /\ DOMAIN sessions' = (DOMAIN sessions \ doomed'[p]) \cup {t}
        /\ doomed'[p] \subseteq DOMAIN sessions
        /\ \A q \in Task : q # p => doomed'[q] = doomed[q]
        /\ UNCHANGED <<known, clients>> /\ t \notin minted
    BY <1>4 DEF CreateRegister, Ready, ActiveTokens, ExpiredTokens
  <2>2. KnownHasClient'
    BY <2>1 DEF TokensMinted
  <2>3. TeardownExclusive'
    BY <2>1 DEF TokensMinted
  <2>4. QED
    BY <2>2, <2>3
<1>5. ASSUME NEW p \in Request, Connect(p) PROVE ConnectionInv'
  BY <1>5 DEF Connect
<1>6. ASSUME NEW p \in Request, ConnectFails(p) PROVE ConnectionInv'
  BY <1>1, <1>6 DEF ConnectFails, Restrict
<1>7. ASSUME NEW p \in Request, NEW t \in Token, Delete(p, t) PROVE ConnectionInv'
  BY <1>7 DEF Delete, Ready, Restrict
<1>8. ASSUME NEW p \in Task, NEW t \in Token, Disconnect(p, t) PROVE ConnectionInv'
  BY <1>8 DEF Disconnect
<1>9. ASSUME NEW p \in Request, FoundExpired(p) \/ Touch(p) \/ Hold(p) \/ Release(p)
      PROVE  ConnectionInv'
  BY <1>1, <1>9 DEF FoundExpired, Touch, Hold, Release
<1>10. QED
  BY <1>2, <1>3, <1>4, <1>5, <1>6, <1>7, <1>8, <1>9
     DEF Next, Sweep, Continues, Connects, Answered, Arrives, vars, Tick, SweepBegin, CreateBegin,
         CreateRejected, ConnectCancelled, TouchBegin, Refused, Dispatch, BackendDisconnects,
         CallReturns, CallFails, HoldBegin

\* A client's registered session has its connection, and teardown happens once.
THEOREM ConnectionsSafe == Spec => [](KnownHasClient /\ TeardownExclusive)
<1>1. Init => ConnectionInv
  BY DEF Init, ConnectionInv, KnownHasClient, TeardownExclusive
<1>2. RegistryInv /\ ConnectionInv /\ [Next]_vars => ConnectionInv'
  BY ConnectionInductive DEF RegistryInv
<1>3. QED
  BY <1>1, <1>2, RegistryInvariant, PTL DEF Spec, ConnectionInv

-----------------------------------------------------------------------------
(* Orphaned connections *)

\* No reading of the clock is ahead of it, and none in use older than MaxLatency.
LEMMA TimelyInductive == TypeOK /\ Timely /\ [Next]_vars => Timely'
<1> SUFFICES ASSUME TypeOK, Timely, [Next]_vars PROVE Timely'
  OBVIOUS
<1> USE ConstantsAssumption DEF TypeOK, Local, Task, Timely, Timed
<1>1. CASE Tick
  BY <1>1 DEF Tick
<1>2. ASSUME UNCHANGED clock,
             \A p \in Task : \/ task'[p] = task[p]
                             \/ task'[p].at \notin Timed
                             \/ task'[p].now = clock
                             \/ task[p].at \in Timed /\ task'[p].now = task[p].now
      PROVE  Timely'
  BY <1>2
<1>3. ASSUME NEW p \in Task, Returns(p), UNCHANGED clock PROVE Timely'
  BY <1>2, <1>3 DEF Returns, Idle
<1>4. ASSUME NEW p \in Task, NEW place, NEW t, NEW n, Goes(p, place, t, n), UNCHANGED clock,
             \/ place \notin Timed
             \/ n = clock
             \/ task[p].at \in Timed /\ n = task[p].now
      PROVE  Timely'
  BY <1>2, <1>4 DEF Goes
<1>5. ASSUME NEW p \in Request, NEW u \in User, NEW t \in Token, CreateRegister(p, u, t)
      PROVE  Timely'
  BY <1>4, <1>5 DEF CreateRegister, Ready
<1>6. ASSUME UNCHANGED <<clock, task>> PROVE Timely'
  BY <1>6
<1>7. QED
  BY <1>1, <1>3, <1>4, <1>5, <1>6
     DEF Next, Sweep, Continues, Connects, Answered, Arrives, vars, SweepBegin, SweepDrain,
         CreateBegin, CreateRejected, Connect, ConnectFails, ConnectCancelled, Delete, Disconnect,
         TouchBegin, Refused, FoundExpired, Touch, Dispatch, BackendDisconnects, CallReturns,
         CallFails, HoldBegin, Hold, Release

\* While gvmd answers in less than the idle timeout, the session that is being
\* connected is in the registry when the connection is entered.
LEMMA ConnectingStaysRegistered ==
  ASSUME MaxLatency < IdleTimeout,
         RegistryInv, Timely, ConnectingRegistered, [Next]_vars
  PROVE  ConnectingRegistered'
<1> USE ConstantsAssumption DEF RegistryInv, TypeOK, Task, Registered
<1>1. ASSUME NEW n \in Nat, n <= clock, NEW p \in Task, Connecting(p)
      PROVE  task[p].token \in ActiveTokens(n)
  <2>1. SaturatingSub(n, sessions[task[p].token].lastUsed) < IdleTimeout
    <3>1. /\ task[p].now \in Nat /\ task[p].now <= clock
          /\ clock - task[p].now <= MaxLatency
      BY <1>1 DEF Timely, Timed, Connecting, Local
    <3>2. sessions[task[p].token].lastUsed = task[p].now
      BY <1>1 DEF ConnectingRegistered
    <3>3. QED
      BY <1>1, <3>1, <3>2 DEF SaturatingSub
  <2>2. SaturatingSub(n, sessions[task[p].token].lastUsed) \in Nat
    BY <1>1 DEF SaturatingSub, ConnectingRegistered, StoredSession
  <2>3. QED
    BY <1>1, <2>1, <2>2 DEF ConnectingRegistered, ActiveTokens, ExpiredTokens, IsExpiredAt
<1>2. ASSUME \A p \in Task : Connecting(p)' =>
                 /\ Connecting(p) /\ task'[p] = task[p]
                 /\ task[p].token \in DOMAIN sessions'
                 /\ sessions'[task[p].token] = sessions[task[p].token]
      PROVE  ConnectingRegistered'
  BY <1>2 DEF ConnectingRegistered
<1>3. ASSUME NEW p \in Task, Returns(p) PROVE
        \A q \in Task : Connecting(q)' => Connecting(q) /\ task'[q] = task[q] /\ q # p
  BY <1>3 DEF Returns, Idle, Connecting
<1>4. ASSUME NEW p \in Task, NEW place \in {"create", "touch", "run", "call", "hold", "held", "sweep"},
             NEW t, NEW n, Goes(p, place, t, n) PROVE
        \A q \in Task : Connecting(q)' => Connecting(q) /\ task'[q] = task[q] /\ q # p
  BY <1>4 DEF Goes, Connecting
<1>5. CASE SweepDrain
  <2>1. task[Reaper].now \in Nat /\ task[Reaper].now <= clock
    BY <1>5 DEF SweepDrain, Ready, Timely, Timed, Local
  <2>2. \A q \in Task : Connecting(q)' => Connecting(q) /\ task'[q] = task[q]
    BY <1>3, <1>5 DEF SweepDrain
  <2>3. \A q \in Task : Connecting(q) => task[q].token \in ActiveTokens(task[Reaper].now)
    BY <1>1, <2>1
  <2>4. QED
    BY <1>2, <1>5, <2>2, <2>3 DEF SweepDrain, Restrict
<1>6. ASSUME NEW p \in Request, NEW u \in User, NEW t \in Token, CreateRegister(p, u, t)
      PROVE  ConnectingRegistered'
  <2> DEFINE n == task[p].now
  <2>1. n \in Nat /\ n <= clock
    BY <1>6 DEF CreateRegister, Ready, Timely, Timed, Local
  <2>2. ASSUME NEW q \in Task, q # p, Connecting(q)'
        PROVE  /\ Connecting(q) /\ task'[q] = task[q]
               /\ task[q].token \in ActiveTokens(n) /\ task[q].token # t
    <3>1. Connecting(q) /\ task'[q] = task[q]
      BY <1>6, <2>2 DEF CreateRegister, Goes, Connecting
    <3>2. task[q].token \in ActiveTokens(n)
      BY <1>1, <2>1, <3>1
    <3>3. QED
      BY <1>6, <3>1, <3>2 DEF CreateRegister, TokensMinted, Connecting
  <2>3. task'[p] = [at |-> "connect", token |-> t, now |-> n]
    BY <1>6 DEF CreateRegister, Goes
  <2>4. /\ \A x \in ActiveTokens(n) : x # t => x \in DOMAIN sessions' /\ sessions'[x] = sessions[x]
        /\ t \in DOMAIN sessions' /\ sessions'[t] = NewSession(u, n)
    BY <1>6 DEF CreateRegister
  <2>5. QED
    BY <2>2, <2>3, <2>4 DEF ConnectingRegistered, NewSession
<1>7. ASSUME NEW p \in Request, ConnectFails(p) PROVE ConnectingRegistered'
  <2>1. \A q \in Task : Connecting(q)' =>
            Connecting(q) /\ task'[q] = task[q] /\ task[q].token # task[p].token
    BY <1>3, <1>7 DEF ConnectFails, ConnectingPrivate, Ready, Connecting
  <2>2. QED
    BY <1>2, <1>7, <2>1 DEF ConnectFails, Restrict, ConnectingRegistered
<1>8. ASSUME NEW p \in Request, NEW t \in Token, Delete(p, t) PROVE ConnectingRegistered'
  <2>1. \A q \in Task : Connecting(q)' =>
            Connecting(q) /\ task'[q] = task[q] /\ task[q].token # t
    BY <1>8 DEF Delete, ConnectingPrivate, Connecting
  <2>2. QED
    BY <1>2, <1>8, <2>1 DEF Delete, Restrict, ConnectingRegistered
<1>9. ASSUME NEW p \in Request, FoundExpired(p) \/ Touch(p) \/ Hold(p) \/ Release(p)
      PROVE  ConnectingRegistered'
  <2>1. \A q \in Task : Connecting(q)' =>
            Connecting(q) /\ task'[q] = task[q] /\ task[q].token # task[p].token
    <3>1. task[p].token \in known
      BY <1>9 DEF FoundExpired, Touch, Hold, Release, Ready, TokensMinted
    <3>2. QED
      BY <1>3, <1>4, <1>9, <3>1 DEF FoundExpired, Touch, Hold, Release, ConnectingPrivate
  <2>2. \A x \in DOMAIN sessions : x # task[p].token =>
            x \in DOMAIN sessions' /\ sessions'[x] = sessions[x]
    BY <1>9 DEF FoundExpired, Touch, Hold, Release
  <2>3. QED
    BY <1>2, <2>1, <2>2 DEF ConnectingRegistered
<1>10. ASSUME UNCHANGED sessions,
              \A q \in Task : Connecting(q)' => Connecting(q) /\ task'[q] = task[q]
       PROVE  ConnectingRegistered'
  BY <1>2, <1>10 DEF ConnectingRegistered
<1>11. ASSUME UNCHANGED <<sessions, task>> PROVE ConnectingRegistered'
  BY <1>11 DEF ConnectingRegistered, Connecting
<1>12. QED
  BY <1>3, <1>4, <1>5, <1>6, <1>7, <1>8, <1>9, <1>10, <1>11
     DEF Next, Sweep, Continues, Connects, Answered, Arrives, vars, Tick, SweepBegin, CreateBegin,
         CreateRejected, Connect, ConnectCancelled, Disconnect, TouchBegin, Refused,
         Dispatch, BackendDisconnects, CallReturns, CallFails, HoldBegin

\* A connection is entered for a session that is registered and whose token
\* becomes known; whoever removes a known session has its connection to close.
LEMMA OrphansInductive ==
  ASSUME RegistryInv, ConnectingRegistered, NoOrphanClient, clients \subseteq known,
         [Next]_vars
  PROVE  NoOrphanClient' /\ clients' \subseteq known'
<1> USE ConstantsAssumption DEF RegistryInv, TypeOK, Task, NoOrphanClient, Registered
<1> DEFINE Goal == NoOrphanClient' /\ clients' \subseteq known'
<1>1. ASSUME UNCHANGED <<known, clients, doomed>>, DOMAIN sessions \subseteq DOMAIN sessions'
      PROVE  Goal
  BY <1>1
<1>2. ASSUME UNCHANGED <<known, clients, doomed, sessions>> PROVE Goal
  BY <1>2
<1>3. CASE SweepDrain
  BY <1>3 DEF SweepDrain, Ready, Restrict, ActiveTokens, ExpiredTokens
<1>4. ASSUME NEW p \in Request, NEW u \in User, NEW t \in Token, CreateRegister(p, u, t)
      PROVE  Goal
  <2>1. /\ DOMAIN sessions \subseteq DOMAIN sessions' \cup doomed'[p]
        /\ doomed[p] = {} /\ \A q \in Task : q # p => doomed'[q] = doomed[q]
        /\ UNCHANGED <<known, clients>>
    BY <1>4 DEF CreateRegister, Ready, ActiveTokens, ExpiredTokens
  <2>2. QED
    BY <2>1
<1>5. ASSUME NEW p \in Request, Connect(p) PROVE Goal
  BY <1>5 DEF Connect, Ready, ConnectingRegistered, Connecting
<1>6. ASSUME NEW p \in Request, ConnectFails(p) PROVE Goal
  <2>1. task[p].token \notin known
    BY <1>6 DEF ConnectFails, Ready, ConnectingPrivate, Connecting
  <2>2. QED
    BY <1>6, <2>1 DEF ConnectFails, Restrict
<1>7. ASSUME NEW p \in Request, NEW t \in Token, Delete(p, t) PROVE Goal
  BY <1>7 DEF Delete, Ready, Restrict
<1>8. ASSUME NEW p \in Task, NEW t \in Token, Disconnect(p, t) PROVE Goal
  BY <1>8 DEF Disconnect
<1>9. ASSUME NEW p \in Request, FoundExpired(p) \/ Touch(p) \/ Hold(p) \/ Release(p)
      PROVE  Goal
  BY <1>1, <1>9 DEF FoundExpired, Touch, Hold, Release
<1>10. QED
  BY <1>2, <1>3, <1>4, <1>5, <1>6, <1>7, <1>8, <1>9
     DEF Next, Sweep, Continues, Connects, Answered, Arrives, vars, Tick, SweepBegin, CreateBegin,
         CreateRejected, ConnectCancelled, TouchBegin, Refused, Dispatch, BackendDisconnects,
         CallReturns, CallFails, HoldBegin

\* While gvmd answers a connection attempt in less than the idle timeout, every
\* connection in the adapter's map belongs to a registered session or is about
\* to be closed.  (Without that assumption the run "orphan" refutes it.)
THEOREM NoOrphans ==
  ASSUME MaxLatency < IdleTimeout
  PROVE  Spec => []NoOrphanClient
<1> DEFINE Inv == Timely /\ ConnectingRegistered /\ NoOrphanClient /\ clients \subseteq known
<1>1. Init => Inv
  BY ConstantsAssumption
     DEF Init, Timely, Timed, ConnectingRegistered, Connecting, NoOrphanClient, Idle
<1>2. RegistryInv /\ Inv /\ [Next]_vars => Inv'
  BY TimelyInductive, ConnectingStaysRegistered, OrphansInductive DEF RegistryInv
<1>3. QED
  BY <1>1, <1>2, RegistryInvariant, PTL DEF Spec

-----------------------------------------------------------------------------
(* Idle sessions *)

\* A session is stored with a reading of the clock that was taken before.
LEMMA UsedInductive == TypeOK /\ Timely /\ UsedBefore /\ [Next]_vars => UsedBefore'
<1> SUFFICES ASSUME TypeOK, Timely, UsedBefore, [Next]_vars PROVE UsedBefore'
  OBVIOUS
<1> USE ConstantsAssumption
<1> DEFINE Kept(t) == /\ t \in DOMAIN sessions
                      /\ sessions'[t].lastUsed = sessions[t].lastUsed
                      /\ sessions'[t].usedAt = sessions[t].usedAt
           Used(t) == /\ sessions'[t].lastUsed \in Nat /\ sessions'[t].lastUsed <= clock
                      /\ clock - sessions'[t].lastUsed <= MaxLatency
                      /\ sessions'[t].usedAt = clock
<1>1. ASSUME clock' \in {clock, clock + 1}, \A t \in DOMAIN sessions' : Kept(t) \/ Used(t)
      PROVE  UsedBefore'
  <2>1. clock \in Nat /\ MaxLatency \in Nat
    BY DEF TypeOK
  <2>2. ASSUME NEW t \in DOMAIN sessions', Kept(t)
        PROVE  /\ sessions'[t].lastUsed <= clock' /\ sessions'[t].usedAt <= clock'
               /\ sessions'[t].usedAt <= sessions'[t].lastUsed + MaxLatency
    BY <1>1, <2>1, <2>2 DEF TypeOK, StoredSession, UsedBefore
  <2>3. ASSUME NEW t \in DOMAIN sessions', Used(t)
        PROVE  /\ sessions'[t].lastUsed <= clock' /\ sessions'[t].usedAt <= clock'
               /\ sessions'[t].usedAt <= sessions'[t].lastUsed + MaxLatency
    BY <1>1, <2>1, <2>3
  <2>4. QED
    BY <1>1, <2>2, <2>3 DEF UsedBefore
<1>2. CASE Tick
  BY <1>1, <1>2 DEF Tick
<1>3. ASSUME UNCHANGED <<clock, sessions>> PROVE UsedBefore'
  BY <1>3 DEF UsedBefore
<1>4. \A p \in Task : task[p].at \in Timed =>
        task[p].now \in Nat /\ task[p].now <= clock /\ clock - task[p].now <= MaxLatency
  BY DEF TypeOK, Local, Timely
<1>5. ASSUME NEW p \in Request, NEW u \in User, NEW t \in Token, CreateRegister(p, u, t)
      PROVE  UsedBefore'
  <2>1. task[p].now \in Nat /\ task[p].now <= clock /\ clock - task[p].now <= MaxLatency
    BY <1>4, <1>5 DEF CreateRegister, Ready, Task, Timed
  <2>2. UNCHANGED clock /\ \A x \in DOMAIN sessions' :
           Kept(x) \/ (sessions'[x].lastUsed = task[p].now /\ sessions'[x].usedAt = clock)
    BY <1>5 DEF CreateRegister, NewSession, ActiveTokens
  <2>3. QED
    BY <1>1, <2>1, <2>2
<1>6. ASSUME NEW p \in Request, Touch(p) \/ Hold(p) PROVE UsedBefore'
  <2>1. task[p].now \in Nat /\ task[p].now <= clock /\ clock - task[p].now <= MaxLatency
    BY <1>4, <1>6 DEF Touch, Hold, Ready, Task, Timed
  <2>2. UNCHANGED clock /\ \A x \in DOMAIN sessions' :
           Kept(x) \/ (sessions'[x].lastUsed = task[p].now /\ sessions'[x].usedAt = clock)
    BY <1>6 DEF Touch, Hold, TypeOK, StoredSession
  <2>3. QED
    BY <1>1, <2>1, <2>2
<1>7. ASSUME NEW p \in Request, FoundExpired(p) \/ Release(p) PROVE UsedBefore'
  <2>1. UNCHANGED clock /\ \A x \in DOMAIN sessions' : Kept(x)
    BY <1>7 DEF FoundExpired, Release, TypeOK, StoredSession
  <2>2. QED
    BY <1>1, <2>1
<1>8. ASSUME UNCHANGED clock, DOMAIN sessions' \subseteq DOMAIN sessions,
             \A x \in DOMAIN sessions' : sessions'[x] = sessions[x]
      PROVE  UsedBefore'
  BY <1>8 DEF UsedBefore
<1>9. CASE SweepDrain
  BY <1>8, <1>9 DEF SweepDrain, Restrict, ActiveTokens
<1>10. ASSUME NEW p \in Request, ConnectFails(p) \/ \E t \in Token : Delete(p, t)
       PROVE  UsedBefore'
  BY <1>8, <1>10 DEF ConnectFails, Delete, Restrict
<1>11. QED
  BY <1>2, <1>3, <1>5, <1>6, <1>7, <1>9, <1>10
     DEF Next, Sweep, Continues, Connects, Answered, Arrives, vars, SweepBegin,
         CreateBegin, CreateRejected, Connect, ConnectCancelled, Disconnect,
         TouchBegin, Refused, Dispatch, BackendDisconnects, CallReturns, CallFails, HoldBegin

\* Whatever reading of the clock a drain or a refusal judges by, stale or not,
\* the sessions it finds idle have not been used for the idle timeout, but for
\* the latency of the task that used them last.
LEMMA ExpiredIsIdle ==
  ASSUME TypeOK, UsedBefore, NEW n \in Nat, n <= clock, NEW t \in DOMAIN sessions,
         IsExpiredAt(sessions[t], n), sessions[t].state = "Active"
  PROVE  clock + MaxLatency - sessions[t].usedAt >= IdleTimeout
<1>1. /\ sessions[t].lastUsed \in Nat /\ sessions[t].lastUsed <= clock /\ clock \in Nat
      /\ sessions[t].usedAt \in Nat /\ sessions[t].usedAt <= clock
      /\ sessions[t].usedAt <= sessions[t].lastUsed + MaxLatency
  BY DEF UsedBefore, TypeOK, StoredSession
<1>2. SaturatingSub(n, sessions[t].lastUsed) >= IdleTimeout
  BY DEF IsExpiredAt
<1>3. QED
  BY <1>1, <1>2, ConstantsAssumption DEF SaturatingSub

\* An active session a client knows ends by delete_session or for being idle.
LEMMA IdleLeavesByDrain ==
  ASSUME RegistryInv, Timely, UsedBefore, [Next]_vars, NEW t \in DOMAIN sessions,
         t \in known, sessions[t].state = "Active",
         t \in DOMAIN sessions' => sessions'[t].state = "Expired"
  PROVE  \/ \E p \in Request : Delete(p, t)
         \/ clock + MaxLatency - sessions[t].usedAt >= IdleTimeout
<1> DEFINE Goal == \/ \E p \in Request : Delete(p, t)
                   \/ clock + MaxLatency - sessions[t].usedAt >= IdleTimeout
<1>1. \A p \in Task : task[p].at \in Timed => task[p].now \in Nat /\ task[p].now <= clock
  BY DEF RegistryInv, TypeOK, Local, Timely
<1>2. ASSUME SweepDrain PROVE Goal
  <2>1. IsExpiredAt(sessions[t], task[Reaper].now) /\ task[Reaper].at = "sweep"
    BY <1>2 DEF SweepDrain, Restrict, ActiveTokens, ExpiredTokens, Ready
  <2>2. QED
    BY <1>1, <2>1, ExpiredIsIdle DEF RegistryInv, Task, Timed
<1>3. ASSUME NEW p \in Request, NEW u \in User, NEW x \in Token, CreateRegister(p, u, x)
      PROVE  Goal
  <2>1. t # x
    BY <1>3 DEF CreateRegister, RegistryInv, TokensMinted
  <2>2. IsExpiredAt(sessions[t], task[p].now) /\ task[p].at = "create"
    BY <1>3, <2>1 DEF CreateRegister, ActiveTokens, ExpiredTokens, Ready
  <2>3. QED
    BY <1>1, <2>2, ExpiredIsIdle DEF RegistryInv, Task, Timed
<1>4. sessions' # sessions
  OBVIOUS
<1>5. ASSUME NEW p \in Request, Touch(p) \/ Hold(p) \/ Release(p) PROVE FALSE
  BY <1>5 DEF Touch, Hold, Release, RegistryInv, TypeOK, StoredSession
<1>6. ASSUME NEW p \in Request, FoundExpired(p) PROVE Goal
  <2>1. task[p].token = t
    BY <1>6 DEF FoundExpired, RegistryInv, TypeOK, StoredSession
  <2>2. IsExpiredAt(sessions[t], task[p].now) /\ task[p].at \in Timed
    BY <1>6, <2>1 DEF FoundExpired, Ready, Timed
  <2>3. QED
    BY <1>1, <2>2, ExpiredIsIdle DEF RegistryInv, Task
<1>7. ASSUME NEW p \in Request, ConnectFails(p) PROVE FALSE
  <2>1. task[p].token = t /\ Connecting(p)
    BY <1>7 DEF ConnectFails, Restrict, Ready, Connecting
  <2>2. QED
    BY <2>1 DEF RegistryInv, ConnectingPrivate, Task
<1>8. ASSUME NEW p \in Request, NEW x \in Token, Delete(p, x) PROVE Goal
  <2>1. x = t
    BY <1>8 DEF Delete, Restrict
  <2>2. QED
    BY <1>8, <2>1
<1> HIDE DEF Goal
<1>9. Goal
  BY <1>2, <1>3, <1>4, <1>5, <1>6, <1>7, <1>8
     DEF Next, Sweep, Continues, Connects, Answered, Arrives, vars, Tick, SweepBegin, CreateBegin,
         CreateRejected, Connect, ConnectCancelled, Disconnect, TouchBegin, Refused,
         Dispatch, BackendDisconnects, CallReturns, CallFails, HoldBegin
<1>10. QED
  BY <1>9 DEF Goal

\* A session a client uses ends only when the client deletes it or when it has
\* not been used for the idle timeout, up to the latency of the task that used
\* it last: a drain that judges by a stale reading is late, never early
\* (saturating_sub in is_expired_at), and a touch that stores a stale reading
\* is behind by no more than that latency.
THEOREM OnlyIdleSessionsDrained == Spec => DrainedOnlyWhenIdle
<1>1. Init => Timely /\ UsedBefore
  BY ConstantsAssumption DEF Init, Timely, Timed, UsedBefore, Idle
<1>2. RegistryInv /\ Timely /\ UsedBefore /\ [Next]_vars => Timely' /\ UsedBefore'
  BY TimelyInductive, UsedInductive DEF RegistryInv
<1>3. RegistryInv /\ Timely /\ UsedBefore /\ [Next]_vars =>
        [\A t \in known \cap DOMAIN sessions :
            /\ sessions[t].state = "Active"
            /\ t \in DOMAIN sessions' => sessions'[t].state = "Expired"
            => \/ \E p \in Request : Delete(p, t)
               \/ clock + MaxLatency - sessions[t].usedAt >= IdleTimeout]_vars
  BY IdleLeavesByDrain
<1>4. QED
  BY <1>1, <1>2, <1>3, RegistryInvariant, PTL DEF Spec, DrainedOnlyWhenIdle

-----------------------------------------------------------------------------
(* The registry implements the contract *)

\* A token is being closed from its delete_session to its disconnection: no
\* other step begins or ends that.
LEMMA OtherStepsKeepClosing ==
  ASSUME TypeOK, [Next]_vars,
         ~ \E p \in Request, t \in Token : Delete(p, t),
         ~ \E p \in Task, t \in Token : Disconnect(p, t)
  PROVE  Closing' = Closing
<1> USE ConstantsAssumption DEF TypeOK, Task
<1>1. ASSUME UNCHANGED doomed,
             \A p \in Request : task'[p].at = task[p].at \/ doomed[p] = {}
      PROVE  Closing' = Closing
  BY <1>1 DEF Closing
<1>2. ASSUME NEW p \in Request, NEW u \in User, NEW t \in Token, CreateRegister(p, u, t)
      PROVE  Closing' = Closing
  <2>1. /\ task[p].at = "create" /\ task'[p].at = "connect"
        /\ \A q \in Request : q # p => task'[q] = task[q] /\ doomed'[q] = doomed[q]
    BY <1>2 DEF CreateRegister, Ready, Goes
  <2>2. QED
    BY <2>1 DEF Closing
<1>3. CASE SweepDrain
  <2>1. \A q \in Request : task'[q] = task[q] /\ doomed'[q] = doomed[q]
    BY <1>3 DEF SweepDrain, Ready, Returns
  <2>2. QED
    BY <2>1 DEF Closing
<1>4. CASE SweepBegin
  BY <1>1, <1>4 DEF SweepBegin, Goes
<1>5. ASSUME NEW p \in Task, doomed[p] = {}, UNCHANGED doomed,
             Returns(p) \/ \E place, t, n : Goes(p, place, t, n)
      PROVE  Closing' = Closing
  BY <1>1, <1>5 DEF Returns, Goes
<1>6. ASSUME NEW p \in Request,
             \/ CreateBegin(p) \/ (\E u \in User : CreateRejected(p, u)) \/ Connect(p)
             \/ ConnectFails(p) \/ ConnectCancelled(p) \/ (\E t \in Token : TouchBegin(p, t))
             \/ Refused(p) \/ FoundExpired(p) \/ Touch(p) \/ Dispatch(p) \/ CallReturns(p)
             \/ CallFails(p) \/ HoldBegin(p) \/ Hold(p) \/ Release(p)
      PROVE  Closing' = Closing
  <2>1. doomed[p] = {} /\ UNCHANGED doomed
    BY <1>6 DEF CreateBegin, CreateRejected, Connect, ConnectFails, ConnectCancelled,
                TouchBegin, Refused, FoundExpired, Touch, Dispatch, CallReturns, CallFails,
                HoldBegin, Hold, Release, Ready
  <2>2. Returns(p) \/ \E place, t, n : Goes(p, place, t, n)
    BY <1>6 DEF CreateBegin, CreateRejected, Connect, ConnectFails, ConnectCancelled,
                TouchBegin, Refused, FoundExpired, Touch, Dispatch, CallReturns, CallFails,
                HoldBegin, Hold, Release
  <2>3. QED
    BY <1>5, <2>1, <2>2
<1>7. ASSUME UNCHANGED <<task, doomed>> PROVE Closing' = Closing
  BY <1>7 DEF Closing
<1>8. QED
  BY <1>2, <1>3, <1>4, <1>6, <1>7
     DEF Next, Sweep, Continues, Connects, Answered, Arrives, vars, Tick, BackendDisconnects

\* Sessions that nobody holds are taken out: the contract drains them.
LEMMA ContractDrain ==
  ASSUME TypeOK, TokensMinted, NEW S \in SUBSET DOMAIN sessions, \A x \in S : Holders(x) = {},
         DOMAIN sessions' = DOMAIN sessions \ S, UNCHANGED minted, Closing' = Closing,
         \A t \in Token : Holders(t)' = Holders(t)
  PROVE  Contract!Drain(S)
BY DEF Contract!Drain, TypeOK, TokensMinted

\* delete_session closes the token, held or not.
LEMMA DeleteCloses ==
  ASSUME RegistryInv, NEW p \in Request, NEW t \in Token, Delete(p, t)
  PROVE  Contract!Next
<1> USE ConstantsAssumption DEF RegistryInv, TypeOK, Task
<1>1. DOMAIN sessions' = DOMAIN sessions \ {t} /\ UNCHANGED minted /\ t \in DOMAIN sessions
  BY DEF Delete, Restrict, Registered
<1>2. \A x \in Token : Holders(x)' = Holders(x)
  BY DEF Delete, Holders
<1>3. Closing' = Closing \cup {t}
  BY DEF Delete, Ready, Closing
<1>4. Contract!Close(t)
  BY <1>1, <1>2, <1>3 DEF Contract!Close, TokensMinted
<1>5. QED
  BY <1>1, <1>4 DEF Contract!Next

\* Its disconnection is the end of that; another task's changes nothing in the
\* contract.
LEMMA DisconnectCloses ==
  ASSUME RegistryInv, TeardownExclusive, NEW p \in Task, NEW t \in Token, Disconnect(p, t)
  PROVE  [Contract!Next]_(Contract!contractVars)
<1> USE ConstantsAssumption DEF RegistryInv, TypeOK, Task
<1>1. UNCHANGED <<sessions, minted>> /\ \A x \in Token : Holders(x)' = Holders(x)
  BY DEF Disconnect, Holders
<1>2. CASE p \in Request /\ task[p].at = "idle"
  <2>1. t \in Closing
    BY <1>2 DEF Disconnect, Closing
  <2>2. Closing' = Closing \ {t}
    <3>1. \A q \in Request : doomed'[q] = doomed[q] \ {t}
      BY DEF Disconnect, TeardownExclusive
    <3>2. QED
      BY <3>1 DEF Disconnect, Closing
  <2>3. Contract!Closed(t)
    BY <1>1, <2>1, <2>2 DEF Contract!Closed
  <2>4. QED
    BY <2>1, <2>3 DEF Contract!Next
<1>3. CASE ~(p \in Request /\ task[p].at = "idle")
  <2>1. Closing' = Closing
    BY <1>3 DEF Disconnect, Closing
  <2>2. QED
    BY <1>1, <2>1 DEF Contract!contractVars
<1>4. QED
  BY <1>2, <1>3

\* Every other step of the registry is a step of the contract or changes
\* nothing in it.
LEMMA OtherStepsKeepContract ==
  ASSUME RegistryInv, GlobalLimitKept', [Next]_vars,
         ~ \E p \in Request, t \in Token : Delete(p, t),
         ~ \E p \in Task, t \in Token : Disconnect(p, t)
  PROVE  [Contract!Next]_(Contract!contractVars)
<1> USE ConstantsAssumption DEF RegistryInv, TypeOK, Task
<1>c. Closing' = Closing
  BY OtherStepsKeepClosing
<1> DEFINE SameHolders == \A t \in Token : Holders(t)' = Holders(t)
<1>1. ASSUME ~ \E p \in Request : Hold(p) \/ Release(p) PROVE SameHolders
  BY <1>1, OtherStepsKeepHolds
<1>2. \A n : ExpiredTokens(n) \subseteq DOMAIN sessions /\ \A x \in ExpiredTokens(n) : Holders(x) = {}
  BY HeldIsActive DEF ExpiredTokens
<1>3. CASE SweepDrain
  <2> DEFINE S == ExpiredTokens(task[Reaper].now)
  <2>1. DOMAIN sessions' = DOMAIN sessions \ S /\ UNCHANGED minted
    BY <1>3 DEF SweepDrain, Restrict, ActiveTokens, ExpiredTokens
  <2>2. SameHolders
    BY <1>3 DEF SweepDrain, Returns, Ready, Idle, Holders
  <2>3. Contract!Drain(S)
    BY <1>2, <1>c, <2>1, <2>2, ContractDrain
  <2>4. QED
    BY <1>2, <2>3 DEF Contract!Next
<1>4. ASSUME NEW p \in Request, NEW u \in User, NEW t \in Token, CreateRegister(p, u, t)
      PROVE  Contract!Next
  <2> DEFINE S == ExpiredTokens(task[p].now)
  <2>1. /\ DOMAIN sessions' = (DOMAIN sessions \ S) \cup {t}
        /\ minted' = minted \cup {t} /\ t \notin minted
    BY <1>4 DEF CreateRegister, ActiveTokens
  <2>2. SameHolders
    BY <1>4 DEF CreateRegister, Goes, Ready, Holders
  <2>3. minted' \ DOMAIN sessions' = (minted \ DOMAIN sessions) \cup S
    BY <1>2, <2>1 DEF TokensMinted
  <2>4. Contract!Fits(DOMAIN sessions')
    <3>1. Contract!Cardinality(DOMAIN sessions') = Cardinality(DOMAIN sessions')
      BY DEF Contract!Cardinality, Cardinality
    <3>2. QED
      BY <3>1 DEF Contract!Fits, GlobalLimitKept
  <2>5. Contract!Open(t, S)
    BY <1>2, <1>c, <2>1, <2>2, <2>3, <2>4 DEF Contract!Open, TokensMinted
  <2>6. QED
    BY <1>2, <2>5 DEF Contract!Next
<1>6. ASSUME NEW p \in Request, ConnectFails(p)
      PROVE  [Contract!Next]_(Contract!contractVars)
  <2>1. PICK t \in Token : t = task[p].token
    BY <1>6 DEF ConnectFails, Ready, Local
  <2>2. DOMAIN sessions' = DOMAIN sessions \ {t} /\ UNCHANGED minted
    BY <1>6, <2>1 DEF ConnectFails, Restrict
  <2>3. SameHolders
    BY <1>6 DEF ConnectFails, Returns, Ready, Idle, Holders
  <2>4. Holders(t) = {}
    BY <1>6, <2>1 DEF ConnectFails, Ready, Connecting, ConnectingPrivate, TokensMinted, Holders
  <2>5. CASE t \in DOMAIN sessions
    <3>1. {t} \in SUBSET DOMAIN sessions /\ \A x \in {t} : Holders(x) = {}
      BY <2>4, <2>5
    <3>2. Contract!Drain({t})
      BY <1>c, <2>2, <2>3, <3>1, ContractDrain
    <3>3. QED
      BY <3>1, <3>2 DEF Contract!Next
  <2>6. CASE t \notin DOMAIN sessions
    BY <1>c, <2>2, <2>3, <2>6 DEF Contract!contractVars
  <2>7. QED
    BY <2>5, <2>6
<1>8. ASSUME NEW p \in Request, Hold(p) PROVE Contract!Next
  <2>1. PICK h \in Token : h = task[p].token
    BY <1>8 DEF Hold, Ready, Local
  <2>2. h \in DOMAIN sessions /\ \A x \in Token : p \notin Holders(x)
    BY <1>8, <2>1 DEF Hold, Ready, Registered, Holders
  <2>3. DOMAIN sessions' = DOMAIN sessions /\ UNCHANGED minted
    BY <1>8 DEF Hold
  <2>4. Holders(h)' = Holders(h) \cup {p}
    BY <1>8, <2>1 DEF Hold, Goes, Holders, Ready, Local
  <2>5. \A t \in Token : t # h => Holders(t)' = Holders(t)
    BY <1>8, <2>1 DEF Hold, Goes, Holders, Ready, Local
  <2>6. Contract!Join(p, h)
    BY <1>c, <2>2, <2>3, <2>4, <2>5 DEF Contract!Join
  <2>7. QED
    BY <2>2, <2>6 DEF Contract!Next
<1>9. ASSUME NEW p \in Request, Release(p) PROVE Contract!Next
  <2>1. PICK h \in Token : h = task[p].token
    BY <1>9 DEF Release, Ready, Local
  <2>2. p \in Holders(h)
    BY <1>9, <2>1 DEF Release, Ready, Holders
  <2>3. DOMAIN sessions' = DOMAIN sessions /\ UNCHANGED minted
    BY <1>9 DEF Release
  <2>4. Holders(h)' = Holders(h) \ {p}
    BY <1>9, <2>1 DEF Release, Returns, Idle, Holders, Ready, Local
  <2>5. \A t \in Token : t # h => Holders(t)' = Holders(t)
    BY <1>9, <2>1 DEF Release, Returns, Idle, Holders, Ready, Local
  <2>6. Contract!Leave(p, h)
    BY <1>c, <2>2, <2>3, <2>4, <2>5 DEF Contract!Leave
  <2>7. QED
    BY <2>6 DEF Contract!Next
<1>10. ASSUME SameHolders, DOMAIN sessions' = DOMAIN sessions, UNCHANGED minted
       PROVE  [Contract!Next]_(Contract!contractVars)
  BY <1>c, <1>10 DEF Contract!contractVars
<1>11. ASSUME NEW p \in Request, FoundExpired(p) \/ Touch(p)
       PROVE  [Contract!Next]_(Contract!contractVars)
  <2>1. DOMAIN sessions' = DOMAIN sessions /\ UNCHANGED minted
    BY <1>11 DEF FoundExpired, Touch
  <2>2. SameHolders
    BY <1>11 DEF FoundExpired, Touch, Goes, Returns, Idle, Ready, Holders
  <2>3. QED
    BY <1>10, <2>1, <2>2
<1>12. ASSUME ~ \E p \in Request : Hold(p) \/ Release(p), UNCHANGED <<sessions, minted>>
       PROVE  [Contract!Next]_(Contract!contractVars)
  BY <1>1, <1>10, <1>12
<1>13. QED
  BY <1>3, <1>4, <1>6, <1>8, <1>9, <1>11, <1>12
     DEF Next, Sweep, Continues, Connects, Answered, Arrives, vars, Tick, SweepBegin, CreateBegin,
         CreateRejected, Connect, ConnectCancelled, TouchBegin, Refused,
         Dispatch, BackendDisconnects, CallReturns, CallFails, HoldBegin, Task

\* SessionManager, with the use cases, the reaper and the workers around it,
\* implements the contract its users rely on: a token that is held ends only by
\* delete_session.
THEOREM RegistryImplementsContract == Spec => RegistryKeepsContract
<1>1. Init => Contract!Init
  <2>1. Init => \A t \in Token : Holders(t) = {}
    BY DEF Init, Holders, Idle
  <2>2. Init => Closing = {}
    BY DEF Init, Closing, Task
  <2>3. QED
    BY <2>1, <2>2 DEF Init, Contract!Init
<1>2. RegistryInv /\ TeardownExclusive /\ GlobalLimitKept' /\ [Next]_vars
        => [Contract!Next]_(Contract!contractVars)
  BY DeleteCloses, DisconnectCloses, OtherStepsKeepContract
<1>3. QED
  BY <1>1, <1>2, RegistryInvariant, ConnectionsSafe, CapacitySafe, PTL
     DEF Spec, RegistryKeepsContract, Contract!Spec
=============================================================================
