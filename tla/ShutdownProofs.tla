--------------------------- MODULE ShutdownProofs ---------------------------
(***************************************************************************)
(* Theorems about Shutdown, for any finite set of requests, on memory that *)
(* is ordered and on memory that is weak.                                  *)
(***************************************************************************)
EXTENDS Shutdown, TLAPS, FiniteSetTheorems

-----------------------------------------------------------------------------
(* The count of requests in flight *)

\* The places of TypeOK, and a count that is exact.
CountInv == TypeOK /\ InFlightExact

\* The latest of the values, and what a change appends to them.
LEMMA LatestCount ==
  ASSUME counts \in Seq(Nat), counts # <<>>
  PROVE  inFlight \in Nat /\ Len(counts) \in Nat \ {0}
BY DEF inFlight

LEMMA ChangesCount ==
  ASSUME TypeOK, NEW t \in Task, NEW by \in Int, inFlight + by \in Nat, Changes(t, by)
  PROVE  /\ counts' \in Seq(Nat) /\ counts' # <<>>
         /\ inFlight' = inFlight + by
         /\ told' \subseteq Task /\ carried' \in BOOLEAN
         /\ view' \in [Task -> 1..Len(counts)']
<1> USE DEF TypeOK, Changes
<1>1. counts' = Append(counts, inFlight + by) /\ Len(counts') = Len(counts) + 1
  OBVIOUS
<1>2. counts' \in Seq(Nat) /\ counts'[Len(counts) + 1] = inFlight + by
  BY <1>1
<1>3. inFlight' = inFlight + by
  BY <1>1, <1>2 DEF inFlight
<1>4. view' \in [Task -> 1..Len(counts)']
  BY <1>1
<1>5. QED
  BY <1>1, <1>2, <1>3, <1>4

\* The latest value is always one of those a load may return.
LEMMA ReadableIndex ==
  ASSUME TypeOK, NEW t \in Task, NEW i \in Readable(t)
  PROVE  i \in 1..Len(counts)
BY DEF TypeOK, Readable

LEMMA NotifyTypes ==
  ASSUME TypeOK, NEW t \in Task, NotifyWaiters(t)
  PROVE  /\ server' \in {"serving", "check", "register", "asleep", "finishing"} \cup Ended
         /\ view' \in [Task -> 1..Len(counts)]
BY DEF TypeOK, NotifyWaiters, Task

\* try_track_request counts a request once and finish_request counts it out
\* once, on every way through the gate.
LEMMA CountInductive == CountInv /\ [Next]_vars => CountInv'
<1> SUFFICES ASSUME CountInv, [Next]_vars PROVE CountInv'
  OBVIOUS
<1> USE ShutdownAssumption DEF CountInv, Waiter, Ended
<1>0. IsFiniteSet(Counted)
  BY FS_Subset DEF Counted
<1>t. TypeOK /\ inFlight \in Nat /\ Request \subseteq Task /\ Signal \in Task /\ Waiter \subseteq Task
  BY LatestCount DEF TypeOK, Task
<1>1. ASSUME NEW r \in Request, Count(r) PROVE CountInv'
  <2>1. Counted' = Counted \cup {r} /\ r \notin Counted
    BY <1>1, <1>t DEF Count, RequestGoes, Counted, TypeOK
  <2>2. Cardinality(Counted \cup {r}) = Cardinality(Counted) + 1
    BY <1>0, <2>1, FS_AddElement
  <2>3. Changes(r, 1) /\ inFlight + 1 \in Nat /\ r \in Task
    BY <1>1, <1>t DEF Count
  <2>4. /\ counts' \in Seq(Nat) /\ counts' # <<>> /\ inFlight' = inFlight + 1
        /\ told' \subseteq Task /\ carried' \in BOOLEAN /\ view' \in [Task -> 1..Len(counts)']
    BY <1>t, <2>3, ChangesCount
  <2>5. InFlightExact'
    BY <2>1, <2>2, <2>4 DEF InFlightExact
  <2>6. TypeOK'
    BY <1>1, <1>t, <2>4 DEF Count, RequestGoes, TypeOK
  <2>7. QED
    BY <2>5, <2>6
<1>2. ASSUME NEW r \in Request, Uncount(r) PROVE CountInv'
  <2>1. Counted' = Counted \ {r} /\ r \in Counted
    BY <1>2, <1>t DEF Uncount, RequestGoes, Counted, TypeOK
  <2>2. Cardinality(Counted \ {r}) = Cardinality(Counted) - 1
    BY <1>0, <2>1, FS_RemoveElement
  <2>3. Cardinality(Counted \ {r}) \in Nat
    BY <1>0, FS_RemoveElement, FS_CardinalityType
  <2>4. Changes(r, -1) /\ inFlight + (-1) \in Nat /\ r \in Task
    BY <1>2, <1>t, <2>2, <2>3 DEF Uncount, InFlightExact
  <2>5. /\ counts' \in Seq(Nat) /\ counts' # <<>> /\ inFlight' = inFlight + (-1)
        /\ told' \subseteq Task /\ carried' \in BOOLEAN /\ view' \in [Task -> 1..Len(counts)']
    BY <1>t, <2>4, ChangesCount
  <2>6. InFlightExact'
    BY <1>t, <2>1, <2>2, <2>5 DEF InFlightExact
  <2>7. TypeOK'
    BY <1>2, <1>t, <2>5 DEF Uncount, RequestGoes, TypeOK
  <2>8. QED
    BY <2>6, <2>7
<1>3. ASSUME UNCHANGED counts, Counted' = Counted PROVE InFlightExact'
  BY <1>3 DEF InFlightExact, inFlight
<1>4. ASSUME NEW r \in Request,
             \/ Bypass(r) \/ FirstCheck(r) \/ SecondCheck(r) \/ Complete(r)
             \/ CloseConnection(r)
      PROVE  CountInv'
  <2>1. Counted' = Counted /\ UNCHANGED counts
    BY <1>4, <1>t DEF Bypass, FirstCheck, SecondCheck, Complete, CloseConnection, RequestGoes,
                      Counted, TypeOK
  <2>2. told' \subseteq Task /\ UNCHANGED <<carried, view, counts, server, memory>>
    BY <1>4, <1>t DEF Bypass, FirstCheck, SecondCheck, Complete, CloseConnection, SeesDrain,
                      SeesRunning, learnt, TypeOK
  <2>3. TypeOK'
    BY <1>4, <1>t, <2>2 DEF Bypass, FirstCheck, SecondCheck, Complete, CloseConnection,
                            RequestGoes, TypeOK
  <2>4. QED
    BY <1>3, <2>1, <2>3
<1>5. ASSUME NEW r \in Request, NotifyLast(r) PROVE CountInv'
  <2>1. Counted' = Counted /\ UNCHANGED counts
    BY <1>5 DEF NotifyLast, RequestGoes, Counted
  <2>2. /\ server' \in {"serving", "check", "register", "asleep", "finishing"} \cup Ended
        /\ view' \in [Task -> 1..Len(counts)]
    BY <1>5, <1>t, NotifyTypes DEF NotifyLast, TypeOK
  <2>3. TypeOK'
    BY <1>5, <1>t, <2>1, <2>2 DEF NotifyLast, RequestGoes, SeesDrain, SeesRunning, TypeOK
  <2>4. QED
    BY <1>3, <2>1, <2>3
<1>6. ASSUME NEW w \in Waiter, Waits(w) PROVE CountInv'
  <2>1. UNCHANGED <<counts, request>>
    BY <1>6 DEF Waits, CheckStarted, Subscribe, Notice
  <2>2. TypeOK'
    BY <1>6, <1>t DEF Waits, CheckStarted, Subscribe, Notice, WaiterGoes, SeesDrain,
                      SeesRunning, learnt, TypeOK
  <2>3. QED
    BY <1>3, <2>1, <2>2 DEF Counted
<1>7. ASSUME Begin \/ Publish \/ ServerEndsFirst \/ StartDrain \/ Register \/ Finish \/ Timeout
      PROVE  CountInv'
  <2>1. UNCHANGED <<counts, request>>
    BY <1>7 DEF Begin, Publish, ServerEndsFirst, StartDrain, Register, Finish, Timeout, Stops
  <2>2. TypeOK'
    BY <1>7, <1>t DEF Begin, Publish, SignalGoes, ServerEndsFirst, StartDrain, Register, Finish,
                      Timeout, Stops, ServerGoes, learnt, TypeOK
  <2>3. QED
    BY <1>3, <2>1, <2>2 DEF Counted
<1>8. ASSUME CountAtBegin PROVE CountInv'
  <2>1. PICK i \in Readable(Signal) :
          /\ SignalGoes("published", IF counts[i] = 0 THEN "notifying" ELSE "done")
          /\ view' = [view EXCEPT ![Signal] = i]
    BY <1>8 DEF CountAtBegin
  <2>2. i \in 1..Len(counts)
    BY <1>t, ReadableIndex
  <2>3. TypeOK'
    BY <1>8, <1>t, <2>1, <2>2 DEF CountAtBegin, SignalGoes, TypeOK
  <2>4. QED
    BY <1>3, <1>8, <2>3 DEF CountAtBegin, Counted
<1>9. ASSUME CheckZero PROVE CountInv'
  <2>1. PICK i \in Readable(Outer) :
          /\ ServerGoes("check", IF counts[i] = 0 THEN "finishing" ELSE "register")
          /\ view' = [view EXCEPT ![Outer] = i]
    BY <1>9 DEF CheckZero
  <2>2. i \in 1..Len(counts)
    BY <1>t, ReadableIndex
  <2>3. TypeOK'
    BY <1>9, <1>t, <2>1, <2>2 DEF CheckZero, ServerGoes, TypeOK
  <2>4. QED
    BY <1>3, <1>9, <2>3 DEF CheckZero, Counted
<1>10. ASSUME NotifyAtBegin PROVE CountInv'
  <2>1. /\ server' \in {"serving", "check", "register", "asleep", "finishing"} \cup Ended
        /\ view' \in [Task -> 1..Len(counts)]
    BY <1>10, <1>t, NotifyTypes DEF NotifyAtBegin
  <2>2. TypeOK'
    BY <1>10, <1>t, <2>1 DEF NotifyAtBegin, SignalGoes, TypeOK
  <2>3. QED
    BY <1>3, <1>10, <2>2 DEF NotifyAtBegin, Counted
<1>11. CASE UNCHANGED vars
  BY <1>3, <1>t, <1>11 DEF vars, learnt, Counted, TypeOK
<1>12. QED
  BY <1>1, <1>2, <1>4, <1>5, <1>6, <1>7, <1>8, <1>9, <1>10, <1>11
     DEF Next, Signalled, Passes, Outside, Serves

\* The count is the number of requests in flight, and never underflows.
THEOREM InFlightIsExact == Spec => [](TypeOK /\ InFlightExact)
<1>1. Init => CountInv
  <2> SUFFICES ASSUME Init PROVE CountInv
    OBVIOUS
  <2>1. Counted = {}
    BY DEF Init, Counted
  <2>2. inFlight = 0 /\ counts \in Seq(Nat) /\ counts # <<>> /\ Len(counts) = 1
    BY DEF Init, inFlight
  <2>3. view \in [Task -> 1..Len(counts)]
    BY <2>2 DEF Init
  <2>4. TypeOK
    BY <2>2, <2>3, ShutdownAssumption DEF Init, TypeOK, Waiter, Ended
  <2>5. QED
    BY <2>1, <2>2, <2>4, FS_EmptySet DEF CountInv, InFlightExact
<1>2. QED
  BY <1>1, CountInductive, PTL DEF Spec, CountInv

-----------------------------------------------------------------------------
(* The drain implements its contract *)

\* The phase changes before anybody acts on the shutdown, and never back; once
\* the server has ended of itself no request comes any more.
LEMMA AnnouncedInductive == TypeOK /\ DrainIsAnnounced /\ [Next]_vars => DrainIsAnnounced'
<1> SUFFICES ASSUME TypeOK, DrainIsAnnounced, [Next]_vars PROVE DrainIsAnnounced'
  OBVIOUS
<1> USE ShutdownAssumption DEF TypeOK, DrainIsAnnounced, ShuttingDown, Waiter, Ended
<1>1. ASSUME Begin \/ Signalled PROVE DrainIsAnnounced'
  BY <1>1 DEF Begin, Signalled, Publish, CountAtBegin, NotifyAtBegin, NotifyWaiters, SignalGoes
<1>2. ASSUME NEW w \in Waiter, Waits(w) PROVE DrainIsAnnounced'
  <2>1. UNCHANGED <<phase, watched, signal, server, request>>
    BY <1>2 DEF Waits, CheckStarted, Subscribe, Notice
  <2>2. \A v \in Waiter : waiter'[v] = "returned" => waiter[v] = "returned" \/ ShuttingDown
    BY <1>2 DEF Waits, CheckStarted, Subscribe, Notice, WaiterGoes, SeesDrain
  <2>3. QED
    BY <2>1, <2>2
<1>3. ASSUME NEW r \in Request, Passes(r) \/ Outside(r) PROVE DrainIsAnnounced'
  <2>1. UNCHANGED <<phase, watched, signal, waiter>>
    BY <1>3 DEF Passes, Outside, Count, SecondCheck, Uncount, NotifyLast, Bypass, FirstCheck,
                Complete, CloseConnection
  <2>2. server' = server \/ (server = "asleep" /\ server' = "check")
    BY <1>3 DEF Passes, Outside, Count, SecondCheck, Uncount, NotifyLast, Bypass, FirstCheck,
                Complete, CloseConnection, NotifyWaiters
  <2>3. server = "stopped" => \A q \in Request : request'[q] \in {"away", "closed"}
    BY <1>3 DEF Passes, Outside, Count, SecondCheck, Uncount, NotifyLast, Bypass, FirstCheck,
                Complete, CloseConnection, RequestGoes
  <2>4. QED
    BY <2>1, <2>2, <2>3
<1>4. ASSUME Serves \/ Timeout PROVE DrainIsAnnounced'
  BY <1>4 DEF Serves, ServerEndsFirst, StartDrain, CheckZero, Register, Finish, Timeout,
              Stops, ServerGoes, ServerDone
<1>5. CASE UNCHANGED vars
  BY <1>5 DEF vars
<1>6. QED
  BY <1>1, <1>2, <1>3, <1>4, <1>5 DEF Next

\* Every step of the shutdown is a step of the contract or changes nothing in
\* it: on ordered memory a request becomes active only while the phase is
\* Running, and the count read at zero means that none is.
LEMMA StepKeepsContract ==
  ASSUME CountInv, DrainIsAnnounced, [Next]_vars
  PROVE  [Contract!Next]_(Contract!contractVars)
<1> USE ShutdownAssumption DEF CountInv, TypeOK, DrainIsAnnounced, ShuttingDown, Waiter, Ended
<1> DEFINE Goal == [Contract!Next]_(Contract!contractVars)
           Lax == memory = "weak"
<1>m. memory' = memory
  BY DEF Next, Begin, Signalled, Publish, CountAtBegin, NotifyAtBegin, Waits, CheckStarted,
         Subscribe, Notice, Passes, Outside, Bypass, FirstCheck, Count, SecondCheck, Complete,
         Uncount, NotifyLast, CloseConnection, Serves, ServerEndsFirst, StartDrain, CheckZero,
         Register, Finish, Timeout, Stops, vars
<1>1. ASSUME Gate' = Gate, Active' = Active PROVE Goal
  BY <1>m, <1>1 DEF Contract!contractVars
<1>2. ASSUME NEW r \in Request,
             \/ Bypass(r) \/ FirstCheck(r) \/ Count(r) \/ Uncount(r)
             \/ NotifyLast(r) \/ CloseConnection(r)
      PROVE  Goal
  <2>1. Active' = Active
    BY <1>2 DEF Bypass, FirstCheck, Count, Uncount, NotifyLast, CloseConnection,
                RequestGoes, Active
  <2>2. Gate' = Gate
    BY <1>2 DEF Bypass, FirstCheck, Count, Uncount, NotifyLast, CloseConnection,
                NotifyWaiters, Gate
  <2>3. QED
    BY <1>1, <2>1, <2>2
<1>3. ASSUME NEW r \in Request, SecondCheck(r) PROVE Goal
  <2>1. Gate' = Gate /\ server # "stopped"
    BY <1>3 DEF SecondCheck, RequestGoes, Gate
  <2>2. CASE SeesRunning(r) /\ RequestGoes(r, "counted", "active")
    <3>1. Gate = "open" \/ (Lax /\ Gate # "stopped")
      BY <2>1, <2>2 DEF Gate, SeesRunning
    <3>2. r \notin Active /\ Active' = Active \cup {r}
      BY <2>2 DEF RequestGoes, Active
    <3>3. Contract!Enter(r)
      BY <1>m, <2>1, <3>1, <3>2 DEF Contract!Enter
    <3>4. QED
      BY <3>3 DEF Contract!Next
  <2>3. CASE RequestGoes(r, "counted", "leaving")
    <3>1. Active' = Active
      BY <2>3 DEF RequestGoes, Active
    <3>2. QED
      BY <1>1, <2>1, <3>1
  <2>4. QED
    BY <1>3, <2>2, <2>3 DEF SecondCheck
<1>4. ASSUME NEW r \in Request, Complete(r) PROVE Goal
  <2>1. Gate' = Gate
    BY <1>4 DEF Complete, Gate
  <2>2. r \in Active /\ Active' = Active \ {r}
    BY <1>4 DEF Complete, RequestGoes, Active
  <2>3. QED
    BY <1>m, <2>1, <2>2 DEF Contract!Next, Contract!Leave
<1>5. ASSUME Begin PROVE Goal
  <2>1. Active' = Active
    BY <1>5 DEF Begin, Active
  <2>2. CASE phase = "Running"
    <3>1. Gate = "open" /\ Gate' = "closing"
      BY <1>5, <2>2 DEF Begin, Gate
    <3>2. QED
      BY <1>m, <2>1, <3>1 DEF Contract!Next, Contract!Close
  <2>3. CASE phase # "Running"
    BY <1>1, <1>5, <2>1, <2>3 DEF Begin, Gate
  <2>4. QED
    BY <2>2, <2>3
<1>6. ASSUME \/ Signalled \/ StartDrain \/ Register \/ \E w \in Waiter : Waits(w) PROVE Goal
  <2>1. Active' = Active
    BY <1>6 DEF Signalled, Publish, CountAtBegin, NotifyAtBegin, StartDrain, Register, Waits,
                CheckStarted, Subscribe, Notice, Active
  <2>2. Gate' = Gate
    BY <1>6 DEF Signalled, Publish, CountAtBegin, NotifyAtBegin, NotifyWaiters, StartDrain,
                Register, ServerGoes, Waits, CheckStarted, Subscribe, Notice, Gate
  <2>3. QED
    BY <1>1, <2>1, <2>2
<1>7. ASSUME CheckZero PROVE Goal
  <2>1. Active' = Active
    BY <1>7 DEF CheckZero, Active
  <2>2. PICK i \in Readable(Outer) :
          ServerGoes("check", IF counts[i] = 0 THEN "finishing" ELSE "register")
    BY <1>7 DEF CheckZero
  <2>3. CASE counts[i] = 0
    <3>1. Gate = "closing" /\ Gate' = "drained"
      BY <1>7, <2>2, <2>3 DEF CheckZero, ServerGoes, Gate
    <3>2. ASSUME ~Lax PROVE Active = {}
      <4>1. inFlight = 0
        BY <2>2, <2>3, <3>2 DEF Readable, inFlight
      <4>2. IsFiniteSet(Counted) /\ Cardinality(Counted) = 0
        BY <4>1, FS_Subset DEF Counted, InFlightExact
      <4>3. Counted = {}
        BY <4>2, FS_EmptySet
      <4>4. QED
        BY <4>3 DEF Counted, Active
    <3>3. QED
      BY <1>m, <2>1, <3>1, <3>2 DEF Contract!Next, Contract!Drained
  <2>4. CASE counts[i] # 0
    BY <1>1, <1>7, <2>1, <2>2, <2>4 DEF CheckZero, ServerGoes, Gate
  <2>5. QED
    BY <2>3, <2>4
<1>8. ASSUME ServerEndsFirst \/ Finish PROVE Goal
  <2>1. Active' = Active /\ Gate' = "stopped" /\ Active = {}
    BY <1>8 DEF ServerEndsFirst, Finish, Stops, ServerDone, Active, Gate
  <2>2. Gate \in {"closing", "drained"}
    BY <1>8 DEF ServerEndsFirst, ServerDone, Finish, Gate
  <2>3. QED
    BY <1>m, <2>1, <2>2 DEF Contract!Next, Contract!Stop
<1>9. ASSUME Timeout PROVE Goal
  <2>1. Active' = Active /\ Gate' = "cut" /\ Gate \in {"closing", "drained"}
    BY <1>9 DEF Timeout, Stops, Active, Gate
  <2>2. QED
    BY <1>m, <2>1 DEF Contract!Next, Contract!CutOff
<1>10. CASE UNCHANGED vars
  BY <1>1, <1>10 DEF vars, Gate, Active
<1>11. QED
  BY <1>2, <1>3, <1>4, <1>5, <1>6, <1>7, <1>8, <1>9, <1>10 DEF Next, Passes, Outside, Serves

\* ShutdownRuntime and serve_with_drain implement the contract: on ordered
\* memory no request slips in behind the drain, and on any memory a drain that
\* is reported complete leaves no request behind.
THEOREM ShutdownImplementsContract == Spec => DrainKeepsContract
<1>1. Init => DrainIsAnnounced /\ Contract!Init
  BY ShutdownAssumption
     DEF Init, DrainIsAnnounced, ShuttingDown, Contract!Init, Gate, Active, Waiter, Ended
<1>2. CountInv /\ DrainIsAnnounced /\ [Next]_vars => [Contract!Next]_(Contract!contractVars)
  BY StepKeepsContract
<1>3. CountInv /\ DrainIsAnnounced /\ [Next]_vars => DrainIsAnnounced'
  BY AnnouncedInductive DEF CountInv
<1>4. QED
  BY <1>1, <1>2, <1>3, InFlightIsExact, PTL
     DEF Spec, CountInv, DrainKeepsContract, Contract!Spec
=============================================================================
