------------------------ MODULE SessionClientProofs ------------------------
(***************************************************************************)
(* Proofs about SessionClient for any number of requests and slots: every  *)
(* slot is accounted for, the connection of a session enters the map with  *)
(* a stream in step, and slots and mutex together are one line.            *)
(*                                                                         *)
(* The slots are counted along with the places of the requests.  That the  *)
(* line is kept rests on who stands in it: whoever waits is in the queue   *)
(* once or has been handed the mutex, whoever calls has it, and nobody     *)
(* waits for a free mutex.                                                 *)
(***************************************************************************)
EXTENDS SessionClient, FiniteSetTheorems, SequenceTheorems, TLAPS

Place == {"idle", "next", "slot", "join", "waiting", "calling", "returning", "gone"}

\* Where a command has a slot, and where it has to do with the mutex.
Holding == {"join", "waiting", "calling", "gone"}
Locking == {"waiting", "calling", "returning"}

Types ==
    /\ owner \in Request \cup {None}
    /\ queue \in Seq(Request)
    /\ op \in [Request -> [at : Place, todo : Seq(Access)]]

Slots == free \in Nat /\ SlotsAccounted

\* Whoever is in the queue waits, once, behind an owner.
Lined ==
    /\ \A i \in 1 .. Len(queue) : queue[i] # owner /\ At(queue[i], "waiting")
    /\ \A i, j \in 1 .. Len(queue) : queue[i] = queue[j] => i = j
    /\ owner = None => Len(queue) = 0

\* The owner waits for its turn, calls or returns, nobody else calls or returns,
\* and whoever waits is known to the mutex.
Owned(p) ==
    /\ p = owner => op[p].at \in Locking
    /\ op[p].at \in {"calling", "returning"} => p = owner
    /\ At(p, "waiting") => p = owner \/ \E i \in 1 .. Len(queue) : queue[i] = p

\* An operation that is not over has a command to execute.
HasCommand(p) == op[p].at \in {"next", "slot", "join", "waiting", "calling"} => op[p].todo # <<>>

\* What connect_session has in hands.
Opening ==
    /\ conn \in {"authenticating", "probing", "reconnecting", "authenticated", "failed",
                 "published", "removed"}
    /\ stream \in {"none", "open", "spoilt"}
    /\ conn \in {"probing", "authenticated", "published"} => stream = "open"

IInv ==
    /\ Opening /\ Types /\ Slots /\ Lined
    /\ \A p \in Request : Owned(p) /\ HasCommand(p)

-----------------------------------------------------------------------------
(* Operators *)

\* A sequence without its i-th element.
LEMMA RemoveAtMeans ==
  ASSUME NEW S, NEW s \in Seq(S), NEW i \in 1 .. Len(s)
  PROVE  /\ RemoveAt(s, i) \in Seq(S)
         /\ Len(RemoveAt(s, i)) = Len(s) - 1
         /\ \A j \in 1 .. Len(s) - 1 : RemoveAt(s, i)[j] = IF j < i THEN s[j] ELSE s[j + 1]
<1> DEFINE a == SubSeq(s, 1, i - 1)
           b == SubSeq(s, i + 1, Len(s))
<1>1. \A j \in 1 .. Len(s) : s[j] \in S
  BY ElementOfSeq
<1>2. Len(s) \in Nat
  BY LenProperties
<1>3. a \in Seq(S) /\ Len(a) = i - 1 /\ \A j \in 1 .. i - 1 : a[j] = s[j]
  <2>1. \A j \in 1 .. i - 1 : s[j] \in S
    BY <1>1, <1>2
  <2> QED  BY <1>2, <2>1, SubSeqProperties
<1>4. /\ b \in Seq(S) /\ Len(b) = Len(s) - i
      /\ \A j \in 1 .. Len(s) - i : b[j] = s[i + j]
  <2>1. \A j \in i + 1 .. Len(s) : s[j] \in S
    BY <1>1, <1>2
  <2>2. /\ b \in Seq(S) /\ Len(b) = IF i + 1 <= Len(s) THEN Len(s) - (i + 1) + 1 ELSE 0
        /\ \A j \in 1 .. Len(s) - (i + 1) + 1 : b[j] = s[(i + 1) + j - 1]
    BY <1>2, <2>1, SubSeqProperties
  <2> HIDE DEF b
  <2> QED  BY <1>2, <2>2
<1> HIDE DEF a, b
<1>5. /\ a \o b \in Seq(S) /\ Len(a \o b) = Len(a) + Len(b)
      /\ \A j \in 1 .. Len(a) + Len(b) : (a \o b)[j] = IF j <= Len(a) THEN a[j] ELSE b[j - Len(a)]
  BY <1>3, <1>4, ConcatProperties
<1>6. RemoveAt(s, i) = a \o b
  BY DEF RemoveAt, a, b
<1>7. Len(a) + Len(b) = Len(s) - 1
  BY <1>2, <1>3, <1>4
<1>8. ASSUME NEW j \in 1 .. Len(s) - 1 PROVE (a \o b)[j] = IF j < i THEN s[j] ELSE s[j + 1]
  <2>1. (a \o b)[j] = IF j <= i - 1 THEN a[j] ELSE b[j - (i - 1)]
    BY <1>3, <1>5, <1>7
  <2>2. CASE j < i
    BY <1>2, <1>3, <2>1, <2>2
  <2>3. CASE ~(j < i)
    <3>1. j - (i - 1) \in 1 .. Len(s) - i /\ i + (j - (i - 1)) = j + 1 /\ ~(j <= i - 1)
      BY <1>2, <2>3
    <3>2. b[j - (i - 1)] = s[j + 1]
      BY <1>4, <3>1
    <3> QED  BY <2>1, <2>3, <3>1, <3>2
  <2> QED  BY <2>2, <2>3
<1> QED  BY <1>5, <1>6, <1>7, <1>8

\* A request is somewhere else, and the others where they were.
Moves(p, place, todo) ==
    /\ op' \in [Request -> [at : Place, todo : Seq(Access)]]
    /\ op'[p].at = place /\ op'[p].todo = todo
    /\ \A q \in Request \ {p} : op'[q] = op[q]

\* Where Goes leads to.
LEMMA GoesMeans ==
  ASSUME Types, NEW p \in Request, NEW place \in Place, Goes(p, place)
  PROVE  Moves(p, place, op[p].todo)
<1>1. op[p] \in [at : Place, todo : Seq(Access)]
  BY DEF Types
<1>2. [op[p] EXCEPT !.at = place] \in [at : Place, todo : Seq(Access)]
  BY <1>1
<1>3. op' = [op EXCEPT ![p] = [op[p] EXCEPT !.at = place]]
  BY DEF Goes
<1> QED  BY <1>1, <1>2, <1>3 DEF Types, Moves

\* An operation that begins, returns from a command, or ends.
LEMMA BecomesMeans ==
  ASSUME Types, NEW p \in Request, NEW place \in Place, NEW todo \in Seq(Access),
         op' = [op EXCEPT ![p] = [at |-> place, todo |-> todo]]
  PROVE  Moves(p, place, todo)
BY DEF Types, Moves

\* The end of an operation.
LEMMA EndsMeans ==
  ASSUME Types, NEW p \in Request, Ends(p)
  PROVE  Moves(p, "idle", <<>>)
<1>1. /\ "idle" \in Place /\ <<>> \in Seq(Access)
      /\ op' = [op EXCEPT ![p] = [at |-> "idle", todo |-> <<>>]]
  BY DEF Ends, Idle, Place
<1> QED  BY <1>1, BecomesMeans

\* A slot is taken or returned along with the request's move.
LEMMA SlotsInv ==
  ASSUME Types, Slots, NEW p \in Request, NEW place \in Place, NEW todo, Moves(p, place, todo),
         \/ place \in Holding /\ op[p].at \in Holding /\ free' = free
         \/ place \notin Holding /\ op[p].at \notin Holding /\ free' = free
         \/ place \in Holding /\ op[p].at \notin Holding /\ free > 0 /\ free' = free - 1
         \/ place \notin Holding /\ op[p].at \in Holding /\ free' = free + 1
  PROVE  Slots'
<1>1. IsFiniteSet(SlotHolders)
  BY ClientAssumption, FS_Subset DEF SlotHolders
<1>2. Cardinality(SlotHolders) \in Nat /\ MaxSlots \in Nat /\ free \in Nat
  BY <1>1, FS_CardinalityType, ClientAssumption DEF Slots
<1>3. /\ Cardinality(SlotHolders \cup {p}) =
           IF p \in SlotHolders THEN Cardinality(SlotHolders) ELSE Cardinality(SlotHolders) + 1
      /\ Cardinality(SlotHolders \ {p}) =
           IF p \in SlotHolders THEN Cardinality(SlotHolders) - 1 ELSE Cardinality(SlotHolders)
  BY <1>1, FS_AddElement, FS_RemoveElement
<1>4. p \in SlotHolders <=> op[p].at \in Holding
  BY DEF SlotHolders, Holding
<1>5. SlotHolders' = IF place \in Holding THEN SlotHolders \cup {p} ELSE SlotHolders \ {p}
  BY DEF SlotHolders, Holding, Moves
<1> QED  BY <1>2, <1>3, <1>4, <1>5 DEF Slots, SlotsAccounted

\* A request that has nothing to do with the mutex, before and after, leaves the
\* line alone.
LEMMA AsideInv ==
  ASSUME IInv, NEW p \in Request, NEW place \in Place \ Locking, NEW todo, Moves(p, place, todo),
         op[p].at \notin Locking, UNCHANGED <<owner, queue>>,
         place \in {"next", "slot", "join"} => todo # <<>>
  PROVE  Types' /\ Lined' /\ \A q \in Request : (Owned(q) /\ HasCommand(q))'
<1>1. Types'
  BY DEF IInv, Types, Moves
<1>2. ASSUME NEW i \in 1 .. Len(queue) PROVE queue[i] \in Request \ {p}
  <2>1. queue[i] \in Request
    BY ElementOfSeq DEF IInv, Types
  <2> QED  BY <2>1 DEF IInv, Lined, At, Locking
<1>3. Lined'
  BY <1>2 DEF IInv, Lined, At, Moves
<1>4. ASSUME NEW q \in Request PROVE (Owned(q) /\ HasCommand(q))'
  <2>1. CASE q = p
    BY <2>1 DEF IInv, Owned, HasCommand, At, Moves, Locking
  <2>2. CASE q # p
    BY <2>2 DEF IInv, Owned, HasCommand, At, Moves, Locking
  <2> QED  BY <2>1, <2>2
<1> QED  BY <1>1, <1>3, <1>4

\* Operations begin, ...
LEMMA BeginInv ==
  ASSUME IInv, NEW p \in Request, NEW commands \in Operation, Begin(p, commands)
  PROVE  IInv'
<1>1. commands \in Seq(Access) /\ commands # <<>>
  <2>1. "kept" \in Access /\ "looked up" \in Access
    BY DEF Access
  <2>2. \A a \in Access : <<a>> \in Seq(Access) /\ <<a>> # <<>>
    OBVIOUS
  <2>3. \A a, b \in Access : <<a, b>> \in Seq(Access) /\ <<a, b>> # <<>>
    OBVIOUS
  <2>4. \A a, b, c \in Access : <<a, b, c>> \in Seq(Access) /\ <<a, b, c>> # <<>>
    OBVIOUS
  <2> QED  BY <2>1, <2>2, <2>3, <2>4, Zenon
           DEF Operation, OneCommand, ListBySavedFilter, ListLookingUp, ReportWithResults,
               ModifyAndRead, ReadModifyRead
<1>2. op[p].at = "idle" /\ UNCHANGED <<conn, stream, free, owner, queue>>
  BY DEF Begin, At, opening
<1>3. Moves(p, "next", commands)
  BY <1>1, BecomesMeans DEF IInv, Begin, Place
<1>4. Types' /\ Lined' /\ \A q \in Request : (Owned(q) /\ HasCommand(q))'
  BY <1>1, <1>2, <1>3, AsideInv DEF Place, Locking
<1>5. Slots'
  BY <1>2, <1>3, SlotsInv DEF IInv, Place, Holding
<1> QED  BY <1>2, <1>4, <1>5 DEF IInv, Opening

\* ... find a connection for their next command, ...
LEMMA AddressInv == ASSUME IInv, NEW p \in Request, Address(p) PROVE IInv'
<1>1. op[p].at = "next" /\ UNCHANGED <<conn, stream, free, owner, queue>>
  BY DEF Address, At, opening
<1>2. Moves(p, "slot", op[p].todo) /\ op[p].todo # <<>>
  BY <1>1, GoesMeans DEF IInv, Address, Place, HasCommand
<1>3. Types' /\ Lined' /\ \A q \in Request : (Owned(q) /\ HasCommand(q))'
  BY <1>1, <1>2, AsideInv DEF Place, Locking
<1>4. Slots'
  BY <1>1, <1>2, SlotsInv DEF IInv, Place, Holding
<1> QED  BY <1>1, <1>3, <1>4 DEF IInv, Opening

\* ... or end without, ...
LEMMA MissingInv == ASSUME IInv, NEW p \in Request, Missing(p) PROVE IInv'
<1>1. op[p].at = "next" /\ UNCHANGED <<conn, stream, free, owner, queue>>
  BY DEF Missing, At, opening
<1>2. Moves(p, "idle", <<>>)
  BY EndsMeans DEF IInv, Missing
<1>3. Types' /\ Lined' /\ \A q \in Request : (Owned(q) /\ HasCommand(q))'
  BY <1>1, <1>2, AsideInv DEF Place, Locking
<1>4. Slots'
  BY <1>1, <1>2, SlotsInv DEF IInv, Place, Holding
<1> QED  BY <1>1, <1>3, <1>4 DEF IInv, Opening

\* ... take a slot, ...
LEMMA TakeSlotInv == ASSUME IInv, NEW p \in Request, TakeSlot(p) PROVE IInv'
<1>1. /\ op[p].at = "slot" /\ free > 0 /\ free' = free - 1
      /\ UNCHANGED <<conn, stream, owner, queue>>
  BY DEF TakeSlot, At, opening
<1>2. Moves(p, "join", op[p].todo) /\ op[p].todo # <<>>
  BY <1>1, GoesMeans DEF IInv, TakeSlot, Place, HasCommand
<1>3. Types' /\ Lined' /\ \A q \in Request : (Owned(q) /\ HasCommand(q))'
  BY <1>1, <1>2, AsideInv DEF Place, Locking
<1>4. Slots'
  BY <1>1, <1>2, SlotsInv DEF IInv, Place, Holding
<1> QED  BY <1>1, <1>3, <1>4 DEF IInv, Opening

\* ... or find none.
LEMMA SaturatedInv == ASSUME IInv, NEW p \in Request, Saturated(p) PROVE IInv'
<1>1. op[p].at = "slot" /\ UNCHANGED <<conn, stream, free, owner, queue>>
  BY DEF Saturated, At, opening
<1>2. Moves(p, "idle", <<>>)
  BY EndsMeans DEF IInv, Saturated
<1>3. Types' /\ Lined' /\ \A q \in Request : (Owned(q) /\ HasCommand(q))'
  BY <1>1, <1>2, AsideInv DEF Place, Locking
<1>4. Slots'
  BY <1>1, <1>2, SlotsInv DEF IInv, Place, Holding
<1> QED  BY <1>1, <1>3, <1>4 DEF IInv, Opening

\* Who has given up returns its slot.
LEMMA ReturnSlotInv == ASSUME IInv, NEW p \in Request, ReturnSlot(p) PROVE IInv'
<1>1. op[p].at = "gone" /\ free' = free + 1 /\ UNCHANGED <<conn, stream, owner, queue>>
  BY DEF ReturnSlot, At, opening
<1>2. Moves(p, "idle", <<>>)
  BY EndsMeans DEF IInv, ReturnSlot
<1>3. Types' /\ Lined' /\ \A q \in Request : (Owned(q) /\ HasCommand(q))'
  BY <1>1, <1>2, AsideInv DEF Place, Locking
<1>4. Slots'
  BY <1>1, <1>2, SlotsInv DEF IInv, Place, Holding
<1> QED  BY <1>1, <1>3, <1>4 DEF IInv, Opening

-----------------------------------------------------------------------------
(* The steps in line *)

\* Requests in the queue, and what is known of them.
LEMMA QueueMeans ==
  ASSUME IInv
  PROVE  /\ Len(queue) \in Nat /\ None \notin Request
         /\ \A i \in 1 .. Len(queue) : /\ queue[i] \in Request /\ queue[i] # owner
                                       /\ op[queue[i]].at = "waiting"
         /\ \A i, j \in 1 .. Len(queue) : queue[i] = queue[j] => i = j
         /\ owner = None => Len(queue) = 0
BY ElementOfSeq, LenProperties, ClientAssumption DEF IInv, Types, Lined, At

\* A free mutex is taken at once; otherwise the request is the last in the queue.
LEMMA JoinQueueInv == ASSUME IInv, NEW p \in Request, JoinQueue(p) PROVE IInv'
<1>1. op[p].at = "join" /\ UNCHANGED <<conn, stream, free>>
  BY DEF JoinQueue, At, opening
<1>2. Moves(p, "waiting", op[p].todo) /\ op[p].todo # <<>>
  BY <1>1, GoesMeans DEF IInv, JoinQueue, Place, HasCommand
<1>3. Slots'
  BY <1>1, <1>2, SlotsInv DEF IInv, Place, Holding
<1>4. \A q \in Request : HasCommand(q)'
  BY <1>2 DEF IInv, HasCommand, Moves
<1>5. p # owner /\ \A i \in 1 .. Len(queue) : queue[i] # p
  BY <1>1, QueueMeans DEF IInv, Owned, Locking
<1>6. Types' /\ Lined' /\ \A q \in Request : Owned(q)'
  <2>1. CASE owner = None
    <3>1. owner' = p /\ queue' = queue /\ Len(queue) = 0
      BY <2>1, QueueMeans DEF JoinQueue
    <3>2. Types' /\ Lined'
      BY <1>2, <3>1, QueueMeans DEF IInv, Types, Lined, Moves
    <3>3. ASSUME NEW q \in Request PROVE Owned(q)'
      BY <1>2, <2>1, <3>1, QueueMeans DEF IInv, Owned, At, Moves, Locking
    <3> QED  BY <3>2, <3>3
  <2>2. CASE owner # None
    <3>1. owner' = owner /\ queue' = Append(queue, p)
      BY <2>2 DEF JoinQueue
    <3>2. /\ queue' \in Seq(Request) /\ Len(queue') = Len(queue) + 1
          /\ queue'[Len(queue) + 1] = p /\ \A i \in 1 .. Len(queue) : queue'[i] = queue[i]
      BY <3>1, AppendProperties DEF IInv, Types
    <3>3. Types'
      BY <1>2, <3>1, <3>2 DEF IInv, Types, Moves
    <3>4. ASSUME NEW i \in 1 .. Len(queue')
          PROVE  queue'[i] # owner' /\ op'[queue'[i]].at = "waiting"
      BY <1>2, <1>5, <3>1, <3>2, QueueMeans DEF Moves
    <3>5. ASSUME NEW i \in 1 .. Len(queue'), NEW j \in 1 .. Len(queue'), queue'[i] = queue'[j]
          PROVE  i = j
      BY <1>5, <3>2, <3>5, QueueMeans
    <3>6. Lined'
      BY <2>2, <3>1, <3>4, <3>5 DEF Lined, At
    <3>7. ASSUME NEW q \in Request PROVE Owned(q)'
      <4>1. CASE q = p
        BY <1>2, <1>5, <3>1, <3>2, <4>1, QueueMeans DEF Owned, At, Moves, Locking
      <4>2. CASE q # p
        <5>1. Owned(q) /\ op'[q] = op[q]
          BY <1>2, <4>2 DEF IInv, Moves
        <5> QED  BY <3>1, <3>2, <5>1, QueueMeans DEF Owned, At
      <4> QED  BY <4>1, <4>2
    <3> QED  BY <3>3, <3>6, <3>7
  <2> QED  BY <2>1, <2>2
<1> QED  BY <1>1, <1>3, <1>4, <1>6 DEF IInv, Opening

\* The owner's turn comes.
LEMMA GrantedInv == ASSUME IInv, NEW p \in Request, Granted(p) PROVE IInv'
<1>1. op[p].at = "waiting" /\ owner = p /\ UNCHANGED <<conn, stream, free, owner, queue>>
  BY DEF Granted, At, opening
<1>2. Moves(p, "calling", op[p].todo) /\ op[p].todo # <<>>
  BY <1>1, GoesMeans DEF IInv, Granted, Place, HasCommand
<1>3. Slots'
  BY <1>1, <1>2, SlotsInv DEF IInv, Place, Holding
<1>4. \A q \in Request : HasCommand(q)'
  BY <1>2 DEF IInv, HasCommand, Moves
<1>5. Types' /\ Lined'
  BY <1>1, <1>2, QueueMeans DEF IInv, Types, Lined, At, Moves
<1>6. \A q \in Request : Owned(q)'
  BY <1>1, <1>2 DEF IInv, Owned, At, Moves, Locking
<1> QED  BY <1>1, <1>3, <1>4, <1>5, <1>6 DEF IInv, Opening

\* A command ends and its slot is free.
LEMMA ReturnInv == ASSUME IInv, NEW p \in Request, Return(p) PROVE IInv'
<1>1. op[p].at = "calling" /\ free' = free + 1 /\ UNCHANGED <<conn, stream, owner, queue>>
  BY DEF Return, At, opening
<1>2. owner = p /\ op[p].todo # <<>> /\ op[p].todo \in Seq(Access)
  BY <1>1 DEF IInv, Owned, HasCommand, Types
<1>3. PICK todo \in {Tail(op[p].todo), <<>>} :
         op' = [op EXCEPT ![p] = [at |-> "returning", todo |-> todo]]
  BY DEF Return
<1>4. todo \in Seq(Access)
  BY <1>2, HeadTailProperties, EmptySeq
<1>5. Moves(p, "returning", todo)
  BY <1>3, <1>4, BecomesMeans DEF IInv, Place
<1>6. Slots'
  BY <1>1, <1>5, SlotsInv DEF IInv, Place, Holding
<1>7. \A q \in Request : HasCommand(q)'
  BY <1>5 DEF IInv, HasCommand, Moves
<1>8. Types' /\ Lined'
  BY <1>1, <1>2, <1>5, QueueMeans DEF IInv, Types, Lined, At, Moves
<1>9. \A q \in Request : Owned(q)'
  BY <1>1, <1>2, <1>5 DEF IInv, Owned, At, Moves, Locking
<1> QED  BY <1>1, <1>6, <1>7, <1>8, <1>9 DEF IInv, Opening

\* The mutex goes to whoever waits longest, and its former owner elsewhere.
LEMMA HandOverInv ==
  ASSUME IInv, NEW p \in Request, owner = p, HandOver, NEW place \in Place \ Locking, NEW todo,
         Moves(p, place, todo)
  PROVE  Types' /\ Lined' /\ \A q \in Request : Owned(q)'
<1>1. CASE queue = <<>>
  <2>1. owner' = None /\ queue' = queue /\ Len(queue) = 0
    BY <1>1 DEF HandOver
  <2>2. Types' /\ Lined'
    BY <2>1, QueueMeans DEF IInv, Types, Lined, Moves
  <2>3. ASSUME NEW q \in Request PROVE Owned(q)'
    BY <2>1, QueueMeans DEF IInv, Owned, At, Moves, Locking
  <2> QED  BY <2>2, <2>3
<1>2. CASE queue # <<>>
  <2>1. owner' = queue[1] /\ queue' = Tail(queue)
    BY <1>2 DEF HandOver, IInv, Types
  <2>2. Len(queue) \in Nat \ {0}
    BY <1>2, EmptySeq DEF IInv, Types
  <2>3. /\ queue' \in Seq(Request) /\ Len(queue') = Len(queue) - 1
        /\ \A i \in 1 .. Len(queue) - 1 : queue'[i] = queue[i + 1]
    BY <1>2, <2>1, HeadTailProperties DEF IInv, Types
  <2>4. queue[1] \in Request /\ queue[1] # p /\ op[queue[1]].at = "waiting"
    BY <2>2, QueueMeans
  <2>5. Types'
    BY <2>1, <2>3, <2>4 DEF IInv, Types, Moves
  <2>6. ASSUME NEW i \in 1 .. Len(queue')
        PROVE  queue'[i] # owner' /\ op'[queue'[i]].at = "waiting"
    <3>1. /\ i + 1 \in 1 .. Len(queue) /\ i + 1 # 1 /\ 1 \in 1 .. Len(queue)
          /\ queue'[i] = queue[i + 1]
      BY <2>2, <2>3
    <3> QED  BY <2>1, <3>1, QueueMeans DEF Moves
  <2>7. ASSUME NEW i \in 1 .. Len(queue'), NEW j \in 1 .. Len(queue'), queue'[i] = queue'[j]
        PROVE  i = j
    <3>1. /\ i + 1 \in 1 .. Len(queue) /\ queue'[i] = queue[i + 1]
          /\ j + 1 \in 1 .. Len(queue) /\ queue'[j] = queue[j + 1]
      BY <2>2, <2>3
    <3>2. i + 1 = j + 1
      BY <2>7, <3>1, QueueMeans
    <3> QED  BY <2>2, <2>3, <3>2
  <2>8. Lined'
    BY <2>1, <2>4, <2>6, <2>7, QueueMeans DEF Lined, At
  <2>9. ASSUME NEW q \in Request PROVE Owned(q)'
    <3>1. CASE q = p
      BY <2>1, <2>4, <3>1 DEF Owned, At, Moves, Locking
    <3>2. CASE q # p
      <4>1. Owned(q) /\ op'[q] = op[q]
        BY <3>2 DEF IInv, Moves
      <4>2. CASE op[q].at = "waiting"
        <5>1. PICK i \in 1 .. Len(queue) : queue[i] = q
          BY <3>2, <4>1, <4>2 DEF Owned, At
        <5>2. CASE i = 1
          BY <2>1, <4>1, <4>2, <5>1, <5>2 DEF Owned, At, Locking
        <5>3. CASE i # 1
          <6>1. i - 1 \in 1 .. Len(queue) - 1 /\ (i - 1) + 1 = i
            BY <2>2, <5>3
          <6>2. i - 1 \in 1 .. Len(queue') /\ queue'[i - 1] = q
            BY <2>3, <5>1, <6>1
          <6> QED  BY <4>1, <4>2, <6>2 DEF Owned, At, Locking
        <5> QED  BY <5>2, <5>3
      <4>3. CASE op[q].at # "waiting"
        BY <2>1, <2>4, <3>2, <4>1, <4>3 DEF Owned, At
      <4> QED  BY <4>2, <4>3
    <3> QED  BY <3>1, <3>2
  <2> QED  BY <2>5, <2>8, <2>9
<1> QED  BY <1>1, <1>2

\* The guard is dropped.
LEMMA UnlockInv == ASSUME IInv, NEW p \in Request, Unlock(p) PROVE IInv'
<1>1. op[p].at = "returning" /\ HandOver /\ UNCHANGED <<conn, stream, free>> /\ owner = p
  BY DEF Unlock, At, opening, IInv, Owned
<1>2. PICK place \in {"idle", "next"}, todo \in {<<>>, op[p].todo} :
         Moves(p, place, todo) /\ (place = "next" => todo # <<>>)
  <2>1. CASE op[p].todo = <<>>
    BY <2>1, EndsMeans DEF IInv, Unlock
  <2>2. CASE op[p].todo # <<>>
    BY <2>2, GoesMeans DEF IInv, Unlock, Place
  <2> QED  BY <2>1, <2>2
<1>3. Types' /\ Lined' /\ \A q \in Request : Owned(q)'
  BY <1>1, <1>2, HandOverInv DEF Place, Locking
<1>4. Slots'
  BY <1>1, <1>2, SlotsInv DEF IInv, Place, Holding
<1>5. \A q \in Request : HasCommand(q)'
  BY <1>2 DEF IInv, HasCommand, Moves
<1> QED  BY <1>1, <1>3, <1>4, <1>5 DEF IInv, Opening

\* Someone in the middle of the queue leaves it.
LEMMA LeaveInv ==
  ASSUME IInv, NEW p \in Request, owner # p, UNCHANGED owner, NEW i \in 1 .. Len(queue),
         queue[i] = p, queue' = RemoveAt(queue, i), NEW place \in Place \ Locking, NEW todo,
         Moves(p, place, todo)
  PROVE  Types' /\ Lined' /\ \A q \in Request : Owned(q)'
<1>1. /\ queue' \in Seq(Request) /\ Len(queue') = Len(queue) - 1 /\ Len(queue) \in Nat \ {0}
      /\ \A j \in 1 .. Len(queue) - 1 : queue'[j] = IF j < i THEN queue[j] ELSE queue[j + 1]
  <2>1. queue \in Seq(Request)
    BY DEF IInv, Types
  <2>2. Len(queue) \in Nat \ {0}
    BY QueueMeans
  <2> QED  BY <2>1, <2>2, RemoveAtMeans
<1> DEFINE Old(j) == IF j < i THEN j ELSE j + 1
<1>2. ASSUME NEW j \in 1 .. Len(queue')
      PROVE  Old(j) \in 1 .. Len(queue) /\ Old(j) # i /\ queue'[j] = queue[Old(j)]
  BY <1>1
<1>3. ASSUME NEW j \in 1 .. Len(queue'), NEW k \in 1 .. Len(queue'), Old(j) = Old(k) PROVE j = k
  BY <1>1, <1>3
<1>4. ASSUME NEW k \in 1 .. Len(queue), k # i PROVE \E j \in 1 .. Len(queue') : queue'[j] = queue[k]
  <2>1. CASE k < i
    BY <1>1, <2>1
  <2>2. CASE ~(k < i)
    <3>1. k - 1 \in 1 .. Len(queue) - 1 /\ ~(k - 1 < i) /\ (k - 1) + 1 = k
      BY <1>1, <1>4, <2>2
    <3> QED  BY <1>1, <3>1
  <2> QED  BY <2>1, <2>2
<1> HIDE DEF Old
<1>5. Types'
  BY <1>1 DEF IInv, Types, Moves
<1>6. ASSUME NEW j \in 1 .. Len(queue') PROVE queue'[j] # owner' /\ op'[queue'[j]].at = "waiting"
  <2>1. queue'[j] \in Request /\ queue'[j] # owner /\ op[queue'[j]].at = "waiting"
    BY <1>2, QueueMeans
  <2>2. queue'[j] # p
    BY <1>2, QueueMeans
  <2> QED  BY <2>1, <2>2 DEF Moves
<1>7. ASSUME NEW j \in 1 .. Len(queue'), NEW k \in 1 .. Len(queue'), queue'[j] = queue'[k]
      PROVE  j = k
  <2>1. queue[Old(j)] = queue[Old(k)] /\ Old(j) \in 1 .. Len(queue) /\ Old(k) \in 1 .. Len(queue)
    BY <1>2, <1>7
  <2>2. Old(j) = Old(k)
    BY <2>1, QueueMeans
  <2> QED  BY <1>3, <2>2
<1>8. owner # None
  BY <1>1, QueueMeans
<1>9. Lined'
  BY <1>6, <1>7, <1>8 DEF Lined, At
<1>10. ASSUME NEW q \in Request PROVE Owned(q)'
  <2>1. CASE q = p
    BY <2>1 DEF Owned, At, Moves, Locking
  <2>2. CASE q # p
    <3>1. Owned(q) /\ op'[q] = op[q]
      BY <2>2 DEF IInv, Moves
    <3>2. ASSUME NEW k \in 1 .. Len(queue), queue[k] = q
          PROVE  \E j \in 1 .. Len(queue') : queue'[j] = q
      BY <1>4, <2>2, <3>2
    <3> QED  BY <3>1, <3>2 DEF Owned, At
  <2> QED  BY <2>1, <2>2
<1> QED  BY <1>5, <1>9, <1>10

\* A request is dropped while it waits.
LEMMA GiveUpInv == ASSUME IInv, NEW p \in Request, GiveUp(p) PROVE IInv'
<1>1. op[p].at = "waiting" /\ UNCHANGED <<conn, stream, free>>
  BY DEF GiveUp, At, opening
<1>2. Moves(p, "gone", op[p].todo)
  BY <1>1, GoesMeans DEF IInv, GiveUp, Place
<1>3. Slots'
  BY <1>1, <1>2, SlotsInv DEF IInv, Place, Holding
<1>4. \A q \in Request : HasCommand(q)'
  BY <1>2 DEF IInv, HasCommand, Moves
<1>5. Types' /\ Lined' /\ \A q \in Request : Owned(q)'
  <2>1. CASE owner = p
    BY <1>2, <2>1, HandOverInv DEF GiveUp, LeavesQueue, Place, Locking
  <2>2. CASE owner # p
    <3>1. UNCHANGED owner /\ \E i \in 1 .. Len(queue) : queue[i] = p /\ queue' = RemoveAt(queue, i)
      BY <2>2 DEF GiveUp, LeavesQueue
    <3>2. PICK i \in 1 .. Len(queue) : queue[i] = p /\ queue' = RemoveAt(queue, i)
      BY <3>1
    <3> QED  BY <1>2, <2>2, <3>1, <3>2, LeaveInv DEF Place, Locking
  <2> QED  BY <2>1, <2>2
<1> QED  BY <1>1, <1>3, <1>4, <1>5 DEF IInv, Opening

-----------------------------------------------------------------------------
(* The connection *)

\* Where the requests are does not change.
LEMMA SameLine ==
  ASSUME IInv, UNCHANGED <<free, owner, queue, op>>
  PROVE  (Types /\ Slots /\ Lined /\ \A p \in Request : Owned(p) /\ HasCommand(p))'
<1>1. Types' /\ Lined' /\ \A p \in Request : (Owned(p) /\ HasCommand(p))'
  BY DEF IInv, Types, Lined, Owned, HasCommand, At
<1>2. Slots'
  BY DEF IInv, Slots, SlotsAccounted, SlotHolders
<1> QED  BY <1>1, <1>2

\* A probe that fails costs the stream, which is replaced before it is used.
LEMMA OpensInv == ASSUME IInv, Opens PROVE IInv'
<1>1. Opening'
  BY DEF IInv, Opening, Opens, Authenticate, Reconnect, AuthenticateFails, Probe, ProbeFails,
         Publish
<1>2. UNCHANGED <<free, owner, queue, op>>
  BY DEF Opens
<1> QED  BY <1>1, <1>2, SameLine DEF IInv

\* The map forgets the connection, the operations keep it.
LEMMA DisconnectInv == ASSUME IInv, Disconnect PROVE IInv'
<1>1. Opening' /\ UNCHANGED <<free, owner, queue, op>>
  BY DEF IInv, Opening, Disconnect
<1> QED  BY <1>1, SameLine DEF IInv

-----------------------------------------------------------------------------
(* The invariant *)

\* Nothing is open, and nobody there.
LEMMA InitInv == Init => IInv
<1> SUFFICES ASSUME Init PROVE IInv
  OBVIOUS
<1>1. Opening /\ queue = <<>> /\ Len(queue) = 0 /\ owner = None /\ free = MaxSlots
  BY DEF Init, Opening
<1>2. \A p \in Request : op[p].at = "idle" /\ op[p].todo = <<>>
  BY DEF Init, Idle
<1>3. Types
  <2>1. Idle \in [at : Place, todo : Seq(Access)]
    BY DEF Idle, Place
  <2> QED  BY <2>1 DEF Init, Types
<1>4. SlotHolders = {}
  BY <1>2 DEF SlotHolders
<1>5. Slots
  BY <1>1, <1>4, FS_EmptySet, ClientAssumption DEF Slots, SlotsAccounted
<1>6. Lined /\ \A p \in Request : Owned(p) /\ HasCommand(p)
  BY <1>1, <1>2, ClientAssumption DEF Lined, Owned, HasCommand, At
<1> QED  BY <1>1, <1>3, <1>5, <1>6 DEF IInv

\* Every step of the requests and of connect_session preserves it.
LEMMA NextInv == IInv /\ [Next]_vars => IInv'
<1> SUFFICES ASSUME IInv, [Next]_vars PROVE IInv'
  OBVIOUS
<1>1. ASSUME NEW p \in Request, Proceeds(p) PROVE IInv'
  BY <1>1, AddressInv, MissingInv, TakeSlotInv, SaturatedInv, JoinQueueInv, GrantedInv, UnlockInv,
     ReturnSlotInv, Zenon DEF Proceeds
<1>2. ASSUME UNCHANGED vars PROVE IInv'
  BY <1>2, SameLine DEF vars, IInv, Opening
<1> QED  BY <1>1, <1>2, OpensInv, DisconnectInv, BeginInv, ReturnInv, GiveUpInv, Zenon DEF Next

\* The invariant is one of the specification.
THEOREM LineInvariant == Spec => []IInv
BY InitInv, NextInv, PTL DEF Spec

\* Every variable keeps its type; the permits of command_slots never exceed
\* MAX_SESSION_COMMANDS_IN_FLIGHT_OR_WAITING, whoever returns one.
THEOREM TypeCorrect == Spec => []TypeOK
<1>1. IInv => TypeOK
  <2> SUFFICES ASSUME IInv PROVE TypeOK
    OBVIOUS
  <2>1. IsFiniteSet(SlotHolders)
    BY ClientAssumption, FS_Subset DEF SlotHolders
  <2>2. free \in 0 .. MaxSlots
    BY <2>1, FS_CardinalityType, ClientAssumption DEF IInv, Slots, SlotsAccounted
  <2> QED  BY <2>2 DEF IInv, Opening, Types, Place, TypeOK
<1> QED  BY <1>1, LineInvariant, PTL

\* Every slot is free or belongs to one command in flight or waiting, for any
\* number of slots and of requests, refused, failing and dropped ones included.
THEOREM SlotsStayAccounted == Spec => []SlotsAccounted
<1>1. IInv => SlotsAccounted
  BY DEF IInv, Slots
<1> QED  BY <1>1, LineInvariant, PTL

\* connect_session publishes a connection only with a stream in step.
THEOREM PublishedStaysClean == Spec => []PublishedClean
<1>1. IInv => PublishedClean
  BY DEF IInv, Opening, PublishedClean
<1> QED  BY <1>1, LineInvariant, PTL

-----------------------------------------------------------------------------
(* The line *)

Busy == \E p \in Request : At(p, "calling")

\* Who is in line: the queue, behind the owner unless that one is leaving.
LEMMA InLineMeans ==
  ASSUME IInv
  PROVE  /\ InLine \in Seq(Request) /\ Len(InLine) \in Nat
         /\ Busy <=> owner # None /\ op[owner].at = "calling"
         /\ (owner = None \/ op[owner].at = "returning") => InLine = queue
         /\ (owner # None /\ op[owner].at # "returning") =>
              /\ InLine = <<owner>> \o queue /\ Len(InLine) = Len(queue) + 1
              /\ InLine[1] = owner /\ InLine # <<>>
              /\ \A i \in 1 .. Len(queue) : InLine[i + 1] = queue[i]
<1>1. Busy <=> owner # None /\ op[owner].at = "calling"
  BY ClientAssumption DEF Busy, At, IInv, Owned, Types
<1>2. queue \in Seq(Request) /\ Len(queue) \in Nat
  BY LenProperties DEF IInv, Types
<1>3. CASE owner = None \/ op[owner].at = "returning"
  BY <1>1, <1>2, <1>3 DEF InLine
<1>4. CASE owner # None /\ op[owner].at # "returning"
  <2>1. owner \in Request /\ op[owner].at \in {"waiting", "calling"}
    BY <1>4 DEF IInv, Types, Owned, Locking
  <2>2. InLine = <<owner>> \o queue
    BY <1>4, <2>1 DEF InLine
  <2>3. <<owner>> \in Seq(Request) /\ Len(<<owner>>) = 1 /\ <<owner>>[1] = owner
    BY <2>1
  <2>4. /\ InLine \in Seq(Request) /\ Len(InLine) = 1 + Len(queue)
        /\ \A i \in 1 .. 1 + Len(queue) : InLine[i] = IF i <= 1 THEN <<owner>>[i] ELSE queue[i - 1]
    BY <1>2, <2>2, <2>3, ConcatProperties
  <2>5. InLine[1] = owner /\ Len(InLine) = Len(queue) + 1 /\ InLine # <<>>
    BY <1>2, <2>3, <2>4
  <2>6. ASSUME NEW i \in 1 .. Len(queue) PROVE InLine[i + 1] = queue[i]
    <3>1. i + 1 \in 1 .. 1 + Len(queue) /\ ~(i + 1 <= 1) /\ (i + 1) - 1 = i
      BY <1>2
    <3> QED  BY <2>4, <3>1
  <2> QED  BY <1>1, <1>2, <1>4, <2>2, <2>4, <2>5, <2>6
<1> QED  BY <1>3, <1>4

\* Whoever is in line waits or calls, and is there once.
LEMMA InLineHolds ==
  ASSUME IInv
  PROVE  /\ \A i \in 1 .. Len(InLine) : /\ InLine[i] \in Request
                                        /\ op[InLine[i]].at \in {"waiting", "calling"}
         /\ \A i, j \in 1 .. Len(InLine) : InLine[i] = InLine[j] => i = j
<1>1. CASE owner = None \/ op[owner].at = "returning"
  BY <1>1, InLineMeans, QueueMeans
<1>2. CASE owner # None /\ op[owner].at # "returning"
  <2>1. owner \in Request /\ op[owner].at \in {"waiting", "calling"}
    BY <1>2 DEF IInv, Types, Owned, Locking
  <2>2. ASSUME NEW i \in 1 .. Len(InLine), i # 1
        PROVE  i - 1 \in 1 .. Len(queue) /\ InLine[i] = queue[i - 1]
    <3>1. i - 1 \in 1 .. Len(queue) /\ (i - 1) + 1 = i
      BY <1>2, <2>2, InLineMeans, QueueMeans
    <3> QED  BY <1>2, <3>1, InLineMeans
  <2>3. InLine[1] = owner
    BY <1>2, InLineMeans
  <2>4. ASSUME NEW i \in 1 .. Len(InLine)
        PROVE  InLine[i] \in Request /\ op[InLine[i]].at \in {"waiting", "calling"}
    BY <2>1, <2>2, <2>3, QueueMeans
  <2>5. ASSUME NEW i \in 1 .. Len(InLine), NEW j \in 1 .. Len(InLine), InLine[i] = InLine[j]
        PROVE  i = j
    <3>1. CASE i = 1 /\ j = 1
      BY <3>1
    <3>2. CASE i = 1 /\ j # 1
      BY <2>2, <2>3, <2>5, <3>2, QueueMeans
    <3>3. CASE i # 1 /\ j = 1
      BY <2>2, <2>3, <2>5, <3>3, QueueMeans
    <3>4. CASE i # 1 /\ j # 1
      <4>1. i - 1 = j - 1
        BY <2>2, <2>5, <3>4, QueueMeans
      <4> QED  BY <4>1, InLineMeans
    <3> QED  BY <3>1, <3>2, <3>3, <3>4
  <2> QED  BY <2>4, <2>5
<1> QED  BY <1>1, <1>2

\* Whoever is about to join finds a place: everyone in line has a slot, and so
\* has the one who joins.
LEMMA PlaceLeft ==
  ASSUME IInv, NEW p \in Request, op[p].at = "join"
  PROVE  Len(InLine) < MaxSlots /\ \A i \in 1 .. Len(InLine) : InLine[i] # p
<1> DEFINE H == SlotHolders \ {p}
<1>1. IsFiniteSet(SlotHolders) /\ p \in SlotHolders
  BY ClientAssumption, FS_Subset DEF SlotHolders
<1>2. Cardinality(SlotHolders) \in Nat /\ Cardinality(SlotHolders) <= MaxSlots
  BY <1>1, FS_CardinalityType, ClientAssumption DEF IInv, Slots, SlotsAccounted
<1>3. IsFiniteSet(H) /\ Cardinality(H) = Cardinality(SlotHolders) - 1
  BY <1>1, FS_RemoveElement
<1>4. \A i \in 1 .. Len(InLine) : InLine[i] \in H
  BY InLineHolds DEF SlotHolders
<1>5. InLine \in [1 .. Len(InLine) -> H]
  BY <1>4, InLineMeans, LenProperties
<1>6. IsFiniteSet(1 .. Len(InLine)) /\ Cardinality(1 .. Len(InLine)) = Len(InLine)
  <2>1. Len(InLine) \in Nat /\ 1 \in Int /\ Len(InLine) \in Int
    BY InLineMeans
  <2>2. /\ IsFiniteSet(1 .. Len(InLine))
        /\ Cardinality(1 .. Len(InLine)) = IF 1 > Len(InLine) THEN 0 ELSE Len(InLine) - 1 + 1
    BY <2>1, FS_Interval
  <2> QED  BY <2>1, <2>2
<1>7. ~(Cardinality(H) < Len(InLine))
  BY <1>3, <1>5, <1>6, InLineHolds, FS_PigeonHole
<1> HIDE DEF H
<1>8. Len(InLine) < MaxSlots
  BY <1>2, <1>3, <1>7, InLineMeans, ClientAssumption
<1> QED  BY <1>8, InLineHolds

LineStep == [Line!Next]_(Line!lineVars)

\* Nobody comes or goes.
LEMMA Stays ==
  ASSUME InLine' = InLine, Busy' <=> Busy
  PROVE  LineStep
BY DEF LineStep, Line!lineVars, Busy

\* Requests with nothing to do with the mutex do not move the line.
LEMMA AsideStays ==
  ASSUME IInv, IInv', NEW p \in Request, NEW place, NEW todo, Moves(p, place, todo),
         op[p].at \notin Locking, place \notin Locking, UNCHANGED <<owner, queue>>
  PROVE  LineStep
<1>1. ASSUME owner # None PROVE owner \in Request /\ owner # p /\ op'[owner] = op[owner]
  BY <1>1 DEF IInv, Types, Owned, Moves
<1>2. InLine' = InLine
  BY <1>1 DEF InLine
<1>3. Busy' <=> Busy
  BY DEF Busy, At, Moves, Locking
<1> QED  BY <1>2, <1>3, Stays

\* A request joins at the end of the line.
LEMMA JoinQueueJoins ==
  ASSUME IInv, IInv', NEW p \in Request, JoinQueue(p)
  PROVE  LineStep
<1>1. op[p].at = "join" /\ Moves(p, "waiting", op[p].todo)
  BY GoesMeans DEF JoinQueue, At, IInv, Place
<1>2. Busy' <=> Busy
  BY <1>1 DEF Busy, At, Moves
<1>3. InLine' = Append(InLine, p)
  <2>1. CASE owner = None
    <3>1. owner' = p /\ queue' = queue /\ queue = <<>> /\ p # None
      BY <2>1, QueueMeans, EmptySeq, ClientAssumption DEF JoinQueue, IInv, Types
    <3>2. InLine = <<>> /\ InLine' = <<p>> \o <<>>
      BY <1>1, <2>1, <3>1 DEF InLine, Moves
    <3> QED  BY <3>2
  <2>2. CASE owner # None
    <3>1. owner' = owner /\ queue' = Append(queue, p) /\ queue \in Seq(Request)
      BY <2>2 DEF JoinQueue, IInv, Types
    <3>2. owner \in Request /\ owner # p /\ op'[owner] = op[owner]
      BY <1>1, <2>2 DEF IInv, Types, Owned, Moves, Locking
    <3>3. CASE op[owner].at \in {"waiting", "calling"}
      <4>1. InLine = <<owner>> \o queue /\ InLine' = <<owner>> \o Append(queue, p)
        BY <2>2, <3>1, <3>2, <3>3 DEF InLine
      <4>2. <<owner>> \in Seq(Request) /\ <<p>> \in Seq(Request)
        BY <3>2
      <4>3. Append(queue, p) = queue \o <<p>> /\ Append(InLine, p) = InLine \o <<p>>
        BY <3>1, AppendIsConcat, InLineMeans
      <4> QED  BY <3>1, <4>1, <4>2, <4>3, ConcatAssociative
    <3>4. CASE op[owner].at \notin {"waiting", "calling"}
      BY <2>2, <3>1, <3>2, <3>4 DEF InLine
    <3> QED  BY <3>3, <3>4
  <2> QED  BY <2>1, <2>2
<1>4. Line!Join(p)
  BY <1>1, <1>2, <1>3, PlaceLeft DEF Line!Join, Line!Contains, Busy
<1> QED  BY <1>4 DEF LineStep, Line!Next

\* The first in line starts.
LEMMA GrantedStarts ==
  ASSUME IInv, IInv', NEW p \in Request, Granted(p)
  PROVE  LineStep
<1>1. op[p].at = "waiting" /\ owner = p /\ owner' = p /\ queue' = queue /\ p # None
  BY ClientAssumption DEF Granted, At
<1>2. Moves(p, "calling", op[p].todo)
  BY GoesMeans DEF Granted, IInv, Place
<1>3. InLine' = InLine /\ InLine # <<>>
  BY <1>1, <1>2, InLineMeans DEF InLine, Moves
<1>4. ~Busy
  BY <1>1, InLineMeans
<1>5. Busy'
  BY <1>2 DEF Busy, At, Moves
<1>6. Line!Start
  BY <1>3, <1>4, <1>5 DEF Line!Start, Busy
<1> QED  BY <1>6 DEF LineStep, Line!Next

\* It finishes, and the line moves up.
LEMMA ReturnFinishes ==
  ASSUME IInv, IInv', NEW p \in Request, Return(p)
  PROVE  LineStep
<1>1. op[p].at = "calling" /\ owner' = owner /\ queue' = queue /\ owner = p /\ p # None
  BY ClientAssumption DEF Return, At, IInv, Owned
<1>2. op'[p].at = "returning"
  BY DEF Return, IInv, Types
<1>3. InLine = <<p>> \o queue /\ InLine' = queue /\ queue \in Seq(Request)
  BY <1>1, <1>2 DEF InLine, IInv, Types
<1>4. Tail(<<p>> \o queue) = queue
  BY <1>3
<1>5. Busy
  BY <1>1, InLineMeans
<1>6. ~Busy'
  <2>1. ASSUME NEW q \in Request, op'[q].at = "calling" PROVE FALSE
    BY <1>1, <1>2, <2>1 DEF IInv, Owned
  <2> QED  BY <2>1 DEF Busy, At
<1>7. Line!Finish
  BY <1>3, <1>4, <1>5, <1>6 DEF Line!Finish, Busy
<1> QED  BY <1>7 DEF LineStep, Line!Next

\* Whoever is handed the mutex is still the first of those who wait.
LEMMA HandOverKeeps ==
  ASSUME IInv, IInv', NEW p \in Request, owner = p, HandOver, NEW place, NEW todo,
         Moves(p, place, todo), place \notin Locking
  PROVE  InLine' = queue /\ ~Busy'
<1>1. CASE queue = <<>>
  <2>1. owner' = None /\ queue' = queue
    BY <1>1 DEF HandOver
  <2>2. ~Busy'
    BY <2>1, ClientAssumption DEF Busy, At, IInv, Owned
  <2> QED  BY <2>1, <2>2 DEF InLine
<1>2. CASE queue # <<>>
  <2>1. owner' = Head(queue) /\ queue' = Tail(queue) /\ queue \in Seq(Request)
    BY <1>2 DEF HandOver, IInv, Types
  <2>2. Len(queue) \in Nat \ {0} /\ Head(queue) = queue[1]
    BY <1>2, <2>1, EmptySeq
  <2>3. Head(queue) \in Request /\ Head(queue) # p /\ op[Head(queue)].at = "waiting"
    BY <2>2, QueueMeans
  <2>4. op'[owner'].at = "waiting" /\ owner' # None
    BY <2>1, <2>3, ClientAssumption DEF Moves
  <2>5. InLine' = <<Head(queue)>> \o Tail(queue)
    BY <2>1, <2>4 DEF InLine
  <2>6. <<Head(queue)>> \o Tail(queue) = queue
    BY <1>2, <2>1
  <2>7. ~Busy'
    BY <2>4 DEF Busy, At, IInv, Owned
  <2> QED  BY <2>5, <2>6, <2>7
<1> QED  BY <1>1, <1>2

\* The mutex is passed on between two places in line.
LEMMA UnlockStays ==
  ASSUME IInv, IInv', NEW p \in Request, Unlock(p)
  PROVE  LineStep
<1>1. op[p].at = "returning" /\ HandOver /\ owner = p
  BY DEF Unlock, At, IInv, Owned
<1>2. PICK place \in {"idle", "next"}, todo \in {<<>>, op[p].todo} : Moves(p, place, todo)
  <2>1. CASE op[p].todo = <<>>
    BY <2>1, EndsMeans DEF IInv, Unlock
  <2>2. CASE op[p].todo # <<>>
    BY <2>2, GoesMeans DEF IInv, Unlock, Place
  <2> QED  BY <2>1, <2>2
<1>3. InLine' = queue /\ ~Busy'
  BY <1>1, <1>2, HandOverKeeps DEF Locking
<1>4. InLine = queue /\ ~Busy
  BY <1>1, InLineMeans
<1> QED  BY <1>3, <1>4, Stays

\* Who stands behind the first does not change by the first.
LEMMA RemoveBehind ==
  ASSUME NEW S, NEW s \in Seq(S), NEW e \in S, NEW i \in 1 .. Len(s)
  PROVE  RemoveAt(<<e>> \o s, i + 1) = <<e>> \o RemoveAt(s, i)
<1> DEFINE t == <<e>> \o s
           l == RemoveAt(t, i + 1)
           r == <<e>> \o RemoveAt(s, i)
<1>1. <<e>> \in Seq(S) /\ Len(<<e>>) = 1 /\ <<e>>[1] = e /\ Len(s) \in Nat
  BY LenProperties
<1>2. /\ t \in Seq(S) /\ Len(t) = 1 + Len(s)
      /\ \A j \in 1 .. 1 + Len(s) : t[j] = IF j <= 1 THEN <<e>>[j] ELSE s[j - 1]
  BY <1>1, ConcatProperties
<1>3. /\ RemoveAt(s, i) \in Seq(S) /\ Len(RemoveAt(s, i)) = Len(s) - 1
      /\ \A j \in 1 .. Len(s) - 1 : RemoveAt(s, i)[j] = IF j < i THEN s[j] ELSE s[j + 1]
  BY RemoveAtMeans
<1>4. i + 1 \in 1 .. Len(t)
  BY <1>1, <1>2
<1> HIDE DEF t
<1>5. /\ l \in Seq(S) /\ Len(l) = Len(t) - 1
      /\ \A j \in 1 .. Len(t) - 1 : l[j] = IF j < i + 1 THEN t[j] ELSE t[j + 1]
  BY <1>2, <1>4, RemoveAtMeans
<1>6. /\ r \in Seq(S) /\ Len(r) = 1 + (Len(s) - 1)
      /\ \A j \in 1 .. 1 + (Len(s) - 1) : r[j] = IF j <= 1 THEN <<e>>[j] ELSE RemoveAt(s, i)[j - 1]
  BY <1>1, <1>3, ConcatProperties
<1> HIDE DEF l, r
<1>7. Len(l) = Len(s) /\ Len(r) = Len(s)
  BY <1>1, <1>2, <1>5, <1>6
<1>8. ASSUME NEW j \in 1 .. Len(s) PROVE l[j] = r[j]
  <2>1. /\ l[j] = IF j < i + 1 THEN t[j] ELSE t[j + 1]
        /\ r[j] = IF j <= 1 THEN <<e>>[j] ELSE RemoveAt(s, i)[j - 1]
    BY <1>1, <1>2, <1>5, <1>6
  <2>2. CASE j = 1
    BY <1>1, <1>2, <2>1, <2>2
  <2>3. CASE j # 1
    <3>1. /\ j - 1 \in 1 .. Len(s) - 1 /\ (j - 1) + 1 = j /\ (j + 1) - 1 = j
          /\ j \in 1 .. 1 + Len(s) /\ j + 1 \in 1 .. 1 + Len(s) /\ ~(j <= 1) /\ ~(j + 1 <= 1)
          /\ j - 1 < i <=> j < i + 1
      BY <1>1, <2>3
    <3>2. r[j] = IF j - 1 < i THEN s[j - 1] ELSE s[j]
      BY <1>3, <2>1, <3>1
    <3>3. t[j] = s[j - 1] /\ t[j + 1] = s[j]
      BY <1>2, <3>1
    <3> QED  BY <2>1, <3>1, <3>2, <3>3
  <2> QED  BY <2>2, <2>3
<1>9. l = r
  BY <1>5, <1>6, <1>7, <1>8, SeqEqual
<1> QED  BY <1>9 DEF l, r, t

\* Without its first element the line is the queue.
LEMMA RemoveFirstOf ==
  ASSUME NEW S, NEW s \in Seq(S), NEW e \in S
  PROVE  RemoveAt(<<e>> \o s, 1) = s
<1> DEFINE t == <<e>> \o s
           l == RemoveAt(t, 1)
<1>1. <<e>> \in Seq(S) /\ Len(<<e>>) = 1 /\ Len(s) \in Nat
  BY LenProperties
<1>2. /\ t \in Seq(S) /\ Len(t) = 1 + Len(s)
      /\ \A j \in 1 .. 1 + Len(s) : t[j] = IF j <= 1 THEN <<e>>[j] ELSE s[j - 1]
  BY <1>1, ConcatProperties
<1>3. 1 \in 1 .. Len(t)
  BY <1>1, <1>2
<1> HIDE DEF t
<1>4. /\ l \in Seq(S) /\ Len(l) = Len(t) - 1
      /\ \A j \in 1 .. Len(t) - 1 : l[j] = IF j < 1 THEN t[j] ELSE t[j + 1]
  BY <1>2, <1>3, RemoveAtMeans
<1> HIDE DEF l
<1>5. ASSUME NEW j \in 1 .. Len(s) PROVE l[j] = s[j]
  <2>1. j \in 1 .. Len(t) - 1 /\ ~(j < 1) /\ j + 1 \in 1 .. 1 + Len(s) /\ ~(j + 1 <= 1)
        /\ (j + 1) - 1 = j
    BY <1>1, <1>2
  <2> QED  BY <1>2, <1>4, <2>1
<1>6. Len(l) = Len(s)
  BY <1>1, <1>2, <1>4
<1>7. l = s
  BY <1>4, <1>5, <1>6, SeqEqual
<1> QED  BY <1>7 DEF l, t

\* Whoever gives up leaves the line where it stands in it, and nobody else moves.
LEMMA GiveUpLeaves ==
  ASSUME IInv, IInv', NEW p \in Request, GiveUp(p)
  PROVE  LineStep
<1>1. op[p].at = "waiting" /\ Moves(p, "gone", op[p].todo) /\ queue \in Seq(Request)
  BY GoesMeans DEF GiveUp, At, IInv, Place, Types
<1>2. CASE owner = p
  <2>1. InLine = <<p>> \o queue /\ ~Busy /\ Len(InLine) = Len(queue) + 1 /\ Len(queue) \in Nat
    BY <1>1, <1>2, InLineMeans, QueueMeans
  <2>2. InLine' = queue /\ ~Busy'
    BY <1>1, <1>2, HandOverKeeps DEF GiveUp, LeavesQueue, Locking
  <2>3. InLine' = RemoveAt(InLine, 1)
    BY <1>1, <2>1, <2>2, RemoveFirstOf
  <2>4. Line!GiveUp(1)
    BY <2>1, <2>2, <2>3 DEF Line!GiveUp, Line!RemoveAt, RemoveAt, Busy
  <2>5. 1 \in 1 .. Len(InLine)
    BY <2>1
  <2> QED  BY <2>4, <2>5 DEF LineStep, Line!Next
<1>3. CASE owner # p
  <2>1. UNCHANGED owner /\ \E i \in 1 .. Len(queue) : queue[i] = p /\ queue' = RemoveAt(queue, i)
    BY <1>3 DEF GiveUp, LeavesQueue
  <2>2. PICK i \in 1 .. Len(queue) : queue[i] = p /\ queue' = RemoveAt(queue, i)
    BY <2>1
  <2>3. Len(queue) \in Nat /\ owner # None /\ owner \in Request /\ op'[owner] = op[owner]
    BY <1>1, <1>3, <2>2, QueueMeans DEF IInv, Types, Moves
  <2>4. Busy' <=> Busy
    BY <1>1 DEF Busy, At, Moves
  <2>5. CASE op[owner].at = "returning"
    <3>1. InLine = queue /\ InLine' = RemoveAt(queue, i) /\ ~Busy
      BY <2>1, <2>2, <2>3, <2>5, InLineMeans DEF InLine
    <3>2. Line!GiveUp(i)
      BY <2>4, <3>1 DEF Line!GiveUp, Line!RemoveAt, RemoveAt, Busy
    <3> QED  BY <3>1, <3>2 DEF LineStep, Line!Next
  <2>6. CASE op[owner].at # "returning"
    <3>1. op[owner].at \in {"waiting", "calling"}
      BY <2>3, <2>6 DEF IInv, Owned, Locking
    <3>2. InLine = <<owner>> \o queue /\ InLine' = <<owner>> \o RemoveAt(queue, i)
      BY <2>1, <2>2, <2>3, <3>1 DEF InLine
    <3>3. InLine' = RemoveAt(InLine, i + 1)
      BY <1>1, <2>3, <3>2, RemoveBehind
    <3>4. i + 1 \in 1 .. Len(InLine) /\ i + 1 # 1
      BY <2>3, <2>6, InLineMeans
    <3>5. Line!GiveUp(i + 1)
      BY <2>4, <3>3, <3>4 DEF Line!GiveUp, Line!RemoveAt, RemoveAt, Busy
    <3> QED  BY <3>4, <3>5 DEF LineStep, Line!Next
  <2> QED  BY <2>5, <2>6
<1> QED  BY <1>2, <1>3

\* Every step is one of the line, or none.
LEMMA NextKeepsLine == IInv /\ IInv' /\ [Next]_vars => LineStep
<1> SUFFICES ASSUME IInv, IInv', [Next]_vars PROVE LineStep
  OBVIOUS
<1>1. ASSUME UNCHANGED <<owner, queue, op>> PROVE LineStep
  BY <1>1, Stays DEF InLine, Busy, At
<1>2. CASE Opens \/ Disconnect \/ UNCHANGED vars
  BY <1>1, <1>2 DEF Opens, Disconnect, vars
<1>3. ASSUME NEW p \in Request, NEW commands \in Operation, Begin(p, commands) PROVE LineStep
  <2>1. op[p].at = "idle" /\ UNCHANGED <<owner, queue>>
    BY <1>3 DEF Begin, At
  <2>2. commands \in Seq(Access)
    <3>1. op'[p].todo = commands /\ op'[p].todo \in Seq(Access)
      BY <1>3 DEF Begin, IInv, Types
    <3> QED  BY <3>1
  <2>3. Moves(p, "next", commands)
    BY <1>3, <2>2, BecomesMeans DEF Begin, IInv, Place
  <2> QED  BY <2>1, <2>3, AsideStays DEF Locking
<1>4. ASSUME NEW p \in Request, Address(p) \/ TakeSlot(p) PROVE LineStep
  <2>1. op[p].at \notin Locking /\ UNCHANGED <<owner, queue>>
    BY <1>4 DEF Address, TakeSlot, At, Locking
  <2>2. PICK place \in {"slot", "join"} : Moves(p, place, op[p].todo)
    BY <1>4, GoesMeans DEF Address, TakeSlot, IInv, Place
  <2> QED  BY <2>1, <2>2, AsideStays DEF Locking
<1>5. ASSUME NEW p \in Request, Missing(p) \/ Saturated(p) \/ ReturnSlot(p) PROVE LineStep
  <2>1. op[p].at \notin Locking /\ UNCHANGED <<owner, queue>>
    BY <1>5 DEF Missing, Saturated, ReturnSlot, At, Locking
  <2>2. Moves(p, "idle", <<>>)
    BY <1>5, EndsMeans DEF Missing, Saturated, ReturnSlot, IInv
  <2> QED  BY <2>1, <2>2, AsideStays DEF Locking
<1>6. ASSUME NEW p \in Request, Proceeds(p) PROVE LineStep
  BY <1>4, <1>5, <1>6, JoinQueueJoins, GrantedStarts, UnlockStays, Zenon DEF Proceeds
<1> QED  BY <1>2, <1>3, <1>6, ReturnFinishes, GiveUpLeaves, Zenon DEF Next

\* Slots and mutex of a session are one line with MaxSlots places, whose commands
\* are executed one at a time in the order of joining, also when someone in the
\* middle of it gives up or is handed the mutex just then: SessionClient
\* implements CommandLine.
THEOREM LineKept == Spec => KeepsLine
<1>1. Init => Line!Init
  BY DEF Init, Line!Init, InLine, Idle, At
<1>2. IInv /\ IInv' /\ [Next]_vars => [Line!Next]_(Line!lineVars)
  BY NextKeepsLine DEF LineStep
<1> QED  BY <1>1, <1>2, LineInvariant, PTL DEF Spec, KeepsLine, Line!Spec

=============================================================================
