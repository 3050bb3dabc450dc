-------------------------- MODULE ResourcesProofs --------------------------
(***************************************************************************)
(* Proofs about Resources for any collections whose tables fit, and any    *)
(* number of sessions, objects and pages: what a refused request has       *)
(* changed, which changes are audited, that the usages of a shared table   *)
(* stay apart, and that updates and creations write what the body says.    *)
(*                                                                         *)
(* The argument follows the commands a request still has to send: what of  *)
(* the table of its operation is left in todo, what has been looked up or  *)
(* read by the commands already answered, and that an object, once there,  *)
(* keeps its usage and never comes back to life, whoever else is at work.  *)
(***************************************************************************)
EXTENDS Resources, SequenceTheorems, TLAPS

Parts == {"pc", "op", "id", "bearer", "body", "ultimate", "page", "per", "descending",
          "filterId", "filter", "todo", "known", "read", "wrote", "audit", "answer"}

\* gvmd's store: every object has its parts, and one not there yet is of the
\* collection's own usage.
Stored ==
    /\ DOMAIN store = Ids
    /\ \A i \in Ids :
         /\ DOMAIN store[i] = {"state", "own", "used", "fields"}
         /\ DOMAIN store[i].fields = FieldsOf(K)
         /\ store[i].state \in {"none", "live", "trash", "gone"}
         /\ store[i].state = "none" => store[i].own

Shaped(r) ==
    /\ DOMAIN r = Parts
    /\ DOMAIN r.answer = {"status", "view", "page", "total"}
    /\ r.wrote \in BOOLEAN

\* What the stage of a request says about it: it has written and answered
\* nothing before its first command, and the checks of the handler have passed.
Staged(k, r) ==
    /\ r.pc \in {"idle", "accepted", "running", "answered", "dropped"}
    /\ r.pc \in {"idle", "accepted"} => ~r.wrote
    /\ r.pc \in {"idle", "accepted", "running"} => r.answer.status = "none"
    /\ r.pc = "running" => r.audit = "start"
    /\ r.pc # "idle" => r.op \in DOMAIN k.handlers
    /\ r.pc \in {"accepted", "running"} =>
         /\ k.handlers[r.op] \in WithId \cup WithName => r.id \in Ids
         /\ r.op = "create" => /\ DOMAIN r.body = DOMAIN k.create.dto.fields
                               /\ Accepts(k.create.dto, r.body)
         /\ r.op = "modify" => /\ DOMAIN r.body = DOMAIN k.modify.dto.fields
                               /\ Accepts(k.modify.dto, r.body)
    /\ (r.pc = "running" /\ r.op = "modify") => Takes(k.modify.port, Into(k.modify.input, r.body))

\* A command that may follow the change an operation makes.
Afterwards(name, r, command) ==
    /\ r.op = "modify"
    /\ command = "get" \/ (command = "getOwn" /\ <<name, r.op>> \in Unscoped)

\* The commands a running request has left.
Sequenced(name, k, r) ==
    /\ r.todo \in Seq(Changes \cup Looks)
    /\ r.todo # <<>>
    /\ (r.wrote \/ \E n \in DOMAIN r.todo : r.todo[n] \in Changes) =>
         k.usecases[r.op] \notin {"list", "read"}
    /\ r.wrote => \A n \in DOMAIN r.todo : Afterwards(name, r, r.todo[n])
    /\ \A n, m \in DOMAIN r.todo :
         (n < m /\ r.todo[n] \in Changes) => Afterwards(name, r, r.todo[m])
    /\ \A n \in DOMAIN r.todo :
         /\ r.todo[n] = "modify" => r.op = "modify"
         /\ (r.op \in {"create", "modify"} /\ r.todo[n] \in Changes) => r.todo[n] = r.op
         /\ r.todo[n] \in Lists => r.op = "list"
         /\ r.todo[n] \in OnObject => r.id \in Ids

\* An update that repeats a value has read it, or is going to before it writes.
ReadFirst(k, r) ==
    \A n \in DOMAIN r.todo :
      (r.todo[n] = "modify" /\ Repeats(k, r)) =>
        \/ \E m \in DOMAIN r.todo : m < n /\ r.todo[m] = "get"
        \/ DOMAIN r.known = FieldsOf(k)

\* An update writes, and reads the object back afterwards.
Finishing(r) ==
    r.op = "modify" =>
      /\ r.wrote \/ \E n \in DOMAIN r.todo : r.todo[n] = "modify"
      /\ \A n \in DOMAIN r.todo : r.todo[n] = "modify" =>
           \E m \in DOMAIN r.todo : n < m /\ r.todo[m] \in {"get", "getOwn"}

\* The object of a request is one of the collection's own, and stays it.
OwnObject(r) == r.id \in Ids => store[r.id].own /\ store[r.id].state # "none"

\* In a shared table the object is the collection's own where the lookup has
\* been answered.
LookedUp(name, r) ==
    /\ r.pc = "running" =>
         /\ \A n \in DOMAIN r.todo :
              (r.todo[n] \in {"modify", "delete", "act"} /\ <<name, r.op>> \notin Unscoped) =>
                OwnObject(r) \/ \E m \in DOMAIN r.todo : m < n /\ r.todo[m] = "getOwn"
         /\ r.op = "get" => OwnObject(r) \/ \E m \in DOMAIN r.todo : r.todo[m] = "getOwn"
    /\ (r.op = "get" /\ r.answer.status = "ok") => OwnObject(r)

\* RefusedChangesNothing for one request, and that an updated object exists.
Truthful(name, r) ==
    r.wrote => /\ r.op = "modify" => r.id \in Ids /\ store[r.id].state # "none"
               /\ r.answer.status \notin {"none", "ok", "Backend"} =>
                    r.op = "modify" /\ r.answer.status \in Failures \cup {"NotFound"}
               /\ r.answer.status = "NotFound" =>
                    store[r.id].state # "live" \/ <<name, r.op>> \in Unscoped

Local(s) ==
    /\ Shaped(req[s])
    /\ Staged(K, req[s])
    /\ req[s].pc = "running" =>
         Sequenced(kind, K, req[s]) /\ ReadFirst(K, req[s]) /\ Finishing(req[s])

Remote(s) == Truthful(kind, req[s]) /\ (K.scoped => LookedUp(kind, req[s]))

\* The inductive invariant.
IInv ==
    /\ kind \in DOMAIN Kinds
    /\ Stored
    /\ DOMAIN req = Sessions
    /\ \A s \in Sessions : Local(s) /\ Remote(s)

----------------------------------------------------------------------------
(* gvmd's store *)

\* What no step undoes: an object that is there keeps its usage, and one that
\* was deleted stays deleted.
Ages ==
    /\ Stored'
    /\ \A i \in Ids : store[i].state # "none" =>
         /\ store'[i].state # "none"
         /\ store'[i].own = store[i].own
         /\ store[i].state # "live" => store'[i].state # "live"

LEMMA FreshExists ==
  ASSUME \E i \in Ids : store[i].state = "none"
  PROVE  Fresh \in Ids /\ store[Fresh].state = "none"
BY DEF Fresh

\* The shape of an object that does not exist yet.
LEMMA NoObjectShape ==
  /\ DOMAIN NoObject = {"state", "own", "used", "fields"}
  /\ DOMAIN NoObject.fields = FieldsOf(K)
  /\ NoObject.state = "none" /\ NoObject.own = TRUE
BY DEF NoObject, Each

LEMMA WrittenShape ==
  ASSUME NEW s, NEW before, NEW layers
  PROVE  DOMAIN Written(s, before, layers) = DOMAIN before
BY DEF Written

\* Whatever command gvmd carries out, the store ages.
LEMMA EffectAges ==
  ASSUME IInv, NEW s \in Sessions, req[s].pc = "running", CarriedOut(s),
         store' = Effect(s), kind' = kind
  PROVE  Ages
<1> DEFINE c == Command(s)
           id == req[s].id
<1>1. Stored /\ Sequenced(kind, K, req[s]) /\ K' = K
  BY DEF IInv, Local, K
<1>2. c \in Changes \cup Looks /\ c = req[s].todo[1] /\ 1 \in DOMAIN req[s].todo
  BY <1>1, HeadTailProperties DEF Sequenced, Command
<1>3. c \in OnObject => id \in Ids
  BY <1>1, <1>2 DEF Sequenced
<1>4. c \in OnObject => store[id].state = "live"
  BY DEF CarriedOut, Found, Object, OnObject, Lists
<1>5. c \in {"create", "clone"} => Fresh \in Ids /\ store[Fresh].state = "none"
  BY FreshExists DEF CarriedOut
<1>6. FieldsOf(K)' = FieldsOf(K)
  BY <1>1 DEF FieldsOf
<1> HIDE DEF c, id
<1>7. CASE c \notin Changes
  <2>1. store' = store
    BY <1>7 DEF Effect, Changes, c
  <2> QED  BY <2>1, <1>1, <1>6 DEF Ages, Stored
<1>8. CASE c = "modify"
  <2>1. store' = [store EXCEPT ![id].fields = Written(s, store[id].fields, K.modify)]
    BY <1>8 DEF Effect, c, id, Object
  <2> QED  BY <2>1, <1>1, <1>3, <1>4, <1>6, <1>8, WrittenShape DEF Ages, Stored, OnObject
<1>9. CASE c = "create"
  <2>1. store' = [store EXCEPT ![Fresh] = [NoObject EXCEPT !.state = "live",
                                             !.fields = Written(s, NoObject.fields, K.create)]]
    BY <1>9 DEF Effect, c
  <2> QED  BY <2>1, <1>1, <1>5, <1>6, <1>9, WrittenShape, NoObjectShape DEF Ages, Stored
<1>10. CASE c = "clone"
  <2>1. store' = [store EXCEPT ![Fresh] = store[id]]
    BY <1>10 DEF Effect, c, id, Object
  <2> QED  BY <2>1, <1>1, <1>3, <1>4, <1>5, <1>6, <1>10 DEF Ages, Stored, OnObject
<1>11. CASE c = "delete"
  <2>1. store' = [store EXCEPT ![id].state = IF req[s].ultimate THEN "gone" ELSE "trash"]
    BY <1>11 DEF Effect, c, id
  <2> QED  BY <2>1, <1>1, <1>3, <1>4, <1>6, <1>11 DEF Ages, Stored, OnObject
<1>12. CASE c = "act"
  <2>1. store' = [store EXCEPT ![id].used = @ \cup {s}]
    BY <1>12 DEF Effect, c, id
  <2> QED  BY <2>1, <1>1, <1>3, <1>4, <1>6, <1>12 DEF Ages, Stored, OnObject
<1> QED  BY <1>7, <1>8, <1>9, <1>10, <1>11, <1>12 DEF Changes

----------------------------------------------------------------------------
(* The first steps of a request *)

LEMMA InitInv == Init => IInv
<1> SUFFICES ASSUME Init PROVE IInv
  OBVIOUS
<1>1. kind \in DOMAIN Kinds /\ DOMAIN req = Sessions
  BY DEF Init
<1>2. Stored
  <2>1. ASSUME NEW i \in Ids, i \in {1, 2}
        PROVE  /\ DOMAIN store[i] = {"state", "own", "used", "fields"}
               /\ DOMAIN store[i].fields = FieldsOf(K)
               /\ store[i].state = "live"
    BY <2>1, NoObjectShape DEF Init, Each
  <2>2. ASSUME NEW i \in Ids, i \notin {1, 2}
        PROVE  store[i] = NoObject
    BY <2>2 DEF Init
  <2> QED  BY <2>1, <2>2, NoObjectShape DEF Stored, Init
<1>3. ASSUME NEW s \in Sessions
      PROVE  Local(s) /\ Remote(s)
  <2>1. req[s] = Idle
    BY DEF Init
  <2>2. Shaped(Idle)
    BY DEF Shaped, Idle, NoAnswer, Parts
  <2>3. Idle.pc = "idle" /\ ~Idle.wrote /\ Idle.answer.status = "none" /\ Idle.op = "none"
    BY DEF Idle, NoAnswer
  <2> HIDE DEF Idle
  <2> QED  BY <2>1, <2>2, <2>3 DEF Local, Remote, Staged, Truthful, LookedUp
<1> QED  BY <1>1, <1>2, <1>3 DEF IInv

\* A step of one session leaves the requests of the others alone.
Alone(s) ==
    /\ DOMAIN req' = Sessions
    /\ \A t \in Sessions \ {s} : req'[t] = req[t]
    /\ kind' = kind

\* So it is enough to look at the store and at the session itself.
LEMMA OthersStay ==
  ASSUME IInv, NEW s \in Sessions, Alone(s), Ages, Local(s)', Remote(s)'
  PROVE  IInv'
<1>1. ASSUME NEW t \in Sessions, t # s
      PROVE  Local(t)' /\ Remote(t)'
  <2>1. req'[t] = req[t] /\ kind' = kind /\ K' = K
    BY <1>1 DEF Alone, K
  <2>2. Local(t) /\ Remote(t) /\ Stored
    BY DEF IInv
  <2>3. Local(t)'
    BY <2>1, <2>2 DEF Local
  <2>4. OwnObject(req[t]) => OwnObject(req[t])'
    BY <2>1 DEF OwnObject, Ages
  <2>5. K.scoped => LookedUp(kind, req[t])'
    BY <2>1, <2>2, <2>4 DEF LookedUp, Remote
  <2>6. Truthful(kind, req[t])'
    BY <2>1, <2>2 DEF Truthful, Remote, Ages
  <2> QED  BY <2>1, <2>3, <2>5, <2>6 DEF Remote
<1> QED  BY <1>1 DEF IInv, Alone, Ages

LEMMA SameStoreAges ==
  ASSUME Stored, UNCHANGED <<kind, store>>
  PROVE  Ages
BY DEF Ages, Stored, FieldsOf, K

\* The bodies tried have the members of the DTO.
LEMMA BodiesShape ==
  ASSUME NEW layers, NEW body \in {Complete(layers)} \cup Bodies(layers)
  PROVE  DOMAIN body = DOMAIN layers.dto.fields
BY DEF Bodies, Complete, Minimal

\* A request before the handler has looked at it.
LEMMA AskedShape ==
  ASSUME NEW s, NEW op, NEW r \in Asked(s, op)
  PROVE  /\ Shaped(r) /\ r.pc = "idle" /\ ~r.wrote /\ r.answer.status = "none"
         /\ r.op = op /\ r.id \in IdsNamed(s, op) /\ r.body \in BodiesSent(s, op)
<1>1. PICK body \in BodiesSent(s, op), id \in IdsNamed(s, op), bearer \in Bearers(s),
           ultimate \in Flag(K.handlers[op] \in {"delete_resource", "delete_rejecting_ultimate"}),
           filterId \in Flag("filter" \in Range(K.commands[op])),
           at \in PagesAsked(op),
           descending \in Flag("filter" \in Range(K.commands[op])) :
        r = Ask(op, id, bearer, body, ultimate, filterId, at, descending)
  BY DEF Asked
<1> QED  BY <1>1 DEF Ask, Idle, NoAnswer, Shaped, Parts

LEMMA SubmitInv ==
  ASSUME IInv, NEW s \in Sessions, Submit(s)
  PROVE  IInv'
<1>0. PICK op \in DOMAIN K.handlers :
        \E r \in Asked(s, op) : req' = [req EXCEPT ![s] = Handle(r)]
  BY DEF Submit
<1>1. PICK r \in Asked(s, op) : req' = [req EXCEPT ![s] = Handle(r)]
  BY <1>0
<1> DEFINE id == r.id
           body == r.body
<1>3. Alone(s) /\ Ages /\ req'[s] = Handle(r) /\ K' = K
  <2>1. UNCHANGED <<kind, store>> /\ Stored /\ DOMAIN req = Sessions
    BY DEF Submit, IInv
  <2> QED  BY <2>1, <1>1, SameStoreAges DEF Alone, K
<1>4. /\ Shaped(r) /\ r.pc = "idle" /\ ~r.wrote /\ r.answer.status = "none"
      /\ r.op = op /\ id \in IdsNamed(s, op) /\ body \in BodiesSent(s, op)
  BY AskedShape
<1>5. K.handlers[op] \in WithId \cup WithName /\ ~(K.handlers[op] \in WithId /\ id = 0)
        => id \in Ids
  BY <1>4, ResourcesAssumption DEF IdsNamed
<1>6. DOMAIN body = DOMAIN BodyOf(op).dto.fields
  BY <1>4, BodiesShape DEF BodiesSent
<1>7. Local(s)' /\ Remote(s)'
  <2>1. ASSUME NEW why \in {"InvalidInput", "Unauthorized"}, req'[s] = Refused(r, why)
        PROVE  Local(s)' /\ Remote(s)'
    <3>1. /\ Shaped(req'[s]) /\ req'[s].pc = "answered" /\ req'[s].answer.status = why
          /\ ~req'[s].wrote /\ req'[s].op = op
      BY <2>1, <1>4 DEF Refused, Shaped, Parts
    <3> QED  BY <3>1, <1>3 DEF Local, Remote, Staged, Truthful, LookedUp
  <2>2. ASSUME req'[s] = [r EXCEPT !.pc = "accepted"],
               ~(K.handlers[op] \in WithId /\ id = 0), Accepts(BodyOf(op).dto, body)
        PROVE  Local(s)' /\ Remote(s)'
    <3>1. /\ Shaped(req'[s]) /\ req'[s].pc = "accepted" /\ req'[s].answer.status = "none"
          /\ ~req'[s].wrote /\ req'[s].op = op /\ req'[s].id = id /\ req'[s].body = body
      BY <2>2, <1>4 DEF Shaped, Parts
    <3>2. op = "create" => BodyOf(op) = K.create
      BY DEF BodyOf
    <3>3. op = "modify" => BodyOf(op) = K.modify
      BY DEF BodyOf
    <3>4. Staged(K, req'[s])
      BY <3>1, <3>2, <3>3, <1>5, <1>6, <2>2 DEF Staged
    <3> QED  BY <3>1, <3>4, <1>3 DEF Local, Remote, Truthful, LookedUp
  <2> QED  BY <2>1, <2>2, <1>3, <1>4 DEF Handle
<1> QED  BY <1>3, <1>7, OthersStay

----------------------------------------------------------------------------
(* The use case starts *)

\* A sequence t is c, perhaps without its first element, perhaps behind one of X.
Shifted(t, c, X, d) ==
    /\ \A n \in DOMAIN t : \/ n + d \in DOMAIN c /\ t[n] = c[n + d]
                           \/ n = 1 /\ t[1] \in X
    /\ \A m \in DOMAIN c : (m > 1 \/ c[1] # "filter") => m - d \in DOMAIN t /\ t[m - d] = c[m]

LEMMA Prepended ==
  ASSUME NEW S, NEW x \in S, NEW e \in Seq(S), NEW t, t = <<x>> \o e
  PROVE  /\ t \in Seq(S) /\ Len(t) = Len(e) + 1 /\ DOMAIN t = 1 .. Len(e) + 1
         /\ t[1] = x
         /\ \A n \in 1 .. Len(e) : t[n + 1] = e[n]
<1>1. <<x>> \in Seq(S) /\ Len(<<x>>) = 1 /\ <<x>>[1] = x /\ Len(e) \in Nat
  BY LenProperties
<1>2. /\ t \in Seq(S) /\ Len(t) = Len(e) + 1
      /\ \A i \in 1 .. 1 + Len(e) : t[i] = IF i <= 1 THEN <<x>>[i] ELSE e[i - 1]
  BY <1>1, ConcatProperties
<1>3. DOMAIN t = 1 .. Len(e) + 1
  BY <1>2, LenProperties
<1>4. t[1] = x
  BY <1>1, <1>2
<1>5. ASSUME NEW n \in 1 .. Len(e)
      PROVE  t[n + 1] = e[n]
  <2>1. n + 1 \in 1 .. 1 + Len(e) /\ ~(n + 1 <= 1) /\ n + 1 - 1 = n
    BY <1>1
  <2> QED  BY <2>1, <1>2
<1> QED  BY <1>2, <1>3, <1>4, <1>5

LEMMA ShiftedSequence ==
  ASSUME NEW S, NEW c \in Seq(S), NEW x \in S, c # <<>>, NEW e,
         e = c \/ (c[1] = "filter" /\ e = Tail(c))
  PROVE  /\ e \in Seq(S)
         /\ \E d \in Int : Shifted(e, c, {}, d)
         /\ <<x>> \o e \in Seq(S)
         /\ \E d \in Int : Shifted(<<x>> \o e, c, {x}, d)
<1>1. /\ e \in Seq(S) /\ c \in Seq(S) /\ Len(c) \in Nat /\ Len(e) \in Nat
      /\ DOMAIN c = 1 .. Len(c) /\ DOMAIN e = 1 .. Len(e) /\ Len(c) > 0
  <2>1. e \in Seq(S)
    BY HeadTailProperties
  <2>2. c \in Seq(S) /\ Len(c) > 0
    BY EmptySeq
  <2> QED  BY <2>1, <2>2, LenProperties
<1>2. PICK a \in {0, 1} : /\ Len(e) = Len(c) - a
                          /\ \A n \in 1 .. Len(e) : e[n] = c[n + a]
                          /\ a = 1 => c[1] = "filter"
  <2>1. CASE e = c
    BY <2>1, <1>1
  <2>2. CASE c[1] = "filter" /\ e = Tail(c)
    BY <2>2, <1>1, HeadTailProperties
  <2> QED  BY <2>1, <2>2
<1>3. Shifted(e, c, {}, a)
  BY <1>1, <1>2 DEF Shifted
<1>4. <<x>> \o e \in Seq(S) /\ Shifted(<<x>> \o e, c, {x}, a - 1)
  <2> DEFINE t == <<x>> \o e
  <2>0. e \in Seq(S) /\ t = <<x>> \o e
    BY <1>1
  <2> HIDE DEF t
  <2>1. /\ t \in Seq(S) /\ DOMAIN t = 1 .. Len(e) + 1 /\ t[1] = x
        /\ \A n \in 1 .. Len(e) : t[n + 1] = e[n]
    BY ONLY <2>0, x \in S, Prepended
  <2>2. ASSUME NEW n \in DOMAIN t
        PROVE  \/ n + (a - 1) \in DOMAIN c /\ t[n] = c[n + (a - 1)]
               \/ n = 1 /\ t[1] = x
    <3>1. CASE n = 1
      BY <3>1, <2>1
    <3>2. CASE n # 1
      <4>1. n - 1 \in 1 .. Len(e) /\ n - 1 + 1 = n
        BY ONLY n \in DOMAIN t, <3>2, <2>1, <1>1
      <4>2. t[n] = e[n - 1]
        BY <4>1, <2>1
      <4>3. e[n - 1] = c[n - 1 + a] /\ n - 1 + a = n + (a - 1) /\ n + (a - 1) \in 1 .. Len(c)
        BY <4>1, <1>1, <1>2
      <4> QED  BY <4>2, <4>3, <1>1
    <3> QED  BY <3>1, <3>2
  <2>3. ASSUME NEW m \in DOMAIN c, m > 1 \/ c[1] # "filter"
        PROVE  m - (a - 1) \in DOMAIN t /\ t[m - (a - 1)] = c[m]
    <3>1. m - a \in 1 .. Len(e) /\ m - (a - 1) \in 1 .. Len(e) + 1
      BY <2>3, <1>1, <1>2
    <3>2. t[m - a + 1] = e[m - a] /\ m - a + 1 = m - (a - 1)
      BY ONLY a \in {0, 1}, m \in DOMAIN c, <3>1, <2>1, <1>1
    <3>3. e[m - a] = c[m - a + a] /\ m - a + a = m
      BY <3>1, <1>1, <1>2
    <3> QED  BY <3>1, <3>2, <3>3, <2>1
  <2>4. Shifted(t, c, {x}, a - 1)
    BY <2>2, <2>3 DEF Shifted
  <2> QED  BY <2>0, <2>1, <2>4
<1>5. a \in Int /\ a - 1 \in Int
  OBVIOUS
<1> QED  BY <1>1, <1>3, <1>4, <1>5

\* What the table says of the commands of an operation holds of those a request
\* is going to send.
LEMMA TodoFits ==
  ASSUME IInv, NEW s \in Sessions, req[s].pc = "accepted",
         NEW q, q.op = req[s].op, q.id = req[s].id, q.body = req[s].body,
         q.todo = Todo(req[s]), q.wrote = FALSE
  PROVE  /\ Sequenced(kind, K, q)
         /\ ReadFirst(K, q) /\ Finishing(q)
         /\ K.scoped =>
              /\ \A n \in DOMAIN q.todo :
                   (q.todo[n] \in {"modify", "delete", "act"} /\ <<kind, q.op>> \notin Unscoped) =>
                     \E m \in DOMAIN q.todo : m < n /\ q.todo[m] = "getOwn"
              /\ q.op = "get" => \E m \in DOMAIN q.todo : q.todo[m] = "getOwn"
<1> DEFINE r == req[s]
           op == r.op
           c == K.commands[op]
           e == IF Head(c) = "filter" /\ ~r.filterId THEN Tail(c) ELSE c
           b == Repeats(K, r)
           t == Todo(r)
<1>1. Staged(K, r) /\ kind \in DOMAIN Kinds /\ op \in DOMAIN K.handlers
  BY DEF IInv, Local, Staged
<1>2. CommandsFit(kind, op) /\ (K.scoped => LooksUpFirst(kind, op))
  BY <1>1, TablesAssumption DEF K
<1>3. c \in Seq(Changes \cup Looks) /\ c # <<>>
  BY <1>2 DEF CommandsFit, K
<1>4. b \in BOOLEAN /\ "get" \in Changes \cup Looks
  BY DEF Repeats, Looks
<1>5. t = IF b THEN <<"get">> \o e ELSE e
  <2>1. e \in Seq(Changes \cup Looks)
    BY <1>3, HeadTailProperties
  <2>2. <<>> \o e = e
    BY <2>1, ConcatEmptySeq
  <2> QED  BY <2>2 DEF Todo
<1>6. e = c \/ (c[1] = "filter" /\ e = Tail(c))
  BY <1>3
<1> HIDE DEF c, e, b, t
<1>7. t \in Seq(Changes \cup Looks) /\ \E d \in Int : Shifted(t, c, IF b THEN {"get"} ELSE {}, d)
  <2> DEFINE S == Changes \cup Looks
             x == "get"
  <2>1. c \in Seq(S) /\ c # <<>> /\ x \in S /\ b \in BOOLEAN
    BY <1>3, <1>4
  <2> HIDE DEF S, x
  <2>2. /\ e \in Seq(S)
        /\ \E d \in Int : Shifted(e, c, {}, d)
        /\ <<x>> \o e \in Seq(S)
        /\ \E d \in Int : Shifted(<<x>> \o e, c, {x}, d)
    BY ONLY <2>1, <1>6, ShiftedSequence
  <2>3. CASE b
    <3>1. t = <<x>> \o e /\ b = TRUE
      BY <2>3, <1>4, <1>5 DEF x
    <3> QED  BY <3>1, <2>2 DEF S, x
  <2>4. CASE ~b
    <3>1. t = e /\ b = FALSE
      BY <2>4, <1>4, <1>5
    <3> QED  BY <3>1, <2>2 DEF S, x
  <2> QED  BY <2>3, <2>4
<1>8. PICK d \in Int : Shifted(t, c, IF b THEN {"get"} ELSE {}, d)
  BY <1>7
<1>9. /\ \A n \in DOMAIN t : \/ n + d \in DOMAIN c /\ t[n] = c[n + d]
                             \/ b /\ n = 1 /\ t[n] = "get"
      /\ \A m \in DOMAIN c : (m > 1 \/ c[1] # "filter") => m - d \in DOMAIN t /\ t[m - d] = c[m]
  BY <1>8 DEF Shifted
<1>10. DOMAIN t \subseteq Int /\ DOMAIN c \subseteq Int /\ \A n \in DOMAIN t : n >= 1
  BY <1>3, <1>7, LenProperties
<1>11. b => 1 \in DOMAIN t /\ t[1] = "get"
  <2> SUFFICES ASSUME b PROVE 1 \in DOMAIN t /\ t[1] = "get"
    OBVIOUS
  <2> DEFINE S == Changes \cup Looks
             x == "get"
  <2>1. t = <<x>> \o e /\ x \in S /\ e \in Seq(S)
    BY <1>3, <1>4, <1>5, <1>6, HeadTailProperties
  <2> HIDE DEF S, x
  <2>2. DOMAIN t = 1 .. Len(e) + 1 /\ t[1] = x /\ Len(e) \in Nat
    BY ONLY <2>1, Prepended, LenProperties
  <2> QED  BY <2>2 DEF x
<1>12. q.todo = t /\ q.op = op /\ q.id = r.id /\ Kinds[kind] = K
  BY DEF t, K
<1>13. b => op = "modify" /\ r.id \in Ids
  BY <1>1, <1>2 DEF b, Repeats, CommandsFit, Staged, K
<1>14. ASSUME NEW n \in DOMAIN c
       PROVE  c[n] \in OnObject => r.id \in Ids
  BY <1>1, <1>2, <1>12 DEF CommandsFit, Staged, c
<1>15. Sequenced(kind, K, q)
  <2>1. t # <<>>
    <3>1. 1 \in DOMAIN c /\ (c[1] = "filter" => 2 \in DOMAIN c)
      <4>1. Len(c) \in Nat \ {0} /\ DOMAIN c = 1 .. Len(c)
        BY <1>3, EmptySeq, LenProperties
      <4> QED  BY <4>1, <1>2, <1>12 DEF CommandsFit, c
    <3>2. DOMAIN t # {}
      BY <3>1, <1>9
    <3> QED  BY <3>2
  <2>2. (\E n \in DOMAIN t : t[n] \in Changes) => K.usecases[op] \notin {"list", "read"}
    BY <1>2, <1>9, <1>12 DEF CommandsFit, c, Changes
  <2>3. ASSUME NEW n \in DOMAIN t, NEW m \in DOMAIN t, n < m, t[n] \in Changes
        PROVE  Afterwards(kind, q, t[m])
    <3>1. n + d \in DOMAIN c /\ t[n] = c[n + d]
      BY <2>3, <1>9 DEF Changes
    <3>2. m + d \in DOMAIN c /\ t[m] = c[m + d]
      BY <2>3, <1>9, <1>10
    <3>3. n + d < m + d
      BY <2>3, <1>10
    <3> QED  BY <3>1, <3>2, <3>3, <2>3, <1>2, <1>12 DEF CommandsFit, Afterwards, c
  <2>4. ASSUME NEW n \in DOMAIN t
        PROVE  /\ t[n] = "modify" => op = "modify"
               /\ (op \in {"create", "modify"} /\ t[n] \in Changes) => t[n] = op
               /\ t[n] \in Lists => op = "list"
               /\ t[n] \in OnObject => r.id \in Ids
    <3>1. CASE n + d \in DOMAIN c /\ t[n] = c[n + d]
      BY <3>1, <1>2, <1>12, <1>14 DEF CommandsFit, c
    <3>2. CASE b /\ t[n] = "get"
      BY <3>2, <1>13 DEF Changes, Lists
    <3> QED  BY <3>1, <3>2, <1>9
  <2> QED  BY <2>1, <2>2, <2>3, <2>4, <1>7, <1>12 DEF Sequenced
<1>16. ReadFirst(K, q)
  <2>1. Repeats(K, q) <=> b
    BY <1>12 DEF Repeats, b
  <2>2. ASSUME NEW n \in DOMAIN t, t[n] = "modify", b
        PROVE  \E m \in DOMAIN t : m < n /\ t[m] = "get"
    BY <2>2, <1>10, <1>11
  <2> QED  BY <2>1, <2>2, <1>12 DEF ReadFirst
<1>17. ASSUME K.scoped
       PROVE  /\ \A n \in DOMAIN t :
                   (t[n] \in {"modify", "delete", "act"} /\ <<kind, op>> \notin Unscoped) =>
                     \E m \in DOMAIN t : m < n /\ t[m] = "getOwn"
              /\ op = "get" => \E m \in DOMAIN t : t[m] = "getOwn"
  <2>1. ASSUME NEW m \in DOMAIN c, c[m] = "getOwn"
        PROVE  m - d \in DOMAIN t /\ t[m - d] = "getOwn"
    <3>1. m = 1 => c[1] # "filter"
      BY <2>1
    <3>2. m >= 1
      BY <1>3, LenProperties
    <3> QED  BY <2>1, <3>1, <3>2, <1>9, <1>10
  <2>2. ASSUME NEW n \in DOMAIN t, t[n] \in {"modify", "delete", "act"},
               <<kind, op>> \notin Unscoped
        PROVE  \E m \in DOMAIN t : m < n /\ t[m] = "getOwn"
    <3>1. n + d \in DOMAIN c /\ t[n] = c[n + d]
      BY <2>2, <1>9
    <3>2. PICK m \in DOMAIN c : m < n + d /\ c[m] = "getOwn"
      BY <3>1, <2>2, <1>2, <1>12, <1>17 DEF LooksUpFirst, c
    <3> QED  BY <3>2, <2>1, <1>10
  <2>3. op = "get" => \E m \in DOMAIN t : t[m] = "getOwn"
    BY <2>1, <1>2, <1>12, <1>17 DEF LooksUpFirst, c
  <2> QED  BY <2>2, <2>3
<1>18. Finishing(q)
  <2> SUFFICES ASSUME op = "modify"
               PROVE  /\ \E n \in DOMAIN t : t[n] = "modify"
                      /\ \A n \in DOMAIN t : t[n] = "modify" =>
                           \E m \in DOMAIN t : n < m /\ t[m] \in {"get", "getOwn"}
    BY <1>12 DEF Finishing
  <2>1. /\ \E n \in DOMAIN c : c[n] = "modify"
        /\ \A n \in DOMAIN c : c[n] = "modify" =>
             \E m \in DOMAIN c : n < m /\ c[m] \in {"get", "getOwn"}
    BY <1>1, <1>12, TablesAssumption DEF UpdateFits, c
  <2>2. ASSUME NEW m \in DOMAIN c, c[m] \in {"modify", "get", "getOwn"}
        PROVE  m - d \in DOMAIN t /\ t[m - d] = c[m]
    <3>1. m = 1 => c[1] # "filter"
      BY <2>2
    <3>2. m >= 1
      BY <1>3, LenProperties
    <3> QED  BY <2>2, <3>1, <3>2, <1>9, <1>10
  <2>3. \E n \in DOMAIN t : t[n] = "modify"
    BY <2>1, <2>2
  <2>4. ASSUME NEW n \in DOMAIN t, t[n] = "modify"
        PROVE  \E m \in DOMAIN t : n < m /\ t[m] \in {"get", "getOwn"}
    <3>1. n + d \in DOMAIN c /\ c[n + d] = "modify"
      BY <2>4, <1>9
    <3>2. PICK m \in DOMAIN c : n + d < m /\ c[m] \in {"get", "getOwn"}
      BY <3>1, <2>1
    <3> QED  BY <3>2, <2>2, <1>10
  <2> QED  BY <2>3, <2>4
<1> QED  BY <1>12, <1>15, <1>16, <1>17, <1>18

LEMMA StartInv ==
  ASSUME IInv, NEW s \in Sessions, Start(s)
  PROVE  IInv'
<1> DEFINE r == req[s]
           q == req'[s]
           started == [r EXCEPT !.audit = "start"]
<1>1. r.pc = "accepted" /\ Shaped(r) /\ Staged(K, r) /\ Stored /\ kind \in DOMAIN Kinds
  BY DEF Start, IInv, Local
<1>2. UNCHANGED <<kind, store>> /\ K' = K /\ DOMAIN req = Sessions
  BY DEF Start, IInv, K
<1>3. Alone(s) /\ Ages
  BY <1>1, <1>2, SameStoreAges DEF Start, Alone
<1>4. /\ Shaped(started) /\ started.op = r.op /\ started.wrote = FALSE
      /\ started.id = r.id /\ started.body = r.body /\ started.audit = "start"
      /\ started.answer = r.answer
  BY <1>1 DEF Shaped, Parts, Staged
<1>5. \/ q = Refused(started, "SessionExpired")
      \/ q = [Refused(started, "InvalidInput") EXCEPT !.audit = "failure"]
      \/ /\ q = [started EXCEPT !.pc = "running", !.todo = Todo(r)]
         /\ Takes(BodyOf(r.op).port, Into(BodyOf(r.op).input, r.body))
  BY <1>2 DEF Start
<1> HIDE DEF started
<1>6. ASSUME \/ q = Refused(started, "SessionExpired")
             \/ q = [Refused(started, "InvalidInput") EXCEPT !.audit = "failure"]
      PROVE  Local(s)' /\ Remote(s)'
  <2>1. /\ Shaped(q) /\ q.pc = "answered" /\ q.op = r.op /\ ~q.wrote
        /\ q.answer.status \in {"SessionExpired", "InvalidInput"}
    <3> DEFINE x == Refused(started, "InvalidInput")
    <3>1. CASE q = Refused(started, "SessionExpired")
      BY <3>1, <1>4 DEF Refused, Shaped, Parts
    <3>2. CASE q = [x EXCEPT !.audit = "failure"]
      <4>1. /\ Shaped(x) /\ x.pc = "answered" /\ x.op = r.op /\ ~x.wrote
            /\ x.answer.status = "InvalidInput"
        BY <1>4 DEF Refused, Shaped, Parts
      <4> HIDE DEF x
      <4> QED  BY <4>1, <3>2 DEF Shaped, Parts
    <3> QED  BY <1>6, <3>1, <3>2
  <2> QED  BY <2>1, <1>1, <1>2 DEF Local, Remote, Staged, Truthful, LookedUp
<1>7. ASSUME q = [started EXCEPT !.pc = "running", !.todo = Todo(r)],
             Takes(BodyOf(r.op).port, Into(BodyOf(r.op).input, r.body))
      PROVE  Local(s)' /\ Remote(s)'
  <2>1. /\ Shaped(q) /\ q.pc = "running" /\ q.op = r.op /\ q.wrote = FALSE /\ q.id = r.id
        /\ q.body = r.body /\ q.todo = Todo(r) /\ q.audit = "start" /\ q.answer = r.answer
    BY <1>7, <1>4 DEF Shaped, Parts
  <2> HIDE DEF q
  <2>2. /\ Sequenced(kind, K, q)
        /\ ReadFirst(K, q) /\ Finishing(q)
        /\ K.scoped =>
              /\ \A n \in DOMAIN q.todo :
                   (q.todo[n] \in {"modify", "delete", "act"} /\ <<kind, q.op>> \notin Unscoped) =>
                     \E m \in DOMAIN q.todo : m < n /\ q.todo[m] = "getOwn"
              /\ q.op = "get" => \E m \in DOMAIN q.todo : q.todo[m] = "getOwn"
    BY <2>1, <1>1, TodoFits
  <2>3. Staged(K, q) /\ q.answer.status = "none"
    <3>1. r.op = "modify" => BodyOf(r.op) = K.modify
      BY DEF BodyOf
    <3> QED  BY <2>1, <1>1, <1>7, <3>1 DEF Staged
  <2>4. Local(s)'
    BY <2>1, <2>2, <2>3, <1>2 DEF Local, q
  <2>5. Remote(s)'
    BY <2>1, <2>2, <2>3, <1>2 DEF Remote, Truthful, LookedUp, q
  <2> QED  BY <2>4, <2>5
<1> QED  BY <1>3, <1>5, <1>6, <1>7, OthersStay

----------------------------------------------------------------------------
(* Commands *)

\* What every command leaves of a request, and what is left to send.
LEMMA NextCommand ==
  ASSUME IInv, NEW s \in Sessions, req[s].pc = "running"
  PROVE  /\ Command(s) = req[s].todo[1] /\ 1 \in DOMAIN req[s].todo
         /\ Command(s) \in Changes \cup Looks
         /\ Tail(req[s].todo) \in Seq(Changes \cup Looks)
         /\ DOMAIN Tail(req[s].todo) = {n \in Nat \ {0} : n + 1 \in DOMAIN req[s].todo}
         /\ \A n \in DOMAIN Tail(req[s].todo) : Tail(req[s].todo)[n] = req[s].todo[n + 1]
<1> DEFINE t == req[s].todo
<1>1. t \in Seq(Changes \cup Looks) /\ t # <<>>
  BY DEF IInv, Local, Sequenced
<1> HIDE DEF t
<1>2. /\ Head(t) = t[1] /\ Head(t) \in Changes \cup Looks /\ Tail(t) \in Seq(Changes \cup Looks)
      /\ Len(Tail(t)) = Len(t) - 1 /\ \A n \in 1 .. Len(Tail(t)) : Tail(t)[n] = t[n + 1]
  BY <1>1, HeadTailProperties
<1>3. DOMAIN t = 1 .. Len(t) /\ Len(t) \in Nat \ {0} /\ DOMAIN Tail(t) = 1 .. Len(Tail(t))
  BY <1>1, <1>2, LenProperties, EmptySeq
<1>4. 1 \in DOMAIN t /\ DOMAIN Tail(t) = {n \in Nat \ {0} : n + 1 \in DOMAIN t}
  BY <1>2, <1>3
<1> QED  BY <1>2, <1>3, <1>4 DEF Command, t

\* What the gateway keeps of an answer.
LEMMA KeepShape ==
  ASSUME IInv, NEW s \in Sessions, req[s].pc = "running"
  PROVE  /\ Shaped(Keep(s))
         /\ Keep(s).pc = "running" /\ Keep(s).audit = "start"
         /\ Keep(s).op = req[s].op /\ Keep(s).id = req[s].id /\ Keep(s).body = req[s].body
         /\ Keep(s).filterId = req[s].filterId
         /\ Keep(s).answer.status = "none"
         /\ Keep(s).wrote = (req[s].wrote \/ Command(s) \in Changes)
         /\ Keep(s).read = IF Command(s) \in {"get", "getOwn"} THEN Object(s).fields
                           ELSE req[s].read
         /\ Keep(s).known = IF Command(s) \in {"get", "getOwn"} /\ ~req[s].wrote
                            THEN Object(s).fields ELSE req[s].known
<1> DEFINE r == req[s]
           c == Command(s)
<1>1. /\ Shaped(r) /\ r.pc = "running" /\ r.audit = "start" /\ r.answer.status = "none"
      /\ c \in Changes \cup Looks /\ r.wrote \in BOOLEAN
  BY NextCommand DEF IInv, Local, Staged, Shaped
<1> HIDE DEF c, r
<1>2. CASE c \in {"get", "getOwn"}
  <2> DEFINE x == [r EXCEPT !.read = Object(s).fields]
             known == IF r.wrote THEN r.known ELSE Object(s).fields
  <2>1. Keep(s) = [x EXCEPT !.known = known] /\ c \notin Changes
    BY <1>1, <1>2 DEF Keep, c, r, Lists, Changes, Shaped, Parts
  <2>2. /\ Shaped(x) /\ x.pc = r.pc /\ x.audit = r.audit /\ x.op = r.op /\ x.id = r.id
        /\ x.body = r.body /\ x.filterId = r.filterId /\ x.answer = r.answer
        /\ x.wrote = r.wrote /\ x.read = Object(s).fields
    BY <1>1 DEF Shaped, Parts
  <2> HIDE DEF x, known
  <2>3. /\ Shaped(Keep(s)) /\ Keep(s).pc = r.pc /\ Keep(s).audit = r.audit /\ Keep(s).op = r.op
        /\ Keep(s).id = r.id /\ Keep(s).body = r.body /\ Keep(s).filterId = r.filterId
        /\ Keep(s).answer = r.answer /\ Keep(s).wrote = r.wrote
        /\ Keep(s).read = Object(s).fields /\ Keep(s).known = known
    BY <2>1, <2>2 DEF Shaped, Parts
  <2> QED  BY <2>1, <2>3, <1>1, <1>2 DEF c, r, known
<1>3. CASE c = "filter"
  <2>1. Keep(s) = [r EXCEPT !.filter = saved] /\ c \notin Changes
    BY <1>3 DEF Keep, c, r, Lists, Changes
  <2> QED  BY <2>1, <1>1, <1>3 DEF Shaped, Parts, c, r
<1>4. CASE c \in Lists
  <2>1. PICK p, n : Keep(s) = [r EXCEPT !.answer.page = p, !.answer.total = n]
    BY <1>4 DEF Keep, c, r, Lists
  <2>2. c \notin Changes /\ c \notin {"get", "getOwn"}
    BY <1>4 DEF Lists, Changes
  <2>3. /\ Shaped(Keep(s)) /\ Keep(s).pc = r.pc /\ Keep(s).audit = r.audit /\ Keep(s).op = r.op
        /\ Keep(s).id = r.id /\ Keep(s).body = r.body /\ Keep(s).filterId = r.filterId
        /\ Keep(s).wrote = r.wrote /\ Keep(s).read = r.read /\ Keep(s).known = r.known
        /\ Keep(s).answer.status = r.answer.status
    <3> DEFINE x == [r EXCEPT !.answer.page = p]
    <3>1. Keep(s) = [x EXCEPT !.answer.total = n]
      BY <2>1
    <3>2. /\ Shaped(x) /\ x.pc = r.pc /\ x.audit = r.audit /\ x.op = r.op
          /\ x.id = r.id /\ x.body = r.body /\ x.filterId = r.filterId
          /\ x.wrote = r.wrote /\ x.read = r.read /\ x.known = r.known
          /\ x.answer.status = r.answer.status
      BY <1>1 DEF Shaped, Parts
    <3> HIDE DEF x
    <3> QED  BY <3>1, <3>2 DEF Shaped, Parts
  <2> QED  BY <2>2, <2>3, <1>1 DEF c, r
<1>5. CASE c \in Changes
  <2>1. Keep(s) = [r EXCEPT !.wrote = TRUE] /\ c \notin {"get", "getOwn"}
    BY <1>5 DEF Keep, c, r, Lists, Changes
  <2> QED  BY <2>1, <1>1, <1>5 DEF Shaped, Parts, c, r
<1> QED  BY <1>1, <1>2, <1>3, <1>4, <1>5 DEF Looks

LEMMA AskAllShape ==
  ASSUME NEW s
  PROVE  /\ AskAll(s) \in Seq(Changes \cup Looks) /\ AskAll(s) # <<>>
         /\ \A n \in DOMAIN AskAll(s) : AskAll(s)[n] \in {"filter", "listAll", "listSortedAll"}
<1> DEFINE L == {"filter", "listAll", "listSortedAll"}
           a == IF req[s].filterId THEN <<"filter">> ELSE <<>>
           b == IF Sorts(Command(s)) THEN <<"listSortedAll">> ELSE <<"listAll">>
<1>0. AskAll(s) = a \o b
  BY DEF AskAll
<1>1. a \in Seq(L) /\ b \in Seq(L) /\ Len(b) = 1
  <2>1. <<>> \in Seq(L) /\ <<"filter">> \in Seq(L)
    OBVIOUS
  <2>2. <<"listAll">> \in Seq(L) /\ <<"listSortedAll">> \in Seq(L)
    OBVIOUS
  <2>3. b = <<"listAll">> \/ b = <<"listSortedAll">>
    OBVIOUS
  <2>4. Len(b) = 1
    BY <2>3
  <2> QED  BY <2>1, <2>2, <2>4
<1> HIDE DEF a, b
<1>2. AskAll(s) \in Seq(L) /\ Len(AskAll(s)) = Len(a) + 1 /\ Len(a) \in Nat
  <2> HIDE DEF L
  <2>1. a \o b \in Seq(L) /\ Len(a \o b) = Len(a) + Len(b)
    BY <1>1, ConcatProperties
  <2>2. Len(a) \in Nat
    BY <1>1, LenProperties
  <2> QED  BY <2>1, <2>2, <1>0, <1>1
<1>3. AskAll(s) # <<>>
  BY <1>2, EmptySeq
<1>4. DOMAIN AskAll(s) = 1 .. Len(AskAll(s)) /\ AskAll(s) \in [1 .. Len(AskAll(s)) -> L]
  BY <1>2, LenProperties
<1>5. AskAll(s) \in Seq(Changes \cup Looks)
  <2>1. L \subseteq Changes \cup Looks
    BY DEF Looks, Lists
  <2> HIDE DEF L
  <2> QED  BY <1>2, <2>1, SeqMonotonic
<1> QED  BY <1>3, <1>4, <1>5

LEMMA ExecuteShape ==
  ASSUME IInv, NEW s \in Sessions, Execute(s)
  PROVE  \E rest :
           /\ \/ rest = Tail(req[s].todo)
              \/ rest = AskAll(s) /\ Command(s) \in Lists
           /\ Shaped(req'[s])
           /\ req'[s].op = req[s].op /\ req'[s].id = req[s].id /\ req'[s].body = req[s].body
           /\ req'[s].wrote = (req[s].wrote \/ Command(s) \in Changes)
           /\ req'[s].read = IF Command(s) \in {"get", "getOwn"} THEN Object(s).fields
                             ELSE req[s].read
           /\ req'[s].known = IF Command(s) \in {"get", "getOwn"} /\ ~req[s].wrote
                              THEN Object(s).fields ELSE req[s].known
           /\ req'[s].todo = rest
           /\ IF rest = <<>>
              THEN /\ req'[s].pc = "answered" /\ req'[s].answer.status = "ok"
                   /\ K.handlers[req[s].op] = "update_resource" =>
                        req'[s].answer.view =
                          [f \in DOMAIN req'[s].read \cap K.shown |-> req'[s].read[f]]
              ELSE /\ req'[s].pc = "running" /\ req'[s].answer.status = "none"
                   /\ req'[s].audit = "start"
<1> DEFINE rest == IF ~AsksAll(s) THEN Tail(req[s].todo) ELSE AskAll(s)
           k == Keep(s)
           kept == [k EXCEPT !.todo = rest]
           q == req'[s]
<1>1. req[s].pc = "running" /\ DOMAIN req = Sessions
  BY DEF Execute, IInv
<1>2. q = IF rest = <<>> THEN Answered(kept) ELSE kept
  BY <1>1 DEF Execute
<1>3. AsksAll(s) => Command(s) \in Lists
  BY DEF AsksAll, Lists
<1>4. /\ Shaped(k)
      /\ k.pc = "running" /\ k.audit = "start"
      /\ k.op = req[s].op /\ k.id = req[s].id /\ k.body = req[s].body
      /\ k.answer.status = "none"
      /\ k.wrote = (req[s].wrote \/ Command(s) \in Changes)
      /\ k.read = IF Command(s) \in {"get", "getOwn"} THEN Object(s).fields ELSE req[s].read
      /\ k.known = IF Command(s) \in {"get", "getOwn"} /\ ~req[s].wrote
                   THEN Object(s).fields ELSE req[s].known
  BY <1>1, KeepShape
<1> HIDE DEF k, rest
<1>5. /\ Shaped(kept)
      /\ kept.pc = k.pc /\ kept.audit = k.audit /\ kept.op = k.op /\ kept.id = k.id
      /\ kept.body = k.body /\ kept.answer.status = k.answer.status
      /\ kept.wrote = k.wrote /\ kept.read = k.read /\ kept.known = k.known /\ kept.todo = rest
  BY <1>4 DEF Shaped, Parts
<1> HIDE DEF kept
<1>6. LET x == Answered(kept) IN
      /\ Shaped(x) /\ x.pc = "answered" /\ x.op = kept.op /\ x.id = kept.id /\ x.body = kept.body
      /\ x.answer.status = "ok" /\ x.wrote = kept.wrote /\ x.read = kept.read
      /\ x.known = kept.known /\ x.todo = kept.todo
      /\ K.handlers[kept.op] = "update_resource" =>
           x.answer.view = [f \in DOMAIN kept.read \cap K.shown |-> kept.read[f]]
  BY <1>5 DEF Answered, Shaped, Parts
<1>7. rest = Tail(req[s].todo) \/ (rest = AskAll(s) /\ Command(s) \in Lists)
  BY <1>3 DEF rest
<1> HIDE DEF q
<1>8. CASE rest = <<>>
  <2>1. q = Answered(kept)
    BY <1>2, <1>8
  <2>2. K.handlers[req[s].op] = "update_resource" =>
          q.answer.view = [f \in DOMAIN q.read \cap K.shown |-> q.read[f]]
    BY <2>1, <1>4, <1>5, <1>6
  <2>3. /\ Shaped(q) /\ q.pc = "answered" /\ q.answer.status = "ok" /\ q.todo = rest
        /\ q.op = req[s].op /\ q.id = req[s].id /\ q.body = req[s].body
        /\ q.wrote = k.wrote /\ q.read = k.read /\ q.known = k.known
    BY <2>1, <1>4, <1>5, <1>6
  <2> QED  BY <2>2, <2>3, <1>4, <1>7, <1>8 DEF q
<1>9. CASE rest # <<>>
  BY <1>2, <1>4, <1>5, <1>7, <1>9 DEF q
<1> QED  BY <1>8, <1>9

LEMMA ExecuteInv ==
  ASSUME IInv, NEW s \in Sessions, Execute(s)
  PROVE  IInv'
<1> DEFINE r == req[s]
           q == req'[s]
           c == Command(s)
           t == r.todo
<1>1. /\ r.pc = "running" /\ CarriedOut(s) /\ store' = Effect(s) /\ kind' = kind /\ K' = K
      /\ DOMAIN req = Sessions /\ Stored
  BY DEF Execute, IInv, K
<1>2. Ages /\ Alone(s)
  <2>1. Ages
    BY <1>1, EffectAges
  <2> QED  BY <2>1, <1>1 DEF Execute, Alone
<1>3. /\ Shaped(r) /\ Staged(K, r) /\ Sequenced(kind, K, r) /\ ReadFirst(K, r) /\ Finishing(r)
      /\ Truthful(kind, r) /\ (K.scoped => LookedUp(kind, r))
  BY <1>1 DEF IInv, Local, Remote
<1>4. /\ c = t[1] /\ 1 \in DOMAIN t /\ c \in Changes \cup Looks
      /\ Tail(t) \in Seq(Changes \cup Looks)
      /\ DOMAIN Tail(t) = {n \in Nat \ {0} : n + 1 \in DOMAIN t}
      /\ \A n \in DOMAIN Tail(t) : Tail(t)[n] = t[n + 1]
  BY <1>1, NextCommand
<1>5. DOMAIN t \subseteq Nat \ {0}
  BY <1>3, LenProperties DEF Sequenced
<1>6. PICK rest :
        /\ rest = Tail(t) \/ (rest = AskAll(s) /\ c \in Lists)
        /\ Shaped(q) /\ q.op = r.op /\ q.id = r.id /\ q.body = r.body
        /\ q.wrote = (r.wrote \/ c \in Changes)
        /\ q.known = IF c \in {"get", "getOwn"} /\ ~r.wrote THEN Object(s).fields ELSE r.known
        /\ q.todo = rest
        /\ IF rest = <<>>
           THEN q.pc = "answered" /\ q.answer.status = "ok"
           ELSE q.pc = "running" /\ q.answer.status = "none" /\ q.audit = "start"
  BY ExecuteShape
<1>7. c \in OnObject => r.id \in Ids /\ store[r.id].state = "live"
  BY <1>1, <1>3, <1>4 DEF CarriedOut, Found, Object, OnObject, Lists, Sequenced
<1>8. c = "getOwn" => OwnObject(r)
  BY <1>1, <1>7 DEF CarriedOut, Found, Object, OwnObject, OnObject, Lists
<1>9. (c \in {"get", "getOwn"} /\ ~r.wrote) => DOMAIN q.known = FieldsOf(K)
  BY <1>1, <1>6, <1>7 DEF Object, OnObject, Stored
<1>10. c \in Lists => r.op = "list" /\ ~r.wrote /\ c \notin Changes
  BY <1>3, <1>4 DEF Sequenced, Afterwards, Lists, Changes
<1> HIDE DEF r, q, c, t
<1>11. Staged(K, q)
  BY <1>1, <1>3, <1>6 DEF Staged, Changes
<1>12. Truthful(kind, req[s])'
  <2>1. ASSUME q.wrote, q.op = "modify"
        PROVE  q.id \in Ids /\ store'[q.id].state # "none"
    <3>1. r.id \in Ids /\ store[r.id].state # "none"
      <4>1. CASE r.wrote
        BY <4>1, <2>1, <1>3, <1>6 DEF Truthful
      <4>2. CASE c \in Changes
        <5>1. c \in OnObject
          BY <4>2, <2>1, <1>3, <1>4, <1>6 DEF Sequenced, OnObject, t
        <5> QED  BY <5>1, <1>7
      <4> QED  BY <4>1, <4>2, <2>1, <1>6
    <3> QED  BY <3>1, <1>2, <1>6 DEF Ages
  <2>2. q.answer.status \in {"ok", "none"}
    BY <1>6
  <2> QED  BY <2>1, <2>2, <1>1 DEF Truthful, q
<1>13. ASSUME q.pc = "running"
       PROVE  Sequenced(kind, K, q) /\ ReadFirst(K, q) /\ Finishing(q)
  <2>1. CASE rest = Tail(t)
    <3>1. q.todo = Tail(t) /\ Tail(t) # <<>>
      BY <2>1, <1>6, <1>13
    <3>2. q.wrote \/ (\E n \in DOMAIN q.todo : q.todo[n] \in Changes)
             => K.usecases[q.op] \notin {"list", "read"}
      <4>1. q.wrote \/ (\E n \in DOMAIN q.todo : q.todo[n] \in Changes)
               => r.wrote \/ \E n \in DOMAIN t : t[n] \in Changes
        BY <3>1, <1>4, <1>6
      <4> QED  BY <4>1, <1>3, <1>6 DEF Sequenced, t
    <3>3. ASSUME q.wrote, NEW n \in DOMAIN q.todo
          PROVE  Afterwards(kind, q, q.todo[n])
      <4>1. n + 1 \in DOMAIN t /\ q.todo[n] = t[n + 1] /\ 1 < n + 1
        BY <3>1, <3>3, <1>4
      <4>2. Afterwards(kind, r, t[n + 1])
        BY <4>1, <3>3, <1>3, <1>4, <1>6 DEF Sequenced, t
      <4> QED  BY <4>1, <4>2, <1>6 DEF Afterwards
    <3>4. ASSUME NEW n \in DOMAIN q.todo, NEW m \in DOMAIN q.todo, n < m, q.todo[n] \in Changes
          PROVE  Afterwards(kind, q, q.todo[m])
      <4>1. /\ n + 1 \in DOMAIN t /\ q.todo[n] = t[n + 1]
            /\ m + 1 \in DOMAIN t /\ q.todo[m] = t[m + 1] /\ n + 1 < m + 1
        BY <3>1, <3>4, <1>4
      <4>2. Afterwards(kind, r, t[m + 1])
        BY <4>1, <3>4, <1>3 DEF Sequenced, t
      <4> QED  BY <4>1, <4>2, <1>6 DEF Afterwards
    <3>5. ASSUME NEW n \in DOMAIN q.todo
          PROVE  /\ q.todo[n] = "modify" => q.op = "modify"
                 /\ (q.op \in {"create", "modify"} /\ q.todo[n] \in Changes) => q.todo[n] = q.op
                 /\ q.todo[n] \in Lists => q.op = "list"
                 /\ q.todo[n] \in OnObject => q.id \in Ids
      <4>1. n + 1 \in DOMAIN t /\ q.todo[n] = t[n + 1]
        BY <3>1, <1>4
      <4> QED  BY <4>1, <1>3, <1>6 DEF Sequenced, t
    <3>6. Sequenced(kind, K, q)
      BY <3>1, <3>2, <3>3, <3>4, <3>5, <1>4 DEF Sequenced
    <3>7. ReadFirst(K, q)
      <4> SUFFICES ASSUME NEW n \in DOMAIN q.todo, q.todo[n] = "modify", Repeats(K, q),
                          DOMAIN q.known # FieldsOf(K)
                   PROVE  \E m \in DOMAIN q.todo : m < n /\ q.todo[m] = "get"
        BY DEF ReadFirst
      <4>1. n + 1 \in DOMAIN t /\ t[n + 1] = "modify" /\ Repeats(K, r)
        BY <3>1, <1>4, <1>6 DEF Repeats
      <4>0. ~r.wrote
        BY <3>1, <3>6, <1>6 DEF Sequenced, Afterwards
      <4>2. c \notin {"get", "getOwn"} /\ q.known = r.known
        BY <4>0, <1>6, <1>9
      <4>3. PICK m \in DOMAIN t : m < n + 1 /\ t[m] = "get"
        BY <4>1, <4>2, <1>3 DEF ReadFirst, t
      <4>4. m \in Nat \ {0} /\ m # 1
        BY <4>2, <4>3, <1>4, <1>5
      <4>5. m - 1 \in Nat \ {0} /\ m - 1 + 1 = m /\ n \in Nat
        BY <4>4, <3>1, <1>4
      <4>6. m - 1 \in DOMAIN q.todo /\ q.todo[m - 1] = "get" /\ m - 1 < n
        BY <4>3, <4>5, <3>1, <1>4
      <4> QED  BY <4>6
    <3>8. Finishing(q)
      <4> SUFFICES ASSUME r.op = "modify"
                   PROVE  /\ q.wrote \/ \E n \in DOMAIN q.todo : q.todo[n] = "modify"
                          /\ \A n \in DOMAIN q.todo : q.todo[n] = "modify" =>
                               \E m \in DOMAIN q.todo : n < m /\ q.todo[m] \in {"get", "getOwn"}
        BY <1>6 DEF Finishing
      <4>1. /\ r.wrote \/ \E n \in DOMAIN t : t[n] = "modify"
            /\ \A n \in DOMAIN t : t[n] = "modify" =>
                 \E m \in DOMAIN t : n < m /\ t[m] \in {"get", "getOwn"}
        BY <1>3 DEF Finishing, t
      <4>2. ASSUME NEW m \in DOMAIN t, m # 1
            PROVE  m - 1 \in DOMAIN q.todo /\ q.todo[m - 1] = t[m]
        <5>1. m - 1 \in Nat \ {0} /\ m - 1 + 1 = m
          BY <4>2, <1>5
        <5> QED  BY <5>1, <3>1, <1>4
      <4>3. q.wrote \/ \E n \in DOMAIN q.todo : q.todo[n] = "modify"
        <5>1. CASE c = "modify"
          BY <5>1, <1>6 DEF Changes
        <5>2. CASE c # "modify"
          BY <5>2, <4>1, <4>2, <1>4, <1>6
        <5> QED  BY <5>1, <5>2
      <4>4. ASSUME NEW n \in DOMAIN q.todo, q.todo[n] = "modify"
            PROVE  \E m \in DOMAIN q.todo : n < m /\ q.todo[m] \in {"get", "getOwn"}
        <5>1. n \in Nat /\ n + 1 \in DOMAIN t /\ t[n + 1] = "modify"
          BY <4>4, <3>1, <1>4
        <5>2. PICK m \in DOMAIN t : n + 1 < m /\ t[m] \in {"get", "getOwn"}
          BY <5>1, <4>1
        <5>3. m # 1 /\ n < m - 1
          BY <5>1, <5>2, <1>5
        <5> QED  BY <5>2, <5>3, <4>2
      <4> QED  BY <4>3, <4>4
    <3> QED  BY <3>6, <3>7, <3>8
  <2>2. CASE rest = AskAll(s) /\ c \in Lists
    <3>1. /\ q.todo \in Seq(Changes \cup Looks) /\ q.todo # <<>>
          /\ \A n \in DOMAIN q.todo : q.todo[n] \in {"filter", "listAll", "listSortedAll"}
      BY <2>2, <1>6, AskAllShape
    <3>2. q.op = "list" /\ ~q.wrote
      BY <2>2, <1>6, <1>10
    <3> QED  BY <3>1, <3>2 DEF Sequenced, ReadFirst, Finishing, Changes, Lists, OnObject
  <2> QED  BY <2>1, <2>2, <1>6
<1>14. ASSUME K.scoped
       PROVE  LookedUp(kind, req[s])'
  <2>1. LookedUp(kind, r) /\ (OwnObject(r) => OwnObject(req[s])')
    BY <1>2, <1>3, <1>6, <1>14 DEF OwnObject, Ages, q
  <2>2. ASSUME rest = Tail(t), NEW m \in DOMAIN t, t[m] = "getOwn", ~OwnObject(r)
        PROVE  m - 1 \in DOMAIN q.todo /\ q.todo[m - 1] = "getOwn"
    <3>1. m \in Nat \ {0} /\ m # 1
      BY <2>2, <1>4, <1>5, <1>8
    <3>2. m - 1 \in Nat \ {0} /\ m - 1 + 1 = m
      BY <3>1
    <3> QED  BY <3>2, <2>2, <1>4, <1>6
  <2>3. ASSUME q.pc = "running", NEW n \in DOMAIN q.todo, <<kind, q.op>> \notin Unscoped,
               q.todo[n] \in {"modify", "delete", "act"}, ~OwnObject(r)
        PROVE  \E m \in DOMAIN q.todo : m < n /\ q.todo[m] = "getOwn"
    <3>1. CASE rest = Tail(t)
      <4>1. n + 1 \in DOMAIN t /\ t[n + 1] = q.todo[n] /\ n \in Nat
        BY <3>1, <1>4, <1>6
      <4>2. PICK m \in DOMAIN t : m < n + 1 /\ t[m] = "getOwn"
        BY <4>1, <2>1, <2>3, <1>1, <1>6 DEF LookedUp, t
      <4>3. m - 1 \in DOMAIN q.todo /\ q.todo[m - 1] = "getOwn" /\ m - 1 < n
        BY <4>1, <4>2, <3>1, <2>2, <2>3, <1>5
      <4> QED  BY <4>3
    <3>2. CASE rest = AskAll(s)
      BY <3>2, <2>3, <1>6, AskAllShape
    <3> QED  BY <3>1, <3>2, <1>6
  <2>4. ASSUME q.op = "get", ~OwnObject(r)
        PROVE  \E m \in DOMAIN q.todo : q.todo[m] = "getOwn"
    <3>1. PICK m \in DOMAIN t : t[m] = "getOwn"
      BY <2>1, <2>4, <1>1, <1>6 DEF LookedUp, t
    <3>2. rest = Tail(t)
      BY <2>4, <1>6, <1>10
    <3> QED  BY <3>1, <3>2, <2>2, <2>4
  <2>5. q.answer.status = "ok" => DOMAIN q.todo = {}
    BY <1>6
  <2> QED  BY <2>1, <2>3, <2>4, <2>5, <1>1 DEF LookedUp, q
<1>15. Local(s)' /\ Remote(s)'
  <2>1. Local(s)'
    BY <1>1, <1>6, <1>11, <1>13 DEF Local, q
  <2>2. Remote(s)'
    BY <1>1, <1>12, <1>14 DEF Remote, q
  <2> QED  BY <2>1, <2>2
<1> QED  BY <1>2, <1>15, OthersStay

----------------------------------------------------------------------------
(* Commands that fail *)

LEMMA FailedShape ==
  ASSUME NEW r, Shaped(r), NEW why
  PROVE  LET x == Failed(r, why) IN
         /\ Shaped(x) /\ x.pc = "answered" /\ x.op = r.op /\ x.id = r.id /\ x.body = r.body
         /\ x.wrote = r.wrote /\ x.answer.status = why /\ x.todo = <<>> /\ x.known = r.known
<1> DEFINE y == Refused(r, why)
<1>1. /\ Shaped(y) /\ y.pc = "answered" /\ y.op = r.op /\ y.id = r.id /\ y.body = r.body
      /\ y.wrote = r.wrote /\ y.answer.status = why /\ y.known = r.known
  BY DEF Refused, Shaped, Parts
<1> HIDE DEF y
<1>2. Failed(r, why) = [y EXCEPT !.audit = "failure", !.todo = <<>>]
  BY DEF Failed, y
<1> QED  BY <1>1, <1>2 DEF Shaped, Parts

LEMMA LooksChangeNothing ==
  ASSUME NEW s, Command(s) \notin Changes
  PROVE  Effect(s) = store
BY DEF Effect, Changes

\* A change of gvmd's store is a change to an object that is there, or, in an
\* operation that is no update, a new object.
LEMMA ChangedObject ==
  ASSUME IInv, NEW s \in Sessions, req[s].pc = "running", CarriedOut(s), Command(s) \in Changes
  PROVE  req[s].op = "modify" => /\ Command(s) = "modify"
                                 /\ req[s].id \in Ids /\ store[req[s].id].state = "live"
<1>1. Sequenced(kind, K, req[s])
  BY DEF IInv, Local
<1>2. Command(s) = req[s].todo[1] /\ 1 \in DOMAIN req[s].todo
  BY NextCommand
<1>3. req[s].op = "modify" => Command(s) = "modify" /\ req[s].id \in Ids
  BY <1>1, <1>2 DEF Sequenced, OnObject
<1> QED  BY <1>3 DEF CarriedOut, Found, Object, Lists

\* A request that ends without success, having changed the store or not.
LEMMA EndsInv ==
  ASSUME IInv, NEW s \in Sessions, req[s].pc = "running", Alone(s),
         NEW x, req'[s] = x, Shaped(x), x.pc \in {"answered", "dropped"},
         x.op = req[s].op, x.id = req[s].id,
         (store' = store /\ x.wrote = req[s].wrote)
           \/ (CarriedOut(s) /\ Effect(s) # store /\ store' = Effect(s) /\ x.wrote = TRUE),
         \/ x.answer.status \in {"none", "Backend"}
         \/ x.answer.status \in Failures /\ store' = store
         \/ x.answer.status = "NotFound" /\ store' = store /\ ~Found(s)
  PROVE  IInv'
<1> DEFINE r == req[s]
<1>1. /\ kind' = kind /\ K' = K /\ Stored /\ Staged(K, r) /\ Sequenced(kind, K, r)
      /\ Truthful(kind, r) /\ (K.scoped => LookedUp(kind, r))
  BY DEF IInv, Local, Remote, Alone, K
<1>2. Ages
  <2>1. CASE store' = store
    BY <2>1, <1>1, SameStoreAges
  <2>2. CASE CarriedOut(s) /\ store' = Effect(s)
    BY <2>2, <1>1, EffectAges
  <2> QED  BY <2>1, <2>2
<1>3. Local(s)'
  BY <1>1 DEF Local, Staged
<1>4. ASSUME x.wrote, x.op = "modify"
      PROVE  x.id \in Ids /\ store[x.id].state # "none"
  <2>1. CASE r.wrote
    BY <2>1, <1>1, <1>4 DEF Truthful
  <2>2. CASE CarriedOut(s) /\ Effect(s) # store
    BY <2>2, <1>4, LooksChangeNothing, ChangedObject
  <2> QED  BY <2>1, <2>2, <1>4
<1>5. ASSUME x.wrote, x.answer.status \notin {"none", "Backend"}
      PROVE  /\ x.op = "modify" /\ x.answer.status \in Failures \cup {"NotFound"}
             /\ x.answer.status = "NotFound" =>
                  store'[x.id].state # "live" \/ <<kind, x.op>> \in Unscoped
  <2>1. /\ x.answer.status \in Failures \cup {"NotFound"} /\ store' = store
        /\ x.answer.status = "NotFound" => ~Found(s)
    BY <1>5 DEF Failures
  <2>2. r.wrote
    BY <1>5, <2>1
  <2>3. Command(s) = r.todo[1] /\ 1 \in DOMAIN r.todo
    BY NextCommand
  <2>4. Afterwards(kind, r, Command(s))
    BY <2>2, <2>3, <1>1 DEF Sequenced
  <2>5. CASE Command(s) = "get"
    BY <2>1, <2>4, <2>5 DEF Afterwards, Found, Object, Lists
  <2> QED  BY <2>1, <2>4, <2>5 DEF Afterwards
<1>6. Truthful(kind, req[s])'
  BY <1>1, <1>2, <1>4, <1>5 DEF Truthful, Ages
<1>7. K.scoped => LookedUp(kind, req[s])'
  BY <1>1 DEF LookedUp, Failures
<1>8. Remote(s)'
  BY <1>1, <1>6, <1>7 DEF Remote
<1> QED  BY <1>2, <1>3, <1>8, OthersStay

LEMMA FailInv ==
  ASSUME IInv, NEW s \in Sessions, NotThere(s) \/ Fails(s)
  PROVE  IInv'
<1>1. /\ req[s].pc = "running" /\ store' = store /\ kind' = kind /\ DOMAIN req = Sessions
      /\ Shaped(req[s])
  BY DEF NotThere, Fails, CanFail, IInv, Local
<1>2. PICK why : /\ req' = [req EXCEPT ![s] = Failed(req[s], why)]
                 /\ why \in Failures \/ (why = "NotFound" /\ ~Found(s))
  BY DEF NotThere, Fails, CanFail
<1>3. Alone(s) /\ req'[s] = Failed(req[s], why)
  BY <1>1, <1>2 DEF Alone
<1> DEFINE x == Failed(req[s], why)
<1>4. /\ Shaped(x) /\ x.pc = "answered" /\ x.op = req[s].op /\ x.id = req[s].id
      /\ x.wrote = req[s].wrote /\ x.answer.status = why /\ req'[s] = x
  BY <1>1, <1>3, FailedShape
<1> HIDE DEF x
<1>5. \/ x.answer.status \in Failures /\ store' = store
      \/ x.answer.status = "NotFound" /\ store' = store /\ ~Found(s)
  BY <1>1, <1>2, <1>4
<1>6. store' = store /\ x.wrote = req[s].wrote
  BY <1>1, <1>4
<1> QED  BY <1>1, <1>3, <1>4, <1>5, <1>6, EndsInv

LEMMA AnswerLostInv ==
  ASSUME IInv, NEW s \in Sessions, AnswerLost(s)
  PROVE  IInv'
<1> DEFINE x == Failed(req[s], "Backend")
           y == [x EXCEPT !.wrote = TRUE]
<1>1. /\ req[s].pc = "running" /\ CarriedOut(s) /\ Effect(s) # store /\ store' = Effect(s)
      /\ kind' = kind /\ DOMAIN req = Sessions /\ Shaped(req[s])
  BY DEF AnswerLost, CanFail, IInv, Local
<1>2. Alone(s) /\ req'[s] = y
  BY <1>1 DEF AnswerLost, CanFail, Alone
<1>3. /\ Shaped(x) /\ x.pc = "answered" /\ x.op = req[s].op /\ x.id = req[s].id
      /\ x.answer.status = "Backend"
  BY <1>1, FailedShape
<1> HIDE DEF x
<1>4. /\ Shaped(y) /\ y.pc = "answered" /\ y.op = req[s].op /\ y.id = req[s].id
      /\ y.answer.status = "Backend" /\ y.wrote = TRUE
  BY <1>3 DEF Shaped, Parts
<1> HIDE DEF y
<1> QED  BY <1>1, <1>2, <1>4, EndsInv

LEMMA DroppedInv ==
  ASSUME IInv, NEW s \in Sessions, Dropped(s)
  PROVE  IInv'
<1> DEFINE r == req[s]
<1>1. /\ r.pc = "running" /\ kind' = kind /\ DOMAIN req = Sessions /\ Shaped(r)
      /\ r.answer.status = "none"
  BY DEF Dropped, CanFail, IInv, Local, Staged
<1>2. PICK wrote \in BOOLEAN :
        /\ wrote => CarriedOut(s) /\ Effect(s) # store
        /\ store' = IF wrote THEN Effect(s) ELSE store
        /\ req' = [req EXCEPT ![s] = [@ EXCEPT !.pc = "dropped", !.todo = <<>>,
                                               !.wrote = r.wrote \/ wrote]]
  BY DEF Dropped, CanFail
<1> DEFINE y == [r EXCEPT !.pc = "dropped", !.todo = <<>>, !.wrote = r.wrote \/ wrote]
<1>3. Alone(s) /\ req'[s] = y
  <2>1. req' = [req EXCEPT ![s] = y]
    BY <1>2
  <2> HIDE DEF y
  <2> QED  BY <2>1, <1>1 DEF Alone
<1>4. /\ Shaped(y) /\ y.pc = "dropped" /\ y.op = r.op /\ y.id = r.id
      /\ y.answer.status = "none"
      /\ wrote => y.wrote = TRUE
      /\ ~wrote => y.wrote = r.wrote
  BY <1>1 DEF Shaped, Parts
<1> HIDE DEF y
<1>5. (store' = store /\ y.wrote = r.wrote)
        \/ (CarriedOut(s) /\ Effect(s) # store /\ store' = Effect(s) /\ y.wrote = TRUE)
  <2>1. CASE wrote = TRUE
    BY <2>1, <1>2, <1>4
  <2>2. CASE wrote = FALSE
    <3>1. store' = store
      BY <2>2, <1>2
    <3>2. y.wrote = r.wrote
      BY <2>2, <1>4
    <3> QED  BY <3>1, <3>2
  <2> QED  BY <2>1, <2>2
<1> QED  BY <1>1, <1>3, <1>4, <1>5, EndsInv

LEMMA NextInv ==
  ASSUME IInv, [Next]_vars
  PROVE  IInv'
<1>1. CASE FilterEdited \/ UNCHANGED vars
  <2>1. UNCHANGED <<kind, store, req>> /\ K' = K
    BY <1>1 DEF FilterEdited, vars, K
  <2>2. Stored'
    BY <2>1, SameStoreAges DEF IInv, Ages
  <2>3. ASSUME NEW s \in Sessions
        PROVE  Local(s)' /\ Remote(s)'
    BY <2>1 DEF IInv, Local, Remote, Truthful, LookedUp, OwnObject
  <2> QED  BY <2>1, <2>2, <2>3 DEF IInv
<1>2. ASSUME NEW s \in Sessions,
             \/ Submit(s) \/ Start(s) \/ Execute(s) \/ NotThere(s)
             \/ Fails(s) \/ AnswerLost(s) \/ Dropped(s)
      PROVE  IInv'
  BY <1>2, SubmitInv, StartInv, ExecuteInv, FailInv, AnswerLostInv, DroppedInv
<1> QED  BY <1>1, <1>2 DEF Next

LEMMA InvHolds == Spec => []IInv
BY InitInv, NextInv, PTL DEF Spec

\* A request that is refused at any of its commands has changed nothing in gvmd,
\* unless it was an update, and then the refusal is that of the reading back; one
\* answered 404 only if another session has removed its object, or of the other
\* usage, for any number of sessions, any collections whose tables fit, and
\* whatever command fails, is answered late or not at all.
THEOREM RefusalsChangeNothing == Spec => []RefusedChangesNothing
<1>1. IInv => RefusedChangesNothing
  BY DEF IInv, Remote, Truthful, RefusedChangesNothing, Failures
<1> QED  BY <1>1, InvHolds, PTL

----------------------------------------------------------------------------
(* Steps that change something *)

\* Only the steps of a session change its request.
LEMMA OwnStep ==
  ASSUME IInv, [Next]_vars, NEW s \in Sessions, req'[s] # req[s]
  PROVE  \/ Submit(s) \/ Start(s) \/ Execute(s) \/ NotThere(s)
         \/ Fails(s) \/ AnswerLost(s) \/ Dropped(s)
<1>1. DOMAIN req = Sessions
  BY DEF IInv
<1>2. ASSUME NEW t \in Sessions, t # s,
             \/ Submit(t) \/ Start(t) \/ Execute(t) \/ NotThere(t)
             \/ Fails(t) \/ AnswerLost(t) \/ Dropped(t)
      PROVE  FALSE
  BY <1>1, <1>2 DEF Submit, Start, Execute, NotThere, Fails, AnswerLost, Dropped, CanFail
<1>3. ~(FilterEdited \/ UNCHANGED vars)
  BY DEF FilterEdited, vars
<1> QED  BY <1>2, <1>3 DEF Next

\* What no later step of a request changes.
LEMMA RequestStays ==
  ASSUME IInv, [Next]_vars, NEW s \in Sessions, req[s].pc \notin {"idle", "accepted"}
  PROVE  /\ req'[s].op = req[s].op /\ req'[s].id = req[s].id /\ req'[s].body = req[s].body
         /\ req[s].wrote => req'[s].wrote
         /\ (req[s].wrote \/ Command(s) \in Changes) => req'[s].known = req[s].known
         /\ (req'[s] # req[s] /\ req'[s].answer.status = "ok") => Execute(s)
<1>1. DOMAIN req = Sessions /\ Shaped(req[s]) /\ Staged(K, req[s])
  BY DEF IInv, Local
<1>2. CASE req'[s] = req[s]
  BY <1>2
<1>3. CASE Execute(s)
  <2>1. Command(s) \in Changes => Command(s) \notin {"get", "getOwn"}
    BY DEF Changes
  <2> QED  BY <1>3, <2>1, ExecuteShape
<1>4. CASE NotThere(s) \/ Fails(s)
  <2>1. PICK why \in Failures \cup {"NotFound"} : req'[s] = Failed(req[s], why)
    BY <1>1, <1>4 DEF NotThere, Fails, CanFail
  <2>2. why # "ok"
    BY DEF Failures
  <2> QED  BY <1>1, <2>1, <2>2, FailedShape
<1>5. CASE AnswerLost(s)
  <2> DEFINE x == Failed(req[s], "Backend")
  <2>1. req'[s] = [x EXCEPT !.wrote = TRUE]
    BY <1>1, <1>5 DEF AnswerLost, CanFail
  <2>2. /\ Shaped(x) /\ x.answer.status = "Backend" /\ x.op = req[s].op /\ x.id = req[s].id
        /\ x.body = req[s].body /\ x.known = req[s].known
    BY <1>1, FailedShape
  <2> HIDE DEF x
  <2> QED  BY <2>1, <2>2 DEF Shaped, Parts
<1>6. CASE Dropped(s)
  <2>1. req[s].answer.status = "none"
    BY <1>1, <1>6 DEF Dropped, CanFail, Staged
  <2>2. PICK wrote \in BOOLEAN :
          req' = [req EXCEPT ![s] = [@ EXCEPT !.pc = "dropped", !.todo = <<>>,
                                              !.wrote = req[s].wrote \/ wrote]]
    BY <1>6 DEF Dropped, CanFail
  <2> QED  BY <2>1, <2>2, <1>1 DEF Shaped, Parts
<1> QED  BY <1>2, <1>3, <1>4, <1>5, <1>6, OwnStep DEF Submit, Start

\* Before it runs a request writes nothing, and is not answered with success.
LEMMA EarlySilent ==
  ASSUME IInv, [Next]_vars, NEW s \in Sessions, req[s].pc \in {"idle", "accepted"}
  PROVE  ~req'[s].wrote /\ req'[s].answer.status # "ok"
<1>1. DOMAIN req = Sessions /\ Shaped(req[s]) /\ ~req[s].wrote /\ req[s].answer.status = "none"
  BY DEF IInv, Local, Staged
<1>2. CASE Submit(s)
  <2>1. PICK op \in DOMAIN K.handlers :
          \E r \in Asked(s, op) : req' = [req EXCEPT ![s] = Handle(r)]
    BY <1>2 DEF Submit
  <2>2. PICK r \in Asked(s, op) : req' = [req EXCEPT ![s] = Handle(r)]
    BY <2>1
  <2>3. Shaped(r) /\ ~r.wrote /\ r.answer.status = "none"
    BY AskedShape
  <2>4. ~Handle(r).wrote /\ Handle(r).answer.status # "ok"
    BY <2>3 DEF Handle, Refused, Shaped, Parts
  <2> QED  BY <1>1, <2>2, <2>4
<1>3. CASE Start(s)
  <2> DEFINE started == [req[s] EXCEPT !.audit = "start"]
             x == Refused(started, "InvalidInput")
  <2>1. \/ req'[s] = Refused(started, "SessionExpired")
        \/ req'[s] = [x EXCEPT !.audit = "failure"]
        \/ req'[s] = [started EXCEPT !.pc = "running", !.todo = Todo(req[s])]
    BY <1>1, <1>3 DEF Start
  <2>2. Shaped(started) /\ ~started.wrote /\ started.answer.status = "none"
    BY <1>1 DEF Shaped, Parts
  <2> HIDE DEF started
  <2>3. Shaped(x) /\ ~x.wrote /\ x.answer.status = "InvalidInput"
    BY <2>2 DEF Refused, Shaped, Parts
  <2>4. LET y == Refused(started, "SessionExpired") IN
        ~y.wrote /\ y.answer.status = "SessionExpired"
    BY <2>2 DEF Refused, Shaped, Parts
  <2> HIDE DEF x
  <2> QED  BY <2>1, <2>2, <2>3, <2>4 DEF Shaped, Parts
<1> QED  BY <1>1, <1>2, <1>3, OwnStep DEF Execute, NotThere, Fails, AnswerLost, Dropped, CanFail

LEMMA KindStays ==
  ASSUME [Next]_vars
  PROVE  kind' = kind /\ K' = K
BY DEF Next, vars, K, Submit, Start, Execute, NotThere, Fails, AnswerLost, Dropped, CanFail, FilterEdited

\* A running request that moves has written only if it had before, or if the
\* command at hand is one that changes gvmd.
LEMMA MovingStep ==
  ASSUME IInv, [Next]_vars, NEW s \in Sessions, req[s].pc = "running", req'[s] # req[s]
  PROVE  req'[s].wrote => req[s].wrote \/ Command(s) \in Changes
<1>1. /\ DOMAIN req = Sessions /\ Shaped(req[s])
  BY DEF IInv, Local
<1>4. \/ Submit(s) \/ Start(s) \/ Execute(s) \/ NotThere(s)
      \/ Fails(s) \/ AnswerLost(s) \/ Dropped(s)
  BY OwnStep
<1>5. CASE Execute(s)
  BY <1>5, ExecuteShape
<1>6. CASE NotThere(s) \/ Fails(s)
  BY <1>1, <1>6, FailedShape DEF NotThere, Fails, CanFail
<1>7. CASE AnswerLost(s)
  BY <1>7, LooksChangeNothing DEF AnswerLost, CanFail
<1>8. CASE Dropped(s)
  <2>1. PICK wrote \in BOOLEAN :
          /\ wrote => Effect(s) # store
          /\ req' = [req EXCEPT ![s] = [@ EXCEPT !.pc = "dropped", !.todo = <<>>,
                                                 !.wrote = req[s].wrote \/ wrote]]
    BY <1>8 DEF Dropped, CanFail
  <2>2. req'[s].wrote = (req[s].wrote \/ wrote)
    BY <2>1, <1>1 DEF Shaped, Parts
  <2> QED  BY <2>1, <2>2, LooksChangeNothing
<1> QED  BY <1>4, <1>5, <1>6, <1>7, <1>8 DEF Submit, Start

\* A command of s is carried out that changes gvmd.
Changing(s) ==
    /\ req[s].pc = "running" /\ CarriedOut(s) /\ store' = Effect(s) /\ Command(s) \in Changes
    /\ req'[s].wrote /\ req'[s].todo # req[s].todo
    /\ \A t \in Sessions \ {s} : req'[t] = req[t]

LEMMA CarriedOutStep ==
  ASSUME IInv, NEW s \in Sessions, CarriedOut(s), store' = Effect(s), Command(s) \in Changes,
         Execute(s) \/ AnswerLost(s) \/ (Dropped(s) /\ Effect(s) # store)
  PROVE  Changing(s)
<1>1. /\ DOMAIN req = Sessions /\ Shaped(req[s]) /\ req[s].pc = "running" /\ kind' = kind
      /\ Sequenced(kind, K, req[s])
  BY DEF IInv, Local, Execute, AnswerLost, Dropped, CanFail
<1>2. \A t \in Sessions \ {s} : req'[t] = req[t]
  BY <1>1 DEF Execute, AnswerLost, Dropped, CanFail
<1>3. req'[s].wrote /\ req'[s].todo # req[s].todo
  <2>1. CASE Execute(s)
    <3>1. req'[s].todo = Tail(req[s].todo) /\ req'[s].wrote
      BY <2>1, ExecuteShape DEF Changes, Lists
    <3>2. Tail(req[s].todo) # req[s].todo
      <4> DEFINE todo == req[s].todo
                 rest == Tail(todo)
      <4>1. todo \in Seq(Changes \cup Looks) /\ todo # <<>>
        BY <1>1 DEF Sequenced
      <4> HIDE DEF todo
      <4>2. Len(rest) = Len(todo) - 1 /\ Len(todo) \in Nat
        BY <4>1, HeadTailProperties, LenProperties
      <4> HIDE DEF rest
      <4>3. Len(rest) # Len(todo)
        BY <4>2
      <4>4. rest # todo
        BY <4>3
      <4> QED  BY <4>4 DEF rest, todo
    <3> QED  BY <3>1, <3>2
  <2>2. CASE AnswerLost(s)
    <3> DEFINE x == Failed(req[s], "Backend")
    <3>1. req'[s] = [x EXCEPT !.wrote = TRUE]
      BY <2>2, <1>1 DEF AnswerLost, CanFail
    <3>2. Shaped(x) /\ x.todo = <<>>
      BY <1>1, FailedShape
    <3> HIDE DEF x
    <3>3. req'[s].wrote = TRUE /\ req'[s].todo = <<>>
      BY <3>1, <3>2 DEF Shaped, Parts
    <3> QED  BY <3>3, <1>1 DEF Sequenced
  <2>3. CASE Dropped(s) /\ Effect(s) # store
    <3>1. req' = [req EXCEPT ![s] = [@ EXCEPT !.pc = "dropped", !.todo = <<>>,
                                              !.wrote = req[s].wrote \/ TRUE]]
      BY <2>3 DEF Dropped, CanFail
    <3>2. req'[s].wrote = TRUE /\ req'[s].todo = <<>>
      BY <3>1, <1>1 DEF Shaped, Parts
    <3> QED  BY <3>2, <1>1 DEF Sequenced
  <2> QED  BY <2>1, <2>2, <2>3
<1> QED  BY <1>1, <1>2, <1>3 DEF Changing

LEMMA ChangingStep ==
  ASSUME IInv, [Next]_vars, store' # store
  PROVE  kind' = kind /\ \E s \in Sessions : Changing(s)
<1>1. PICK s \in Sessions : Execute(s) \/ AnswerLost(s) \/ Dropped(s)
  BY DEF Next, vars, FilterEdited, Submit, Start, NotThere, Fails, CanFail
<1>2. CarriedOut(s) /\ store' = Effect(s)
  <2>1. CASE Dropped(s)
    BY <2>1 DEF Dropped, CanFail
  <2> QED  BY <1>1, <2>1 DEF Execute, AnswerLost, CanFail
<1>3. Command(s) \in Changes
  BY <1>2, LooksChangeNothing
<1>4. kind' = kind
  BY <1>1 DEF Execute, AnswerLost, Dropped, CanFail
<1> QED  BY <1>1, <1>2, <1>3, <1>4, CarriedOutStep

\* The session that acts while the store changes is the one whose command it is.
LEMMA ActingSession ==
  ASSUME IInv, [Next]_vars, store' # store, NEW s \in Sessions, Acts(s)
  PROVE  Changing(s)
<1>1. PICK t \in Sessions : Changing(t)
  BY ChangingStep
<1>2. s = t
  BY <1>1 DEF Acts, Changing
<1> QED  BY <1>1, <1>2

\* Every command that changes gvmd belongs to an operation whose start has been
\* audited, and not as a read.
THEOREM ChangesAudited == Spec => ChangesAreAudited
<1>1. ASSUME IInv, [Next]_vars, NEW s \in Sessions, Acts(s)
      PROVE  req[s].audit = "start" /\ K.usecases[req[s].op] \notin {"list", "read"}
  <2>1. /\ req[s].pc = "running" /\ req'[s] # req[s] /\ req'[s].wrote
        /\ Staged(K, req[s]) /\ Sequenced(kind, K, req[s])
    BY <1>1 DEF Acts, IInv, Local
  <2>2. req[s].wrote \/ Command(s) \in Changes
    BY <1>1, <2>1, MovingStep
  <2>3. Command(s) = req[s].todo[1] /\ 1 \in DOMAIN req[s].todo
    BY <1>1, <2>1, NextCommand
  <2> QED  BY <2>1, <2>2, <2>3 DEF Staged, Sequenced
<1>2. IInv /\ [Next]_vars =>
        [\A s \in Sessions :
           Acts(s) => /\ req[s].audit = "start"
                      /\ K.usecases[req[s].op] \notin {"list", "read"}]_vars
  BY <1>1
<1> QED  BY <1>2, InvHolds, PTL DEF Spec, ChangesAreAudited

----------------------------------------------------------------------------
(* What a change does to an object *)

\* The objects a change touches: the one the path names, which is live, or a
\* new one.
LEMMA ChangesOne ==
  ASSUME IInv, NEW s \in Sessions, Changing(s), NEW i \in Ids, store[i].state # "none",
         store'[i] # store[i]
  PROVE  /\ Command(s) \in {"modify", "delete", "act"}
         /\ i = req[s].id
         /\ Command(s) # "modify" => store'[i].fields = store[i].fields
         /\ Command(s) = "modify" =>
              store'[i].fields = Written(s, store[i].fields, K.modify)
<1> DEFINE c == Command(s)
           id == req[s].id
<1>1. Stored /\ Sequenced(kind, K, req[s]) /\ store' = Effect(s) /\ CarriedOut(s) /\ c \in Changes
  BY DEF IInv, Local, Changing
<1>2. c \in {"create", "clone"} => Fresh \in Ids /\ store[Fresh].state = "none"
  BY <1>1, FreshExists DEF CarriedOut
<1>3. c = "modify" => store' = [store EXCEPT ![id].fields = Written(s, store[id].fields, K.modify)]
  BY <1>1 DEF Effect, Object
<1>4. c = "create" =>
        store' = [store EXCEPT ![Fresh] = [NoObject EXCEPT !.state = "live",
                                             !.fields = Written(s, NoObject.fields, K.create)]]
  BY <1>1 DEF Effect
<1>5. c = "clone" => store' = [store EXCEPT ![Fresh] = store[id]]
  BY <1>1 DEF Effect, Object
<1>6. c = "delete" =>
        store' = [store EXCEPT ![id].state = IF req[s].ultimate THEN "gone" ELSE "trash"]
  BY <1>1 DEF Effect
<1>7. c = "act" => store' = [store EXCEPT ![id].used = @ \cup {s}]
  BY <1>1 DEF Effect
<1> HIDE DEF c, id
<1>8. c \notin {"create", "clone"}
  BY <1>1, <1>2, <1>4, <1>5 DEF Stored
<1>9. CASE c = "modify"
  BY <1>1, <1>3, <1>9 DEF Stored, c, id
<1>10. CASE c = "delete"
  BY <1>1, <1>6, <1>10 DEF Stored, c, id
<1>11. CASE c = "act"
  BY <1>1, <1>7, <1>11 DEF Stored, c, id
<1> QED  BY <1>1, <1>8, <1>9, <1>10, <1>11 DEF Changes, c

\* What an update finds when it is carried out.
LEMMA UpdateAtWork ==
  ASSUME IInv, NEW s \in Sessions, Changing(s), Command(s) = "modify"
  PROVE  /\ req[s].op = "modify" /\ DOMAIN req[s].body = DOMAIN K.modify.dto.fields
         /\ Accepts(K.modify.dto, req[s].body)
         /\ Takes(K.modify.port, Into(K.modify.input, req[s].body))
         /\ K = Kinds[kind] /\ ModifyFits(kind) /\ UpdateFits(kind)
         /\ Repeats(K, req[s]) => DOMAIN req[s].known = FieldsOf(K)
<1> DEFINE r == req[s]
<1>1. /\ Staged(K, r) /\ Sequenced(kind, K, r) /\ ReadFirst(K, r) /\ kind \in DOMAIN Kinds
      /\ r.pc = "running"
  BY DEF IInv, Local, Changing
<1>2. Command(s) = r.todo[1] /\ 1 \in DOMAIN r.todo /\ DOMAIN r.todo \subseteq Nat \ {0}
  BY <1>1, NextCommand, LenProperties DEF Sequenced
<1>3. r.op = "modify"
  BY <1>1, <1>2 DEF Sequenced
<1>4. ModifyFits(kind) /\ UpdateFits(kind) /\ K = Kinds[kind]
  BY <1>1, <1>3, TablesAssumption DEF K, Staged
<1>5. Repeats(K, r) => DOMAIN r.known = FieldsOf(K)
  BY <1>1, <1>2 DEF ReadFirst
<1> QED  BY <1>1, <1>3, <1>4, <1>5 DEF Staged

\* What an update makes of a field: it leaves it, it writes what the body says,
\* or one of the exceptions applies.
LEMMA WrittenByAny ==
  ASSUME IInv, NEW s \in Sessions, Changing(s), Command(s) = "modify",
         NEW before, DOMAIN before = FieldsOf(K), NEW f \in FieldsOf(K),
         Written(s, before, K.modify)[f] # before[f]
  PROVE  LET value == Written(s, before, K.modify)[f] IN
         \/ f \in Named(req[s].body) /\ value = Said(s, f)
         \/ <<kind, f>> \in SentUnasked /\ value = "empty"
         \/ kind = "users" /\ f \in DOMAIN req[s].known /\ value = req[s].known[f]
<1> DEFINE r == req[s]
           port == K.modify.port
           body == Into(K.modify.input, r.body)
           value == Written(s, before, K.modify)[f]
<1>1. /\ r.op = "modify" /\ DOMAIN r.body = DOMAIN K.modify.dto.fields
      /\ K = Kinds[kind] /\ ModifyFits(kind)
      /\ Repeats(K, r) => DOMAIN r.known = FieldsOf(K)
  BY UpdateAtWork
<1>2. f \in DOMAIN body \cap DOMAIN port
  BY DEF Written
<1>3. body[f] = r.body[f] /\ f \in DOMAIN r.body
  BY <1>2 DEF Into
<1>4. /\ port[f].absent \in {"keep", "clear", "read"} /\ port[f].empty \in {"keep", "clear"}
      /\ (port[f].with # "none" \/ port[f].absent = "clear") => <<kind, f>> \in SentUnasked
      /\ port[f].absent = "read" => kind = "users" /\ port[f].with = "none"
      /\ "none" \notin DOMAIN r.body
  BY <1>1, <1>2 DEF ModifyFits
<1>5. "none" \notin Named(body) /\ "none" \notin Named(r.body)
  BY <1>4 DEF Named, Into
<1>6. value = CASE Says(port, body, f) = "set" -> s
                [] Says(port, body, f) = "clear" -> "empty"
                [] Says(port, body, f) = "read" -> r.known[f]
                [] OTHER -> before[f]
  BY <1>2 DEF Written
<1> HIDE DEF value
<1>7. CASE r.body[f] = "empty"
  <2>1. Says(port, body, f) = port[f].empty
    BY <1>3, <1>7 DEF Says
  <2>2. value = "empty" /\ f \in Named(r.body)
    BY <2>1, <1>3, <1>4, <1>6, <1>7 DEF Named, value
  <2> QED  BY <2>2, <1>7 DEF Said, value
<1>8. CASE r.body[f] # "empty" /\ r.body[f] # "absent"
  <2>1. Says(port, body, f) = "set"
    BY <1>3, <1>8 DEF Says
  <2>2. value = s /\ f \in Named(r.body)
    BY <2>1, <1>3, <1>6, <1>8 DEF Named
  <2> QED  BY <2>2, <1>8 DEF Said, value
<1>9. CASE r.body[f] = "absent" /\ port[f].with \in Named(body)
  <2>1. Says(port, body, f) = "clear" /\ port[f].with # "none"
    BY <1>3, <1>5, <1>9 DEF Says
  <2> QED  BY <2>1, <1>4, <1>6 DEF value
<1>10. CASE r.body[f] = "absent" /\ port[f].with \notin Named(body)
  <2>1. Says(port, body, f) = port[f].absent
    BY <1>3, <1>10 DEF Says
  <2>2. CASE port[f].absent = "read"
    <3>1. Says(port, r.body, f) = "read"
      BY <2>2, <1>4, <1>5, <1>10 DEF Says
    <3>2. DOMAIN r.known = FieldsOf(K)
      BY <3>1, <1>1, <1>2, <1>3 DEF Repeats
    <3>3. value = r.known[f]
      BY <2>1, <2>2, <1>6
    <3> QED  BY <3>2, <3>3, <2>2, <1>4 DEF value
  <2>3. CASE port[f].absent = "clear"
    BY <2>1, <2>3, <1>4, <1>6 DEF value
  <2>4. port[f].absent # "keep"
    BY <2>1, <1>6 DEF value
  <2> QED  BY <2>2, <2>3, <2>4, <1>4
<1> QED  BY <1>7, <1>8, <1>9, <1>10

\* What it makes of a field the body names.
LEMMA WrittenNamed ==
  ASSUME IInv, NEW s \in Sessions, Changing(s), Command(s) = "modify",
         NEW before, DOMAIN before = FieldsOf(K), NEW f \in Named(req[s].body),
         <<kind, f>> \notin NotSent,
         ~(req[s].body[f] = "empty" /\ <<kind, f>> \in EmptyIsOmitted)
  PROVE  Written(s, before, K.modify)[f] = Said(s, f)
<1> DEFINE r == req[s]
           port == K.modify.port
           body == Into(K.modify.input, r.body)
           value == Written(s, before, K.modify)[f]
<1>1. /\ DOMAIN r.body = DOMAIN K.modify.dto.fields /\ Accepts(K.modify.dto, r.body)
      /\ Takes(port, body) /\ K = Kinds[kind] /\ UpdateFits(kind)
  BY UpdateAtWork
<1>2. f \in DOMAIN r.body /\ r.body[f] # "absent" /\ r.body[f] \in K.modify.dto.fields[f]
  BY <1>1 DEF Named, Accepts
<1>3. /\ f \in K.modify.input /\ f \in DOMAIN port
      /\ (r.body[f] = "empty" /\ "empty" \in port[f].takes) => port[f].empty = "clear"
  BY <1>1, <1>2 DEF UpdateFits
<1>4. f \in DOMAIN body \cap DOMAIN port /\ body[f] = r.body[f]
  BY <1>2, <1>3 DEF Into
<1>5. r.body[f] \in port[f].takes
  BY <1>1, <1>4 DEF Takes
<1>6. Says(port, body, f) = IF r.body[f] = "empty" THEN "clear" ELSE "set"
  BY <1>2, <1>3, <1>4, <1>5 DEF Says
<1>7. f \in DOMAIN before
  BY <1>1, <1>2 DEF FieldsOf
<1>8. value = CASE Says(port, body, f) = "set" -> s
                [] Says(port, body, f) = "clear" -> "empty"
                [] Says(port, body, f) = "read" -> r.known[f]
                [] OTHER -> before[f]
  BY <1>4, <1>7 DEF Written
<1> HIDE DEF value
<1> QED  BY <1>6, <1>8 DEF Said, value

\* An update leaves every field it does not name as it is, whatever the other
\* sessions do between its commands; the exceptions are those of the property.
THEOREM UpdatesWriteWhatTheyName == Spec => OnlyNamedFieldsChange
<1> DEFINE P == \A s \in Sessions, i \in Ids :
             (Acts(s) /\ store[i].state = "live" /\ store'[i].fields # store[i].fields) =>
               /\ i = req[s].id
               /\ \A f \in DOMAIN store[i].fields :
                    store'[i].fields[f] # store[i].fields[f] =>
                      \/ f \in Named(req[s].body)
                      \/ <<kind, f>> \in SentUnasked
                      \/ /\ kind = "users"
                         /\ f \in DOMAIN req[s].known /\ store'[i].fields[f] = req[s].known[f]
<1>1. ASSUME IInv, [Next]_vars PROVE P
  <2> SUFFICES ASSUME NEW s \in Sessions, NEW i \in Ids,
                      Acts(s), store[i].state = "live", store'[i].fields # store[i].fields
               PROVE  /\ i = req[s].id
                      /\ \A f \in DOMAIN store[i].fields :
                           store'[i].fields[f] # store[i].fields[f] =>
                             \/ f \in Named(req[s].body)
                             \/ <<kind, f>> \in SentUnasked
                             \/ /\ kind = "users"
                                /\ f \in DOMAIN req[s].known
                                /\ store'[i].fields[f] = req[s].known[f]
    OBVIOUS
  <2>1. Changing(s)
    BY <1>1, ActingSession
  <2>2. /\ Command(s) = "modify" /\ i = req[s].id
        /\ store'[i].fields = Written(s, store[i].fields, K.modify)
    BY <1>1, <2>1, ChangesOne
  <2>3. DOMAIN store[i].fields = FieldsOf(K)
    BY <1>1 DEF IInv, Stored
  <2> QED  BY <1>1, <2>1, <2>2, <2>3, WrittenByAny
<1>2. IInv /\ [Next]_vars => [P]_vars
  BY <1>1
<1> QED  BY <1>2, InvHolds, PTL DEF Spec, OnlyNamedFieldsChange

\* A created object holds every value the accepted body names, save those no
\* command carries (NotSent); an empty value is held as empty, save the lists whose
\* emptiness a port cannot tell from their absence (EmptyIsOmitted).
THEOREM CreatesWhatIsNamed == Spec => CreatedAsAsked
<1> DEFINE P == \A s \in Sessions, i \in Ids :
             (Acts(s) /\ req[s].op = "create" /\ store[i].state = "none"
                /\ store'[i].state = "live") =>
               \A f \in Named(req[s].body) :
                 \/ store'[i].fields[f] = IF req[s].body[f] = "empty" THEN "empty" ELSE s
                 \/ <<kind, f>> \in NotSent
                 \/ req[s].body[f] = "empty" /\ <<kind, f>> \in EmptyIsOmitted
<1>1. ASSUME IInv, [Next]_vars PROVE P
  <2> SUFFICES ASSUME NEW s \in Sessions, NEW i \in Ids, Acts(s), req[s].op = "create",
                      store[i].state = "none", store'[i].state = "live",
                      NEW f \in Named(req[s].body),
                      <<kind, f>> \notin NotSent,
                      req[s].body[f] = "empty" => <<kind, f>> \notin EmptyIsOmitted
               PROVE  store'[i].fields[f] = IF req[s].body[f] = "empty" THEN "empty" ELSE s
    OBVIOUS
  <2> DEFINE r == req[s]
             port == K.create.port
             body == Into(K.create.input, r.body)
             new == Written(s, NoObject.fields, K.create)
  <2>1. Changing(s)
    BY <1>1, ActingSession
  <2>2. /\ Staged(K, r) /\ Sequenced(kind, K, r) /\ kind \in DOMAIN Kinds /\ r.pc = "running"
        /\ Stored
    BY <1>1, <2>1 DEF IInv, Local, Changing
  <2>3. Command(s) = "create"
    BY <1>1, <2>1, <2>2, NextCommand DEF Changing, Sequenced
  <2>4. store' = [store EXCEPT ![Fresh] = [NoObject EXCEPT !.state = "live", !.fields = new]]
    BY <2>1, <2>3 DEF Changing, Effect
  <2>5. store'[i].fields = new
    <3> HIDE DEF new
    <3>1. i = Fresh
      BY <2>2, <2>4 DEF Stored
    <3> QED  BY <2>2, <2>4, <3>1, NoObjectShape DEF Stored
  <2>6. /\ DOMAIN r.body = DOMAIN K.create.dto.fields /\ Accepts(K.create.dto, r.body)
    BY <2>2 DEF Staged
  <2>7. f \in DOMAIN r.body /\ r.body[f] # "absent" /\ r.body[f] \in K.create.dto.fields[f]
    BY <2>6 DEF Named, Accepts
  <2>8. /\ f \in K.create.input /\ f \in DOMAIN port
        /\ r.body[f] = "empty" => port[f].empty = "clear"
    BY <2>2, <2>6, <2>7, TablesAssumption DEF CreateFits, K
  <2>9. f \in DOMAIN body \cap DOMAIN port /\ body[f] = r.body[f]
    BY <2>7, <2>8 DEF Into
  <2>10. Says(port, body, f) = IF r.body[f] = "empty" THEN "clear" ELSE "set"
    BY <2>7, <2>8, <2>9 DEF Says
  <2>11. f \in DOMAIN NoObject.fields
    BY <2>6, <2>7, NoObjectShape DEF FieldsOf
  <2>12. new[f] = CASE Says(port, body, f) = "set" -> s
                    [] Says(port, body, f) = "clear" -> "empty"
                    [] Says(port, body, f) = "read" -> r.known[f]
                    [] OTHER -> NoObject.fields[f]
    <3> HIDE DEF NoObject
    <3> QED  BY <2>9, <2>11 DEF Written
  <2> HIDE DEF new, port, body
  <2> QED  BY <2>5, <2>10, <2>12
<1>2. IInv /\ [Next]_vars => [P]_vars
  BY <1>1
<1> QED  BY <1>2, InvHolds, PTL DEF Spec, CreatedAsAsked

----------------------------------------------------------------------------
(* The usages of a shared table *)

\* Through a collection of one usage nothing touches or shows an object of the
\* other usage, save the operations that are known not to look it up first.
THEOREM UsagesKeptApart == Spec => UsagesApart
<1> DEFINE P == \A i \in Ids :
             (K.scoped /\ ~store[i].own) =>
               /\ store'[i] # store[i] =>
                    \E s \in Sessions : Acts(s) /\ <<kind, req[s].op>> \in Unscoped
               /\ \A s \in Sessions :
                    (req[s].op = "get" /\ req[s].id = i) => req'[s].answer.status # "ok"
<1>1. ASSUME IInv, [Next]_vars PROVE P
  <2> SUFFICES ASSUME NEW i \in Ids, K.scoped, ~store[i].own
               PROVE  /\ store'[i] # store[i] =>
                           \E s \in Sessions : Acts(s) /\ <<kind, req[s].op>> \in Unscoped
                      /\ \A s \in Sessions :
                           (req[s].op = "get" /\ req[s].id = i) => req'[s].answer.status # "ok"
    OBVIOUS
  <2>1. Stored /\ store[i].state # "none"
    BY <1>1 DEF IInv, Stored
  <2>2. ASSUME store'[i] # store[i]
        PROVE  \E s \in Sessions : Acts(s) /\ <<kind, req[s].op>> \in Unscoped
    <3>1. PICK s \in Sessions : Changing(s)
      BY <1>1, <2>2, ChangingStep
    <3>2. Command(s) \in {"modify", "delete", "act"} /\ i = req[s].id
      BY <1>1, <2>1, <2>2, <3>1, ChangesOne
    <3>3. /\ LookedUp(kind, req[s]) /\ req[s].pc = "running" /\ Sequenced(kind, K, req[s])
      BY <1>1, <3>1 DEF IInv, Remote, Local, Changing
    <3>4. /\ Command(s) = req[s].todo[1] /\ 1 \in DOMAIN req[s].todo
          /\ DOMAIN req[s].todo \subseteq Nat \ {0}
      BY <1>1, <3>3, NextCommand, LenProperties DEF Sequenced
    <3>5. ~OwnObject(req[s]) /\ ~\E m \in DOMAIN req[s].todo : m < 1
      BY <3>2, <3>4 DEF OwnObject
    <3>6. <<kind, req[s].op>> \in Unscoped
      BY <3>2, <3>3, <3>4, <3>5 DEF LookedUp
    <3> QED  BY <3>1, <3>6 DEF Acts, Changing
  <2>3. ASSUME NEW s \in Sessions, req[s].op = "get", req[s].id = i,
               req'[s].answer.status = "ok"
        PROVE  FALSE
    <3>1. req'[s].op = "get" /\ req'[s].id = i
      BY <1>1, <2>3, EarlySilent, RequestStays
    <3>2. kind' = kind /\ K' = K
      BY <1>1, KindStays
    <3>3. store'[i].own = store[i].own
      <4>1. CASE store' = store
        BY <4>1
      <4>2. CASE store' # store
        <5>1. PICK t \in Sessions : Changing(t)
          BY <1>1, <4>2, ChangingStep
        <5>2. Ages
          BY <1>1, <3>2, <5>1, EffectAges DEF Changing
        <5> QED  BY <5>2, <2>1 DEF Ages
      <4> QED  BY <4>1, <4>2
    <3>4. IInv'
      BY <1>1, NextInv
    <3>5. OwnObject(req[s])'
      BY <3>1, <3>2, <3>4, <2>3 DEF IInv, Remote, LookedUp
    <3> QED  BY <3>1, <3>3, <3>5 DEF OwnObject
  <2> QED  BY <2>2, <2>3
<1>2. IInv /\ [Next]_vars => [P]_vars
  BY <1>1
<1> QED  BY <1>2, InvHolds, PTL DEF Spec, UsagesApart

----------------------------------------------------------------------------
(* Updates stick *)

\* What a session has written, as a function of its request.
WroteValue(name, r, t, id, f, value) ==
    /\ r.wrote /\ r.op = "modify" /\ r.id = id
    /\ \/ f \in Named(r.body) /\ value = IF r.body[f] = "empty" THEN "empty" ELSE t
       \/ <<name, f>> \in SentUnasked /\ value = "empty"
       \/ name = "users" /\ f \in DOMAIN r.known /\ value = r.known[f]

\* Holds, as a function of the requests.
Held(name, requests, s, f, value) ==
    \/ value = IF requests[s].body[f] = "empty" THEN "empty" ELSE s
    \/ \E t \in Sessions \ {s} : WroteValue(name, requests[t], t, requests[s].id, f, value)
    \/ <<name, f>> \in NotSent
    \/ requests[s].body[f] = "empty" /\ <<name, f>> \in EmptyIsOmitted

\* After its command has been carried out, the object holds what an update says
\* or what another one has said since; and its answer shows that.
Sticks(s) ==
    LET r == req[s]
    IN  /\ (r.wrote /\ r.op = "modify") =>
             /\ DOMAIN r.body = DOMAIN K.modify.dto.fields
             /\ \A f \in Named(r.body) : Held(kind, req, s, f, store[r.id].fields[f])
        /\ (r.answer.status = "ok" /\ r.op = "modify") =>
             /\ r.wrote
             /\ \A f \in Named(r.body) :
                  IF f \in DOMAIN r.answer.view THEN Held(kind, req, s, f, r.answer.view[f])
                  ELSE <<kind, f>> \in NotShown

SInv == \A s \in Sessions : Sticks(s)

\* What another session has written stays written.
LEMMA HeldStays ==
  ASSUME IInv, [Next]_vars, NEW s \in Sessions, req[s].pc \notin {"idle", "accepted"},
         NEW f, NEW value, Held(kind, req, s, f, value)
  PROVE  Held(kind', req', s, f, value)
<1>1. req'[s].id = req[s].id /\ req'[s].body = req[s].body /\ kind' = kind
  BY RequestStays, KindStays
<1>2. ASSUME NEW t \in Sessions, WroteValue(kind, req[t], t, req[s].id, f, value)
      PROVE  WroteValue(kind, req'[t], t, req[s].id, f, value)
  <2>1. req[t].wrote /\ req[t].pc \notin {"idle", "accepted"}
    BY <1>2 DEF WroteValue, IInv, Local, Staged
  <2>2. /\ req'[t].op = req[t].op /\ req'[t].id = req[t].id /\ req'[t].body = req[t].body
        /\ req'[t].wrote /\ req'[t].known = req[t].known
    BY <2>1, RequestStays
  <2> QED  BY <1>2, <2>2 DEF WroteValue
<1> QED  BY <1>1, <1>2 DEF Held

\* A request that comes to have written has just had its command carried out.
LEMMA FirstWrite ==
  ASSUME IInv, [Next]_vars, NEW s \in Sessions, ~req[s].wrote, req'[s].wrote
  PROVE  Changing(s)
<1>1. req[s].pc \notin {"idle", "accepted"} /\ DOMAIN req = Sessions /\ Shaped(req[s])
  BY EarlySilent DEF IInv, Local
<1>2. CASE Execute(s)
  <2>1. Command(s) \in Changes
    BY <1>2, ExecuteShape
  <2> QED  BY <1>2, <2>1, CarriedOutStep DEF Execute
<1>3. CASE NotThere(s) \/ Fails(s)
  BY <1>1, <1>3, FailedShape DEF NotThere, Fails, CanFail
<1>4. CASE AnswerLost(s)
  BY <1>4, LooksChangeNothing, CarriedOutStep DEF AnswerLost, CanFail
<1>5. CASE Dropped(s)
  <2>1. PICK wrote \in BOOLEAN :
          /\ wrote => CarriedOut(s) /\ Effect(s) # store
          /\ store' = IF wrote THEN Effect(s) ELSE store
          /\ req' = [req EXCEPT ![s] = [@ EXCEPT !.pc = "dropped", !.todo = <<>>,
                                                 !.wrote = req[s].wrote \/ wrote]]
    BY <1>5 DEF Dropped, CanFail
  <2>2. req'[s].wrote = (req[s].wrote \/ wrote)
    BY <2>1, <1>1 DEF Shaped, Parts
  <2>3. CarriedOut(s) /\ Effect(s) # store /\ store' = Effect(s)
    BY <2>1, <2>2
  <2> QED  BY <2>3, <1>5, LooksChangeNothing, CarriedOutStep
<1> QED  BY <1>1, <1>2, <1>3, <1>4, <1>5, OwnStep DEF Submit, Start

LEMMA StoreSticks ==
  ASSUME IInv, SInv, [Next]_vars, NEW s \in Sessions, req'[s].wrote, req'[s].op = "modify"
  PROVE  /\ DOMAIN req'[s].body = DOMAIN K.modify.dto.fields
         /\ \A f \in Named(req'[s].body) :
              Held(kind', req', s, f, store'[req'[s].id].fields[f])
<1> DEFINE r == req[s]
           id == r.id
<1>1. r.pc \notin {"idle", "accepted"}
  BY EarlySilent
<1>2. req'[s].op = r.op /\ req'[s].id = id /\ req'[s].body = r.body /\ kind' = kind
  BY <1>1, RequestStays, KindStays
<1>3. Stored
  BY DEF IInv
<1>4. CASE ~r.wrote
  <2>1. Changing(s)
    BY <1>4, FirstWrite
  <2>2. Command(s) = "modify" /\ id \in Ids /\ store[id].state = "live"
    BY <2>1, <1>2, ChangedObject DEF Changing
  <2>3. DOMAIN r.body = DOMAIN K.modify.dto.fields
    BY <2>1, <2>2, UpdateAtWork
  <2>4. store'[id].fields = Written(s, store[id].fields, K.modify)
    <3>1. store' = [store EXCEPT ![id].fields = Written(s, store[id].fields, K.modify)]
      BY <2>1, <2>2 DEF Changing, Effect, Object
    <3> QED  BY <3>1, <2>2, <1>3 DEF Stored
  <2>5. DOMAIN store[id].fields = FieldsOf(K)
    BY <2>2, <1>3 DEF Stored
  <2>6. ASSUME NEW f \in Named(r.body)
        PROVE  Held(kind', req', s, f, store'[id].fields[f])
    <3>1. \/ <<kind, f>> \in NotSent
          \/ r.body[f] = "empty" /\ <<kind, f>> \in EmptyIsOmitted
          \/ store'[id].fields[f] = Said(s, f)
      BY <2>1, <2>2, <2>4, <2>5, WrittenNamed
    <3> QED  BY <3>1, <1>2 DEF Held, Said
  <2> QED  BY <2>3, <2>6, <1>2
<1>5. CASE r.wrote
  <2>1. /\ DOMAIN r.body = DOMAIN K.modify.dto.fields
        /\ \A f \in Named(r.body) : Held(kind, req, s, f, store[id].fields[f])
    BY <1>2, <1>5 DEF SInv, Sticks
  <2>2. id \in Ids /\ store[id].state # "none"
    BY <1>2, <1>5 DEF IInv, Remote, Truthful
  <2>3. DOMAIN store[id].fields = FieldsOf(K)
    BY <2>2, <1>3 DEF Stored
  <2>4. ASSUME NEW f \in Named(r.body)
        PROVE  Held(kind', req', s, f, store'[id].fields[f])
    <3>1. Held(kind', req', s, f, store[id].fields[f])
      BY <2>1, <1>1, HeldStays
    <3>2. f \in FieldsOf(K)
      BY <2>1 DEF Named, FieldsOf
    <3>3. CASE store'[id].fields[f] = store[id].fields[f]
      BY <3>1, <3>3
    <3>4. CASE store'[id].fields[f] # store[id].fields[f]
      <4>1. PICK t \in Sessions : Changing(t)
        BY <3>4, ChangingStep
      <4>2. /\ Command(t) = "modify" /\ id = req[t].id
            /\ store'[id].fields = Written(t, store[id].fields, K.modify)
        BY <3>4, <4>1, <2>2, ChangesOne
      <4>3. CASE t = s
        <5>1. \/ <<kind, f>> \in NotSent
              \/ r.body[f] = "empty" /\ <<kind, f>> \in EmptyIsOmitted
              \/ store'[id].fields[f] = Said(s, f)
          BY <4>1, <4>2, <4>3, <2>3, WrittenNamed
        <5> QED  BY <5>1, <1>2 DEF Held, Said
      <4>4. CASE t # s
        <5>1. \/ f \in Named(req[t].body) /\ store'[id].fields[f] = Said(t, f)
              \/ <<kind, f>> \in SentUnasked /\ store'[id].fields[f] = "empty"
              \/ /\ kind = "users" /\ f \in DOMAIN req[t].known
                 /\ store'[id].fields[f] = req[t].known[f]
          BY <3>2, <3>4, <4>1, <4>2, <2>3, WrittenByAny
        <5>2. req[t].op = "modify"
          BY <4>1, <4>2, UpdateAtWork
        <5>3. /\ req'[t].op = req[t].op /\ req'[t].id = id /\ req'[t].body = req[t].body
              /\ req'[t].wrote /\ req'[t].known = req[t].known
          BY <4>1, <4>2, RequestStays DEF Changing
        <5>4. WroteValue(kind, req'[t], t, id, f, store'[id].fields[f])
          BY <5>1, <5>2, <5>3 DEF WroteValue, Said
        <5> QED  BY <5>4, <4>4, <1>2 DEF Held
      <4> QED  BY <4>3, <4>4
    <3> QED  BY <3>3, <3>4
  <2> QED  BY <2>1, <2>4, <1>2
<1> QED  BY <1>4, <1>5

LEMMA AnswerSticks ==
  ASSUME IInv, SInv, [Next]_vars, NEW s \in Sessions,
         req'[s].answer.status = "ok", req'[s].op = "modify"
  PROVE  /\ req'[s].wrote
         /\ \A f \in Named(req'[s].body) :
              IF f \in DOMAIN req'[s].answer.view
              THEN Held(kind', req', s, f, req'[s].answer.view[f])
              ELSE <<kind', f>> \in NotShown
<1> DEFINE r == req[s]
<1>0. kind' = kind
  BY KindStays
<1>1. CASE req'[s] = r
  <2>1. /\ r.wrote
        /\ \A f \in Named(r.body) :
             IF f \in DOMAIN r.answer.view THEN Held(kind, req, s, f, r.answer.view[f])
             ELSE <<kind, f>> \in NotShown
    BY <1>1 DEF SInv, Sticks
  <2>2. r.pc \notin {"idle", "accepted"}
    BY <2>1 DEF IInv, Local, Staged
  <2>3. ASSUME NEW f \in Named(r.body), f \in DOMAIN r.answer.view
        PROVE  Held(kind', req', s, f, r.answer.view[f])
    BY <2>1, <2>2, <2>3, HeldStays
  <2> HIDE DEF r
  <2> QED  BY <1>0, <1>1, <2>1, <2>3
<1>2. CASE req'[s] # r
  <2>1. r.pc \notin {"idle", "accepted"}
    BY EarlySilent
  <2>2. Execute(s) /\ req'[s].body = r.body /\ req'[s].id = r.id /\ r.op = "modify"
    BY <1>2, <2>1, RequestStays
  <2>3. /\ r.pc = "running" /\ Sequenced(kind, K, r) /\ Finishing(r) /\ kind \in DOMAIN Kinds
        /\ Staged(K, r) /\ Stored
    BY <2>2 DEF Execute, IInv, Local
  <2>4. /\ Command(s) = r.todo[1] /\ 1 \in DOMAIN r.todo
        /\ DOMAIN Tail(r.todo) = {n \in Nat \ {0} : n + 1 \in DOMAIN r.todo}
        /\ DOMAIN r.todo \subseteq Nat \ {0}
    BY <2>3, NextCommand, LenProperties DEF Sequenced
  <2>5. UpdateFits(kind) /\ K = Kinds[kind]
    BY <2>2, <2>3, TablesAssumption DEF Staged, K
  <2>6. /\ Tail(r.todo) = <<>>
        /\ req'[s].read = IF Command(s) \in {"get", "getOwn"} THEN Object(s).fields ELSE r.read
        /\ req'[s].wrote = (r.wrote \/ Command(s) \in Changes)
        /\ req'[s].answer.view = [f \in DOMAIN req'[s].read \cap K.shown |-> req'[s].read[f]]
    <3>1. K.handlers[r.op] = "update_resource"
      BY <2>2, <2>5 DEF UpdateFits
    <3>2. PICK rest :
            /\ rest = Tail(r.todo) \/ rest = AskAll(s)
            /\ req'[s].read = IF Command(s) \in {"get", "getOwn"} THEN Object(s).fields ELSE r.read
            /\ req'[s].wrote = (r.wrote \/ Command(s) \in Changes)
            /\ IF rest = <<>>
               THEN K.handlers[r.op] = "update_resource" =>
                      req'[s].answer.view =
                        [f \in DOMAIN req'[s].read \cap K.shown |-> req'[s].read[f]]
               ELSE req'[s].answer.status = "none"
      BY <2>2, ExecuteShape
    <3>3. rest = <<>> /\ AskAll(s) # <<>>
      BY <3>2, AskAllShape
    <3> QED  BY <3>1, <3>2, <3>3
  <2>7. \A n \in DOMAIN r.todo : n = 1
    <3>1. ASSUME NEW n \in DOMAIN r.todo, n # 1
          PROVE  FALSE
      <4>1. n - 1 \in Nat \ {0} /\ n - 1 + 1 = n
        BY <2>4, <3>1
      <4>2. n - 1 \in DOMAIN Tail(r.todo)
        BY <2>4, <4>1
      <4>3. DOMAIN Tail(r.todo) = {}
        BY <2>6
      <4> QED  BY <4>2, <4>3
    <3> QED  BY <3>1
  <2>8. r.wrote
    BY <2>2, <2>3, <2>7 DEF Finishing
  <2>9. Command(s) \in {"get", "getOwn"}
    BY <2>3, <2>4, <2>8 DEF Sequenced, Afterwards
  <2>10. r.id \in Ids /\ req'[s].read = store[r.id].fields /\ DOMAIN store[r.id].fields = FieldsOf(K)
    BY <2>3, <2>4, <2>6, <2>9 DEF Sequenced, OnObject, Object, Stored
  <2>11. /\ DOMAIN r.body = DOMAIN K.modify.dto.fields
         /\ \A f \in Named(r.body) : Held(kind, req, s, f, store[r.id].fields[f])
    BY <2>2, <2>8 DEF SInv, Sticks
  <2>12. ASSUME NEW f \in Named(r.body), f \in DOMAIN req'[s].answer.view
         PROVE  Held(kind', req', s, f, req'[s].answer.view[f])
    <3>1. req'[s].answer.view[f] = store[r.id].fields[f]
      BY <2>6, <2>10, <2>12
    <3>2. Held(kind', req', s, f, store[r.id].fields[f])
      BY <2>1, <2>11, HeldStays
    <3> QED  BY <3>1, <3>2
  <2>13. ASSUME NEW f \in Named(r.body), f \notin DOMAIN req'[s].answer.view
         PROVE  <<kind', f>> \in NotShown
    <3>1. f \in DOMAIN K.modify.dto.fields /\ f \in FieldsOf(K)
      BY <2>11 DEF Named, FieldsOf
    <3>2. f \notin K.shown
      BY <3>1, <2>6, <2>10, <2>13
    <3> QED  BY <3>1, <3>2, <2>5, <1>0 DEF UpdateFits
  <2>14. req'[s].wrote
    BY <2>6, <2>8
  <2> QED  BY <2>2, <2>12, <2>13, <2>14
<1> QED  BY <1>1, <1>2

\* An update that is answered with success has reached the object, and the
\* answer shows it: both hold what the body said, or what another session's
\* update said, never the value from before.
THEOREM UpdatesStick == Spec => []UpdateSticks
<1>1. Init => SInv
  <2>1. ASSUME Init, NEW s \in Sessions
        PROVE  ~req[s].wrote /\ req[s].answer.status # "ok"
    BY <2>1 DEF Init, Idle, NoAnswer
  <2> QED  BY <2>1 DEF SInv, Sticks
<1>2. IInv /\ SInv /\ [Next]_vars => SInv'
  <2> SUFFICES ASSUME IInv, SInv, [Next]_vars, NEW s \in Sessions
               PROVE  Sticks(s)'
    BY DEF SInv
  <2>1. K' = K
    BY KindStays
  <2>2. (req'[s].wrote /\ req'[s].op = "modify") =>
          /\ DOMAIN req'[s].body = DOMAIN K.modify.dto.fields
          /\ \A f \in Named(req'[s].body) :
               Held(kind', req', s, f, store'[req'[s].id].fields[f])
    BY StoreSticks
  <2>3. (req'[s].answer.status = "ok" /\ req'[s].op = "modify") =>
          /\ req'[s].wrote
          /\ \A f \in Named(req'[s].body) :
               IF f \in DOMAIN req'[s].answer.view
               THEN Held(kind', req', s, f, req'[s].answer.view[f])
               ELSE <<kind', f>> \in NotShown
    BY AnswerSticks
  <2> QED  BY <2>1, <2>2, <2>3 DEF Sticks
<1>3. ASSUME NEW s, NEW f, NEW value
      PROVE  Held(kind, req, s, f, value) => Holds(s, f, value)
  BY DEF Held, WroteValue, Holds, FromAnother, Said
<1>4. SInv => UpdateSticks
  BY <1>3 DEF SInv, Sticks, UpdateSticks
<1> QED  BY <1>1, <1>2, <1>4, InvHolds, PTL DEF Spec

============================================================================
