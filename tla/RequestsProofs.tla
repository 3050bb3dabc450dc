--------------------------- MODULE RequestsProofs ---------------------------
(***************************************************************************)
(* The session that request-scoped Basic authentication creates does not   *)
(* outlive its request, for any number of requests, tokens and sessions    *)
(* that exist already.                                                     *)
(*                                                                         *)
(* ScopedSessionEnds is not inductive: the teardown finds no session and   *)
(* answers, and one has to know that nothing else is left of it then.      *)
(* Three facts make it so.  Nobody else knows the token (Private), so no   *)
(* other request deletes, uses or connects the session.  Whoever takes it  *)
(* out of the registry for being idle also takes on its connection         *)
(* (Accounted), and a session with a job is never idle (JobsHold).         *)
(***************************************************************************)
EXTENDS Requests, TLAPS

Place == {"idle", "gate", "basic", "connect", "handler", "command", "readback", "teardown",
          "disconnect", "answered", "dropped"}

\* The types the argument needs.
Types ==
    /\ pc \in [Request -> Place]
    /\ route \in [Request -> Route]
    /\ auth \in [Request -> {"none", "basic", "malformed", "bearer"}]
    /\ token \in [Request -> Token \cup {NoToken}]
    /\ tracked \subseteq Request /\ jobs \subseteq Request
    /\ registry \subseteq minted /\ clients \subseteq minted /\ issued \subseteq minted
    /\ minted \subseteq Token
    /\ \A r \in Request : token[r] # NoToken => token[r] \in minted

\* Only the request knows the token of its session.
Private(r) ==
    Scoped(r) => /\ token[r] \notin issued
                 /\ \A q \in Request : q # r => token[q] # token[r]

\* The session is created inside the in-flight guard and not before.
Placed(r) ==
    /\ (UsesRequestScopedBasic(r) /\ pc[r] \in {"idle", "gate", "basic"}) => token[r] = NoToken
    /\ (UsesRequestScopedBasic(r) /\ pc[r] \in Working \cup {"basic"}) => r \in tracked
    /\ pc[r] = "connect" => token[r] # NoToken

\* A job runs for a request that has come as far, in a session that is not idle.
JobsHold(r) ==
    r \in jobs => /\ route[r] = "export"
                  /\ pc[r] \in {"teardown", "disconnect", "answered", "dropped"}
                  /\ token[r] \notin stale

\* Nothing is left of the session but what the reaper is about to close.
Gone(r) == token[r] \notin clients \ doomed /\ r \notin jobs

Accounted(r) ==
    Scoped(r) => /\ pc[r] = "connect" => token[r] \in registry \ stale /\ token[r] \notin clients
                 /\ pc[r] \in {"handler", "command", "readback", "teardown"} => token[r] \in registry \/ Gone(r)
                 /\ pc[r] = "disconnect" => token[r] \notin registry
                 /\ pc[r] = "answered" => token[r] \notin registry /\ Gone(r)

IInv ==
    /\ Types
    /\ \A r \in Request : Private(r) /\ Placed(r) /\ JobsHold(r) /\ Accounted(r)

-----------------------------------------------------------------------------

\* Every step below reasons about the whole invariant.
USE RequestsAssumption
  DEF IInv, Types, Private, Placed, JobsHold, Accounted, Gone, Scoped, UsesRequestScopedBasic,
      Protected, Changing, Public, Route, Place, Working, sessionVars, Goes, Leaves

\* The inductive invariant is what ScopedSessionEnds needs.
LEMMA InvImplies == IInv => ScopedSessionEnds
BY DEF ScopedSessionEnds

\* It holds when the gateway starts: no request has been made.
LEMMA InitInv == Init => IInv
BY DEF Init

\* A request goes from one layer to another and nothing else changes: only what
\* the invariant says of this request is to be shown.
LEMMA MovesInv ==
  ASSUME IInv, NEW p \in Request, NEW place \in Place, pc' = [pc EXCEPT ![p] = place],
         UNCHANGED <<route, auth, token, sessionVars>>,
         tracked' \in SUBSET Request, \A q \in Request : q # p => (q \in tracked' <=> q \in tracked),
         (Placed(p) /\ JobsHold(p) /\ Accounted(p))'
  PROVE  IInv'
<1>1. Types'
  OBVIOUS
<1>2. ASSUME NEW q \in Request PROVE Private(q)'
  OBVIOUS
<1>3. ASSUME NEW q \in Request, q # p PROVE (Placed(q) /\ JobsHold(q) /\ Accounted(q))'
  BY <1>3
<1> QED  BY <1>1, <1>2, <1>3

\* A response of the handler leads to the teardown of a request-scoped session.
LEMMA RespondsInv ==
  ASSUME IInv, NEW p \in Request, NEW s, pc[p] \in {"handler", "command", "readback"}, Responds(p, s),
         UNCHANGED <<route, auth, token, sessionVars>>
  PROVE  IInv'
<1>1. CASE Scoped(p)
  <2>1. pc' = [pc EXCEPT ![p] = "teardown"] /\ tracked' = tracked
    BY <1>1 DEF Responds
  <2>2. (Placed(p) /\ JobsHold(p) /\ Accounted(p))'
    BY <1>1, <2>1
  <2> QED  BY <2>1, <2>2, MovesInv
<1>2. CASE ~Scoped(p)
  <2>1. pc' = [pc EXCEPT ![p] = "answered"] /\ tracked' = tracked \ {p}
    BY <1>2 DEF Responds
  <2>2. (Placed(p) /\ JobsHold(p) /\ Accounted(p))'
    BY <1>2, <2>1
  <2> QED  BY <2>1, <2>2, MovesInv
<1> QED  BY <1>1, <1>2

\* The guard is taken before the session exists.
LEMMA GateInv == ASSUME IInv, NEW p \in Request, Gate(p) PROVE IInv'
<1>1. CASE route[p] = "health" \/ phase = "running"
  <2>1. /\ pc' = [pc EXCEPT ![p] = "basic"]
        /\ tracked' = IF route[p] = "health" THEN tracked ELSE tracked \cup {p}
        /\ UNCHANGED <<route, auth, token, sessionVars>>
    BY <1>1 DEF Gate
  <2>2. (Placed(p) /\ JobsHold(p) /\ Accounted(p))'
    BY <2>1 DEF Gate
  <2>3. tracked' \in SUBSET Request /\ \A q \in Request : q # p => (q \in tracked' <=> q \in tracked)
    BY <2>1
  <2> QED  BY <2>1, <2>2, <2>3, MovesInv
<1>2. CASE ~(route[p] = "health" \/ phase = "running")
  <2>1. /\ pc' = [pc EXCEPT ![p] = "answered"] /\ tracked' = tracked \ {p}
        /\ UNCHANGED <<route, auth, token, sessionVars>>
    BY <1>2 DEF Gate
  <2>2. (Placed(p) /\ JobsHold(p) /\ Accounted(p))'
    BY <2>1 DEF Gate
  <2> QED  BY <2>1, <2>2, MovesInv
<1> QED  BY <1>1, <1>2

\* The connection of a request-scoped session is not issued to a client; that of
\* POST /session was never another request's.
LEMMA ConnectInv == ASSUME IInv, NEW p \in Request, Connect(p) PROVE IInv'
<1>1. CASE Scoped(p)
  <2>1. /\ pc' = [pc EXCEPT ![p] = "handler"] /\ clients' = clients \cup {token[p]}
        /\ UNCHANGED <<route, auth, token, tracked, registry, stale, minted, issued, doomed, jobs>>
    BY <1>1 DEF Connect
  <2>2. Types'
    BY <2>1 DEF Connect
  <2>3. ASSUME NEW q \in Request PROVE (Private(q) /\ Placed(q))'
    BY <1>1, <2>1 DEF Connect
  <2>4. ASSUME NEW q \in Request PROVE JobsHold(q)'
    BY <1>1, <2>1 DEF Connect
  <2>5. ASSUME NEW q \in Request PROVE Accounted(q)'
    BY <1>1, <2>1 DEF Connect
  <2> QED  BY <2>2, <2>3, <2>4, <2>5
<1>2. CASE ~Scoped(p)
  <2>1. /\ pc' = [pc EXCEPT ![p] = "answered"] /\ clients' = clients \cup {token[p]}
        /\ issued' = issued \cup {token[p]} /\ tracked' = tracked \ {p}
        /\ UNCHANGED <<route, auth, token, registry, stale, minted, doomed, jobs>>
    BY <1>2 DEF Connect
  <2>2. Types'
    BY <2>1 DEF Connect
  <2>3. ASSUME NEW q \in Request PROVE (Private(q) /\ Placed(q))'
    BY <1>2, <2>1 DEF Connect
  <2>4. ASSUME NEW q \in Request PROVE JobsHold(q)'
    BY <1>2, <2>1 DEF Connect
  <2>5. ASSUME NEW q \in Request PROVE Accounted(q)'
    BY <1>2, <2>1 DEF Connect
  <2> QED  BY <2>2, <2>3, <2>4, <2>5
<1> QED  BY <1>1, <1>2

\* The routes without a session respond.
LEMMA HandleOpenInv == ASSUME IInv, NEW p \in Request, HandleOpen(p) PROVE IInv'
BY RespondsInv DEF HandleOpen

\* A command is dispatched in a registered session.
LEMMA HandleProtectedInv == ASSUME IInv, NEW p \in Request, HandleProtected(p) PROVE IInv'
<1>1. CASE Responds(p, "refused")
  BY <1>1, RespondsInv DEF HandleProtected
<1>2. CASE Goes(p, "command") /\ UNCHANGED <<answer, tracked>> /\ token[p] \in registry
  <2>1. (Placed(p) /\ JobsHold(p) /\ Accounted(p))'
    BY <1>2 DEF HandleProtected
  <2> QED  BY <1>2, <2>1, MovesInv DEF HandleProtected
<1> QED  BY <1>1, <1>2 DEF HandleProtected

\* An answered command ends in a response.
LEMMA CommandInv == ASSUME IInv, NEW p \in Request, Command(p) PROVE IInv'
BY RespondsInv DEF Command

\* An update goes on to the reading back in the same session.
LEMMA CommandUpdateInv == ASSUME IInv, NEW p \in Request, CommandUpdate(p) PROVE IInv'
<1>1. /\ pc' = [pc EXCEPT ![p] = "readback"]
      /\ UNCHANGED <<route, auth, token, tracked, sessionVars>>
  BY DEF CommandUpdate
<1>2. (Placed(p) /\ JobsHold(p) /\ Accounted(p))'
  BY <1>1 DEF CommandUpdate
<1> QED  BY <1>1, <1>2, MovesInv

\* The reading back ends in a response.
LEMMA ReadBackInv == ASSUME IInv, NEW p \in Request, ReadBack(p) PROVE IInv'
BY RespondsInv DEF ReadBack

\* And so does one that fails.
LEMMA ReadBackFailsInv == ASSUME IInv, NEW p \in Request, ReadBackFails(p) PROVE IInv'
BY RespondsInv DEF ReadBackFails

\* A failed command ends in a response as well.
LEMMA CommandFailsInv == ASSUME IInv, NEW p \in Request, CommandFails(p) PROVE IInv'
BY RespondsInv DEF CommandFails

\* A job is created in a session that is not idle, by the request that owns it.
LEMMA CommandExportInv == ASSUME IInv, NEW p \in Request, CommandExport(p) PROVE IInv'
<1>1. CASE UNCHANGED jobs
  BY <1>1, RespondsInv DEF CommandExport
<1>2. CASE token[p] \in registry \ stale /\ jobs' = jobs \cup {p} /\ Scoped(p)
  <2>1. /\ pc' = [pc EXCEPT ![p] = "teardown"] /\ jobs' = jobs \cup {p}
        /\ UNCHANGED <<route, auth, token, tracked, registry, stale, minted, issued, clients, doomed>>
    BY <1>2 DEF CommandExport, Responds
  <2>2. Types'
    BY <2>1 DEF CommandExport
  <2>3. ASSUME NEW q \in Request PROVE (Private(q) /\ Placed(q))'
    BY <1>2, <2>1 DEF CommandExport
  <2>4. ASSUME NEW q \in Request PROVE JobsHold(q)'
    BY <1>2, <2>1 DEF CommandExport
  <2>5. ASSUME NEW q \in Request PROVE Accounted(q)'
    BY <1>2, <2>1 DEF CommandExport
  <2> QED  BY <2>2, <2>3, <2>4, <2>5
<1>3. CASE token[p] \in registry \ stale /\ jobs' = jobs \cup {p} /\ ~Scoped(p)
  <2>1. /\ pc' = [pc EXCEPT ![p] = "answered"] /\ jobs' = jobs \cup {p} /\ tracked' = tracked \ {p}
        /\ UNCHANGED <<route, auth, token, registry, stale, minted, issued, clients, doomed>>
    BY <1>3 DEF CommandExport, Responds
  <2>2. Types'
    BY <2>1 DEF CommandExport
  <2>3. ASSUME NEW q \in Request PROVE (Private(q) /\ Placed(q))'
    BY <1>3, <2>1 DEF CommandExport
  <2>4. ASSUME NEW q \in Request PROVE JobsHold(q)'
    BY <1>3, <2>1 DEF CommandExport
  <2>5. ASSUME NEW q \in Request PROVE Accounted(q)'
    BY <1>3, <2>1 DEF CommandExport
  <2> QED  BY <2>2, <2>3, <2>4, <2>5
<1> QED  BY <1>1, <1>2, <1>3 DEF CommandExport

\* The teardown removes the session, or something else has: then nothing is left.
LEMMA TeardownInv == ASSUME IInv, NEW p \in Request, Teardown(p) PROVE IInv'
<1>1. CASE Removes(p)
  BY <1>1 DEF Teardown, Removes
<1>2. CASE /\ token[p] \notin registry /\ UNCHANGED sessionVars
           /\ pc' = [pc EXCEPT ![p] = "answered"] /\ tracked' = tracked \ {p}
  <2>1. (Placed(p) /\ JobsHold(p) /\ Accounted(p))'
    BY <1>2 DEF Teardown
  <2> QED  BY <1>2, <2>1, MovesInv DEF Teardown
<1> QED  BY <1>1, <1>2 DEF Teardown

\* DELETE /session cannot name a request-scoped session.
LEMMA HandleDeleteSessionInv == ASSUME IInv, NEW p \in Request, HandleDeleteSession(p) PROVE IInv'
<1>1. CASE Removes(p)
  BY <1>1 DEF HandleDeleteSession, Removes
<1>2. CASE UNCHANGED sessionVars /\ pc' = [pc EXCEPT ![p] = "answered"] /\ tracked' = tracked \ {p}
  BY <1>2 DEF HandleDeleteSession
<1> QED  BY <1>1, <1>2 DEF HandleDeleteSession

\* A new session has a token no request and no client has had.
LEMMA RegistersInv ==
  ASSUME IInv, NEW p \in Request, pc[p] \in {"basic", "handler"},
         UsesRequestScopedBasic(p) => pc[p] = "basic", Registers(p),
         UNCHANGED <<route, auth>>
  PROVE  IInv'
<1> DEFINE t == CHOOSE x \in Token : x \notin minted
<1>1. t \in Token /\ t \notin minted
  BY DEF Registers
<1> HIDE DEF t
<1>2. /\ registry' = (registry \ stale) \cup {t} /\ minted' = minted \cup {t}
      /\ doomed' = doomed \cup stale /\ stale' = {}
      /\ token' = [token EXCEPT ![p] = t] /\ pc' = [pc EXCEPT ![p] = "connect"]
      /\ UNCHANGED <<issued, clients, jobs, tracked, route, auth>>
  BY DEF Registers, t
<1>3. Types'
  BY <1>1, <1>2
<1>4. ASSUME NEW q \in Request PROVE (Private(q) /\ Placed(q))'
  BY <1>1, <1>2
<1>5. ASSUME NEW q \in Request PROVE (JobsHold(q) /\ Accounted(q))'
  BY <1>1, <1>2
<1> QED  BY <1>3, <1>4, <1>5

\* A request that is refused has no session.
LEMMA NotRegisteredInv ==
  ASSUME IInv, NEW p \in Request, pc[p] \in {"basic", "handler"},
         UsesRequestScopedBasic(p) => pc[p] = "basic", NotRegistered(p), UNCHANGED <<route, auth>>
  PROVE  IInv'
<1>1. pc' = [pc EXCEPT ![p] = "answered"] /\ tracked' = tracked \ {p} /\ UNCHANGED <<token, sessionVars>>
  BY DEF NotRegistered
<1>2. (Placed(p) /\ JobsHold(p) /\ Accounted(p))'
  BY <1>1
<1> QED  BY <1>1, <1>2, MovesInv

\* The middleware creates a session for a request that has none.
LEMMA BasicInv == ASSUME IInv, NEW p \in Request, Basic(p) PROVE IInv'
<1>1. CASE UsesRequestScopedBasic(p)
  BY <1>1, RegistersInv, NotRegisteredInv DEF Basic, CreateSession
<1>2. CASE ~UsesRequestScopedBasic(p)
  <2>1. pc' = [pc EXCEPT ![p] = "handler"] /\ UNCHANGED <<route, auth, token, tracked, sessionVars>>
    BY <1>2 DEF Basic
  <2>2. (Placed(p) /\ JobsHold(p) /\ Accounted(p))'
    BY <1>2, <2>1 DEF Basic
  <2> QED  BY <2>1, <2>2, MovesInv
<1> QED  BY <1>1, <1>2

\* POST /session registers a session that is not request-scoped.
LEMMA HandleCreateSessionInv == ASSUME IInv, NEW p \in Request, HandleCreateSession(p) PROVE IInv'
BY RegistersInv, NotRegisteredInv DEF HandleCreateSession, CreateSession

\* A request arrives with a token that was issued, or without one.
LEMMA SecurityInv == ASSUME IInv, NEW p \in Request, Security(p) PROVE IInv'
BY DEF Security, Headers

\* A failed connection takes its session out of the registry again.
LEMMA ConnectFailsInv == ASSUME IInv, NEW p \in Request, ConnectFails(p) PROVE IInv'
BY DEF ConnectFails

\* GET /session only reads.
LEMMA HandleGetSessionInv == ASSUME IInv, NEW p \in Request, HandleGetSession(p) PROVE IInv'
BY DEF HandleGetSession

\* The last step of the teardown leaves neither jobs nor a connection.
LEMMA DisconnectInv == ASSUME IInv, NEW p \in Request, Disconnect(p) PROVE IInv'
BY DEF Disconnect

\* A dropped request may leave its session behind.
LEMMA DroppedInv == ASSUME IInv, NEW p \in Request, Dropped(p) PROVE IInv'
BY DEF Dropped

\* A job ends.
LEMMA JobEndsInv == ASSUME IInv, NEW p \in Request, JobEnds(p) PROVE IInv'
BY DEF JobEnds

\* A session with a job, or being connected, does not become idle.
LEMMA IdleTimeoutInv == ASSUME IInv, NEW t \in Token, IdleTimeout(t) PROVE IInv'
BY DEF IdleTimeout

\* The reaper closes the connection of a session it has removed.
LEMMA ReapedInv == ASSUME IInv, NEW t \in Token, Reaped(t) PROVE IInv'
BY DEF Reaped

\* The reaper takes on the connections of the sessions it removes.
LEMMA ReapInv == ASSUME IInv, Reap PROVE IInv'
BY DEF Reap

\* The gate is closed.
LEMMA BeginShutdownInv == ASSUME IInv, BeginShutdown PROVE IInv'
BY DEF BeginShutdown

\* The process ends with all its sessions.
LEMMA StopInv == ASSUME IInv, Stop PROVE IInv'
BY DEF Stop

\* Every step of the gateway, its clients and gvmd preserves the invariant.
LEMMA NextInv == IInv /\ [Next]_vars => IInv'
<1> SUFFICES ASSUME IInv, [Next]_vars PROVE IInv'
  OBVIOUS
<1>1. ASSUME NEW p \in Request, Handle(p) PROVE IInv'
  BY <1>1, GateInv, BasicInv, ConnectInv, ConnectFailsInv, HandleOpenInv, HandleCreateSessionInv,
     HandleGetSessionInv, HandleDeleteSessionInv, HandleProtectedInv, CommandInv,
     CommandExportInv, CommandFailsInv, CommandUpdateInv, ReadBackInv, ReadBackFailsInv,
     TeardownInv, DisconnectInv, Zenon DEF Handle
<1>2. ASSUME NEW p \in Request, Security(p) \/ Dropped(p) \/ JobEnds(p) PROVE IInv'
  BY <1>2, SecurityInv, DroppedInv, JobEndsInv, Zenon
<1>3. ASSUME NEW t \in Token, IdleTimeout(t) \/ Reaped(t) PROVE IInv'
  BY <1>3, IdleTimeoutInv, ReapedInv, Zenon
<1>4. ASSUME Reap \/ BeginShutdown \/ Stop PROVE IInv'
  BY <1>4, ReapInv, BeginShutdownInv, StopInv, Zenon
<1>5. ASSUME UNCHANGED vars PROVE IInv'
  BY <1>5 DEF vars
<1> HIDE DEF IInv
<1> QED  BY <1>1, <1>2, <1>3, <1>4, <1>5, Zenon DEF Next

\* The session request_scoped_basic_auth_middleware creates ends with its
\* request, on every path through the handlers, their failures, the reaper and
\* the shutdown: what is left of it is left by a dropped request or already the
\* reaper's to close.
THEOREM ScopedSessionsEnd == Spec => []ScopedSessionEnds
<1> HIDE DEF IInv
<1> QED  BY InitInv, NextInv, InvImplies, PTL DEF Spec

-----------------------------------------------------------------------------
(* The truth of the answers *)

\* Nothing is done for a request before it has come to its command, and what is
\* done then is what the response in the making says.  Only POST /session and
\* request-scoped requests connect to gvmd, and only the latter come to the
\* teardown.
Told(r) ==
    /\ r \in done => pc[r] \in {"readback", "teardown", "disconnect", "answered", "dropped"}
    /\ pc[r] = "readback" => route[r] = "update" /\ r \in done
    /\ pc[r] = "connect" => UsesRequestScopedBasic(r) \/ route[r] = "create_session"
    /\ pc[r] = "teardown" => Scoped(r)
    /\ (pc[r] \in {"teardown", "disconnect", "answered"} /\ route[r] \in {"export"} \cup Changing) =>
         /\ answer[r] = "ok" => r \in done
         /\ (r \in done /\ answer[r] # "ok") =>
              \/ r \in lost /\ (answer[r] = "failed" \/ route[r] = "update")
              \/ Scoped(r) /\ answer[r] = "not_found"

Header == {"none", "basic", "malformed", "bearer"}

AnswerInv ==
    /\ pc \in [Request -> Place] /\ answer \in [Request -> Answers]
    /\ route \in [Request -> Route] /\ auth \in [Request -> Header]
    /\ token \in [Request -> Token \cup {NoToken}]
    /\ done \subseteq Request /\ lost \subseteq Request
    /\ \A r \in Request : Told(r)

HIDE DEF IInv, Types, Private, Placed, JobsHold, Accounted, Gone, sessionVars

\* A step of one request: what is told to the others stays as it is.
LEMMA ToldInv ==
  ASSUME AnswerInv, NEW p \in Request, NEW place \in Place, NEW status \in Answers,
         pc' = [pc EXCEPT ![p] = place], answer' = [answer EXCEPT ![p] = status],
         UNCHANGED <<route, auth, token>>, done \subseteq done', done' \subseteq done \cup {p},
         lost \subseteq lost', lost' \subseteq lost \cup {p}, Told(p)'
  PROVE  AnswerInv'
<1>1. ASSUME NEW q \in Request, q # p PROVE Told(q)'
  BY <1>1 DEF AnswerInv, Told, Answers
<1> QED  BY <1>1 DEF AnswerInv

\* The response of a handler after its command: a success only of what was done,
\* a failure of what was done only when the answer was lost.
LEMMA RespondsTold ==
  ASSUME AnswerInv, NEW p \in Request, NEW status \in Answers, Responds(p, status),
         pc[p] \in {"handler", "command", "readback"}, UNCHANGED <<route, auth, token>>,
         done \subseteq done', done' \subseteq done \cup {p},
         lost \subseteq lost', lost' \subseteq lost \cup {p},
         route[p] \in {"export"} \cup Changing =>
            /\ status = "ok" => p \in done'
            /\ status # "ok" => \/ p \notin done'
                                \/ p \in lost' /\ (status = "failed" \/ route[p] = "update")
  PROVE  AnswerInv'
<1>1. answer' = [answer EXCEPT ![p] = status]
  BY DEF Responds
<1>2. CASE Scoped(p)
  <2>1. pc' = [pc EXCEPT ![p] = "teardown"]
    BY <1>2 DEF Responds
  <2>2. Told(p)'
    BY <1>1, <1>2, <2>1 DEF AnswerInv, Told, Answers
  <2> QED  BY <1>1, <2>1, <2>2, ToldInv
<1>3. CASE ~Scoped(p)
  <2>1. pc' = [pc EXCEPT ![p] = "answered"]
    BY <1>3 DEF Responds
  <2>2. Told(p)'
    BY <1>1, <1>3, <2>1 DEF AnswerInv, Told, Answers
  <2> QED  BY <1>1, <2>1, <2>2, ToldInv
<1> QED  BY <1>2, <1>3

\* The same for a failure, when nothing was done.
LEMMA FailsTold ==
  ASSUME AnswerInv, NEW p \in Request, NEW status \in {"refused", "not_found", "failed"},
         Responds(p, status), pc[p] \in {"handler", "command", "readback"}, p \notin done,
         UNCHANGED <<route, auth, token, done, lost>>
  PROVE  AnswerInv'
<1>1. CASE Scoped(p)
  <2>1. pc' = [pc EXCEPT ![p] = "teardown"] /\ answer' = [answer EXCEPT ![p] = status]
    BY <1>1 DEF Responds
  <2>2. Told(p)'
    BY <1>1, <2>1 DEF AnswerInv, Told, Answers
  <2> QED  BY <2>1, <2>2, ToldInv DEF Answers
<1>2. CASE ~Scoped(p)
  <2>1. pc' = [pc EXCEPT ![p] = "answered"] /\ answer' = [answer EXCEPT ![p] = status]
    BY <1>2 DEF Responds
  <2>2. Told(p)'
    BY <1>2, <2>1 DEF AnswerInv, Told, Answers
  <2> QED  BY <2>1, <2>2, ToldInv DEF Answers
<1> QED  BY <1>1, <1>2

\* A step before the command: nothing was done, and nothing is claimed.
LEMMA EarlyTold ==
  ASSUME AnswerInv, NEW p \in Request, NEW place \in Place \ {"readback", "teardown"}, NEW status \in Answers,
         pc[p] \in {"idle", "gate", "basic", "connect", "handler"},
         pc' = [pc EXCEPT ![p] = place], answer' = [answer EXCEPT ![p] = status],
         route' \in [Request -> Route], auth' \in [Request -> Header],
         token' \in [Request -> Token \cup {NoToken}],
         \A q \in Request \ {p} : route'[q] = route[q] /\ auth'[q] = auth[q] /\ token'[q] = token[q],
         UNCHANGED <<done, lost>>,
         place \in {"disconnect", "answered"} /\ status = "ok" => route'[p] \notin {"export"} \cup Changing,
         place = "connect" => \/ route'[p] = "create_session"
                              \/ route'[p] \in Protected /\ auth'[p] \in {"basic", "malformed"}
  PROVE  AnswerInv'
<1>1. ASSUME NEW q \in Request, q # p PROVE Told(q)'
  BY <1>1 DEF AnswerInv, Told, Answers
<1>2. Told(p)'
  BY DEF AnswerInv, Told, Answers
<1> QED  BY <1>1, <1>2 DEF AnswerInv

\* The same for a step that leaves the request as it came.
LEMMA MovesTold ==
  ASSUME AnswerInv, NEW p \in Request, NEW place \in Place \ {"connect", "readback", "teardown"},
         NEW status \in Answers, pc[p] \in {"idle", "gate", "basic", "connect", "handler"},
         pc' = [pc EXCEPT ![p] = place], answer' = [answer EXCEPT ![p] = status],
         UNCHANGED <<route, auth, token, done, lost>>,
         place \in {"disconnect", "answered"} /\ status = "ok" => route[p] \notin {"export"} \cup Changing
  PROVE  AnswerInv'
<1>1. /\ route' \in [Request -> Route] /\ auth' \in [Request -> Header]
      /\ token' \in [Request -> Token \cup {NoToken}]
  BY DEF AnswerInv
<1> HIDE DEF AnswerInv
<1> QED  BY <1>1, EarlyTold

\* An answer that does not change.
LEMMA SameAnswer ==
  ASSUME AnswerInv, NEW p \in Request, UNCHANGED answer
  PROVE  answer' = [answer EXCEPT ![p] = answer[p]] /\ answer[p] \in Answers
BY DEF AnswerInv

\* security_middleware answers a preflight, or refuses what is over a limit.
LEMMA SecurityTold == ASSUME AnswerInv, issued \subseteq Token, NEW p \in Request, Security(p)
                      PROVE  AnswerInv'
<1>1. PICK what \in Route, t \in issued \cup {NoToken} : \E header \in Headers(what) :
         /\ route' = [route EXCEPT ![p] = what]
         /\ auth' = [auth EXCEPT ![p] = header]
         /\ token' = [token EXCEPT ![p] = t]
         /\ \/ what = "preflight" /\ \E status \in {"ok", "refused"} : Leaves(p, status)
            \/ what \in RateLimited \ {"preflight"} /\ Leaves(p, "refused")
            \/ what # "preflight" /\ Goes(p, "gate") /\ UNCHANGED <<answer, tracked>>
  BY DEF Security
<1>2. PICK header \in Headers(what) :
         /\ route' = [route EXCEPT ![p] = what]
         /\ auth' = [auth EXCEPT ![p] = header]
         /\ token' = [token EXCEPT ![p] = t]
         /\ \/ what = "preflight" /\ \E status \in {"ok", "refused"} : Leaves(p, status)
            \/ what \in RateLimited \ {"preflight"} /\ Leaves(p, "refused")
            \/ what # "preflight" /\ Goes(p, "gate") /\ UNCHANGED <<answer, tracked>>
  BY <1>1
<1>3. header \in Header
  BY DEF Headers, Header
<1>4. /\ route' \in [Request -> Route] /\ auth' \in [Request -> Header]
      /\ token' \in [Request -> Token \cup {NoToken}]
      /\ \A q \in Request \ {p} : route'[q] = route[q] /\ auth'[q] = auth[q] /\ token'[q] = token[q]
      /\ route'[p] = what
  BY <1>2, <1>3 DEF AnswerInv
<1>5. pc[p] = "idle" /\ UNCHANGED <<done, lost>>
  BY DEF Security
<1> HIDE DEF AnswerInv
<1>6. CASE what = "preflight" /\ \E status \in {"ok", "refused"} : Leaves(p, status)
  <2>1. PICK status \in {"ok", "refused"} : Leaves(p, status)
    BY <1>6
  <2> QED  BY <1>4, <1>5, <1>6, <2>1, EarlyTold DEF Answers
<1>7. CASE Leaves(p, "refused")
  BY <1>4, <1>5, <1>7, EarlyTold DEF Answers
<1>8. CASE Goes(p, "gate") /\ UNCHANGED <<answer, tracked>>
  BY <1>4, <1>5, <1>8, SameAnswer, EarlyTold
<1> QED  BY <1>2, <1>6, <1>7, <1>8

\* The gate refuses, or lets the request on.
LEMMA GateTold == ASSUME AnswerInv, NEW p \in Request, Gate(p) PROVE AnswerInv'
<1>1. CASE Leaves(p, "refused")
  BY <1>1, MovesTold DEF Gate, Answers
<1>2. CASE Goes(p, "basic") /\ UNCHANGED answer
  BY <1>2, MovesTold, SameAnswer DEF Gate
<1> QED  BY <1>1, <1>2 DEF Gate

\* A session is registered for a request that has not been answered.
LEMMA CreateSessionTold ==
  ASSUME AnswerInv, NEW p \in Request, pc[p] \in {"basic", "handler"}, CreateSession(p),
         UsesRequestScopedBasic(p) \/ route[p] = "create_session",
         UNCHANGED <<route, auth, done, lost>>
  PROVE  AnswerInv'
<1>1. CASE NotRegistered(p)
  BY <1>1, MovesTold DEF NotRegistered, Answers
<1>2. CASE Registers(p)
  <2> DEFINE t == CHOOSE x \in Token : x \notin minted
  <2>1. t \in Token /\ token' = [token EXCEPT ![p] = t] /\ Goes(p, "connect") /\ UNCHANGED answer
    BY <1>2 DEF Registers
  <2> HIDE DEF t
  <2>2. /\ route' \in [Request -> Route] /\ auth' \in [Request -> Header]
        /\ token' \in [Request -> Token \cup {NoToken}]
        /\ \A q \in Request \ {p} : token'[q] = token[q]
    BY <2>1 DEF AnswerInv
  <2> QED  BY <2>1, <2>2, SameAnswer, EarlyTold
<1> QED  BY <1>1, <1>2 DEF CreateSession

\* The middleware before the handler.
LEMMA BasicTold == ASSUME AnswerInv, NEW p \in Request, Basic(p) PROVE AnswerInv'
<1>1. CASE UsesRequestScopedBasic(p)
  BY <1>1, CreateSessionTold DEF Basic
<1>2. CASE Goes(p, "handler") /\ UNCHANGED <<token, answer>>
  BY <1>2, MovesTold, SameAnswer DEF Basic
<1> QED  BY <1>1, <1>2 DEF Basic

\* The token is returned to the client by POST /session only.
LEMMA ConnectTold == ASSUME AnswerInv, IInv, NEW p \in Request, Connect(p) PROVE AnswerInv'
<1>1. CASE Scoped(p)
  BY <1>1, MovesTold, SameAnswer DEF Connect
<1>2. CASE ~Scoped(p)
  <2>1. route[p] \notin {"export"} \cup Changing
    BY <1>2 DEF IInv, Placed, Connect, AnswerInv, Told
  <2> QED  BY <1>2, <2>1, MovesTold DEF Connect, Answers
<1> QED  BY <1>1, <1>2

\* A failed connection is reported as such.
LEMMA ConnectFailsTold == ASSUME AnswerInv, NEW p \in Request, ConnectFails(p) PROVE AnswerInv'
<1>1. PICK status \in {"refused", "failed"} : Leaves(p, status)
  BY DEF ConnectFails
<1> QED  BY <1>1, MovesTold DEF ConnectFails, Answers

\* The routes without a session do nothing in gvmd.
LEMMA HandleOpenTold == ASSUME AnswerInv, NEW p \in Request, HandleOpen(p) PROVE AnswerInv'
<1> DEFINE status == IF route[p] \in Public THEN "ok" ELSE "not_found"
<1>1. status \in Answers /\ Responds(p, status)
  BY DEF HandleOpen, Answers
<1>2. UNCHANGED <<route, auth, token, done, lost>> /\ pc[p] = "handler"
      /\ route[p] \notin {"export"} \cup Changing
  BY DEF HandleOpen
<1> HIDE DEF status, AnswerInv
<1> QED  BY <1>1, <1>2, RespondsTold

\* POST /session is not a command.
LEMMA HandleCreateSessionTold ==
  ASSUME AnswerInv, NEW p \in Request, HandleCreateSession(p) PROVE AnswerInv'
BY CreateSessionTold DEF HandleCreateSession

\* GET /session is not a command.
LEMMA HandleGetSessionTold ==
  ASSUME AnswerInv, NEW p \in Request, HandleGetSession(p) PROVE AnswerInv'
<1> DEFINE status == CASE token[p] = NoToken -> "refused"
                       [] token[p] \in registry -> "ok"
                       [] OTHER -> "not_found"
<1>1. status \in Answers
  BY DEF Answers
<1>2. pc' = [pc EXCEPT ![p] = "answered"] /\ answer' = [answer EXCEPT ![p] = status]
  BY DEF HandleGetSession
<1> HIDE DEF status, AnswerInv
<1> QED  BY <1>1, <1>2, MovesTold DEF HandleGetSession

\* DELETE /session is not a command.
LEMMA HandleDeleteSessionTold ==
  ASSUME AnswerInv, NEW p \in Request, HandleDeleteSession(p) PROVE AnswerInv'
<1>1. CASE Removes(p) /\ answer' = [answer EXCEPT ![p] = "ok"]
  BY <1>1, MovesTold DEF HandleDeleteSession, Removes, Answers
<1>2. CASE Leaves(p, "refused") \/ Leaves(p, "not_found")
  BY <1>2, MovesTold DEF HandleDeleteSession, Answers
<1> QED  BY <1>1, <1>2 DEF HandleDeleteSession

\* A request is refused before its command is sent.
LEMMA HandleProtectedTold == ASSUME AnswerInv, NEW p \in Request, HandleProtected(p) PROVE AnswerInv'
<1>1. CASE Responds(p, "refused")
  <2>1. p \notin done /\ UNCHANGED <<route, auth, token, done, lost>> /\ pc[p] = "handler"
    BY DEF HandleProtected, AnswerInv, Told
  <2> HIDE DEF AnswerInv
  <2> QED  BY <1>1, <2>1, FailsTold
<1>2. CASE Goes(p, "command") /\ UNCHANGED answer
  BY <1>2, MovesTold, SameAnswer DEF HandleProtected
<1> QED  BY <1>1, <1>2 DEF HandleProtected

\* A success follows the change it reports.
LEMMA CommandTold == ASSUME AnswerInv, NEW p \in Request, Command(p) PROVE AnswerInv'
<1>1. p \in done' \/ route[p] \notin {"export"} \cup Changing
  BY DEF Command
<1> QED  BY <1>1, RespondsTold DEF Command, Answers

\* An update is made before it is read back.
LEMMA CommandUpdateTold == ASSUME AnswerInv, NEW p \in Request, CommandUpdate(p) PROVE AnswerInv'
<1>1. /\ pc' = [pc EXCEPT ![p] = "readback"] /\ UNCHANGED <<route, auth, token, answer, lost>>
      /\ done' = done \cup {p} /\ route[p] = "update"
  BY DEF CommandUpdate
<1>2. Told(p)'
  BY <1>1 DEF AnswerInv, Told
<1> QED  BY <1>1, <1>2, SameAnswer, ToldInv

\* What is read back was changed.
LEMMA ReadBackTold == ASSUME AnswerInv, NEW p \in Request, ReadBack(p) PROVE AnswerInv'
<1>1. p \in done' /\ UNCHANGED <<route, auth, token, done, lost>>
  BY DEF ReadBack, AnswerInv, Told
<1> QED  BY <1>1, RespondsTold DEF ReadBack, Answers

\* Only an update that is made is reported otherwise.
LEMMA ReadBackFailsTold == ASSUME AnswerInv, NEW p \in Request, ReadBackFails(p) PROVE AnswerInv'
<1>1. PICK status \in {"refused", "not_found", "failed"} : Responds(p, status)
  BY DEF ReadBackFails
<1>2. /\ lost' = lost \cup {p} /\ UNCHANGED <<route, auth, token, done>> /\ p \in lost'
      /\ route[p] = "update" /\ pc[p] = "readback"
  BY DEF ReadBackFails, AnswerInv, Told
<1> QED  BY <1>1, <1>2, RespondsTold DEF Answers

\* The job exists when the response says so.
LEMMA CommandExportTold == ASSUME AnswerInv, NEW p \in Request, CommandExport(p) PROVE AnswerInv'
<1>1. CASE done' = done \cup {p} /\ Responds(p, "ok")
  BY <1>1, RespondsTold DEF CommandExport, Answers
<1>2. CASE done' = done /\ Responds(p, "refused")
  <2>1. p \notin done /\ UNCHANGED <<route, auth, token, done, lost>> /\ pc[p] = "command"
    BY <1>2 DEF CommandExport, AnswerInv, Told
  <2> HIDE DEF AnswerInv
  <2> QED  BY <1>2, <2>1, FailsTold
<1> QED  BY <1>1, <1>2 DEF CommandExport

\* A change that was carried out is reported as failed only when its answer was lost.
LEMMA CommandFailsTold == ASSUME AnswerInv, NEW p \in Request, CommandFails(p) PROVE AnswerInv'
<1>1. p \notin done /\ pc[p] = "command" /\ UNCHANGED <<route, auth, token>>
  BY DEF CommandFails, AnswerInv, Told
<1>2. CASE \E status \in {"refused", "not_found", "failed"} :
             Responds(p, status) /\ UNCHANGED <<done, lost>>
  <2>1. PICK status \in {"refused", "not_found", "failed"} :
             Responds(p, status) /\ UNCHANGED <<done, lost>>
    BY <1>2
  <2> QED  BY <1>1, <2>1, FailsTold
<1>3. CASE done' = done \cup {p} /\ lost' = lost \cup {p} /\ Responds(p, "failed")
  BY <1>1, <1>3, RespondsTold DEF Answers
<1> QED  BY <1>2, <1>3 DEF CommandFails

\* The teardown replaces a success of a request-scoped request, and keeps a failure.
LEMMA TeardownTold == ASSUME AnswerInv, NEW p \in Request, Teardown(p) PROVE AnswerInv'
<1>1. CASE Removes(p) /\ UNCHANGED answer
  <2>1. pc' = [pc EXCEPT ![p] = "disconnect"] /\ UNCHANGED <<route, auth, token, done, lost>>
    BY <1>1 DEF Teardown, Removes
  <2>2. Told(p)'
    BY <1>1, <2>1 DEF Teardown, AnswerInv, Told
  <2> QED  BY <1>1, <2>1, <2>2, SameAnswer, ToldInv
<1>2. CASE Leaves(p, IF answer[p] = "ok" THEN "not_found" ELSE answer[p])
  <2> DEFINE status == IF answer[p] = "ok" THEN "not_found" ELSE answer[p]
  <2>1. /\ pc' = [pc EXCEPT ![p] = "answered"] /\ answer' = [answer EXCEPT ![p] = status]
        /\ UNCHANGED <<route, auth, token, done, lost>>
    BY <1>2 DEF Teardown
  <2>2. status \in Answers
    BY DEF AnswerInv, Answers
  <2>3. Told(p)'
    BY <2>1 DEF Teardown, AnswerInv, Told, Answers
  <2> QED  BY <2>1, <2>2, <2>3, ToldInv
<1> QED  BY <1>1, <1>2 DEF Teardown

\* The response leaves after the session is gone.
LEMMA DisconnectTold == ASSUME AnswerInv, NEW p \in Request, Disconnect(p) PROVE AnswerInv'
<1>1. /\ pc' = [pc EXCEPT ![p] = "answered"] /\ answer' = [answer EXCEPT ![p] = answer[p]]
      /\ UNCHANGED <<route, auth, token, done, lost>> /\ answer[p] \in Answers
  BY DEF Disconnect, AnswerInv
<1>2. Told(p)'
  BY <1>1 DEF Disconnect, AnswerInv, Told
<1> QED  BY <1>1, <1>2, ToldInv

\* A dropped request is told nothing.
LEMMA DroppedTold == ASSUME AnswerInv, NEW p \in Request, Dropped(p) PROVE AnswerInv'
<1>1. /\ pc' = [pc EXCEPT ![p] = "dropped"] /\ UNCHANGED <<route, auth, token, answer, lost>>
      /\ done \subseteq done' /\ done' \subseteq done \cup {p}
  BY DEF Dropped
<1>2. Told(p)'
  BY <1>1 DEF AnswerInv, Told
<1> QED  BY <1>1, <1>2, SameAnswer, ToldInv

\* The steps beside the requests change no answer.
LEMMA BesideTold ==
  ASSUME AnswerInv, UNCHANGED <<route, auth, token, answer, done, lost>>,
         pc' \in [Request -> Place], \A r \in Request : pc'[r] \in {pc[r], "dropped"}
  PROVE  AnswerInv'
BY DEF AnswerInv, Told

\* The shutdown drops what is at work.
LEMMA StopTold == ASSUME AnswerInv, Stop PROVE AnswerInv'
<1>1. /\ UNCHANGED <<route, auth, token, answer, done, lost>> /\ pc' \in [Request -> Place]
      /\ \A r \in Request : pc'[r] \in {pc[r], "dropped"}
  BY DEF Stop, AnswerInv
<1> QED  BY <1>1, BesideTold

\* Every step keeps the answers true.
LEMMA NextTold == IInv /\ AnswerInv /\ [Next]_vars => AnswerInv'
<1> SUFFICES ASSUME IInv, AnswerInv, [Next]_vars PROVE AnswerInv'
  OBVIOUS
<1>1. ASSUME NEW p \in Request, Handle(p) PROVE AnswerInv'
  BY <1>1, GateTold, BasicTold, ConnectTold, ConnectFailsTold, HandleOpenTold,
     HandleCreateSessionTold, HandleGetSessionTold, HandleDeleteSessionTold, HandleProtectedTold,
     CommandTold, CommandExportTold, CommandFailsTold, CommandUpdateTold, ReadBackTold,
     ReadBackFailsTold, TeardownTold, DisconnectTold, Zenon
     DEF Handle
<1>2. ASSUME NEW p \in Request, Security(p) PROVE AnswerInv'
  <2>1. issued \subseteq Token
    BY DEF IInv, Types
  <2> QED  BY <1>2, <2>1, SecurityTold
<1>3. ASSUME NEW p \in Request, Dropped(p) PROVE AnswerInv'
  BY <1>3, DroppedTold
<1>4. ASSUME UNCHANGED <<pc, route, auth, token, answer, done, lost>> PROVE AnswerInv'
  BY <1>4, BesideTold DEF AnswerInv
<1>5. ASSUME NEW p \in Request, JobEnds(p) PROVE AnswerInv'
  BY <1>4, <1>5 DEF JobEnds
<1>6. ASSUME NEW t \in Token, IdleTimeout(t) \/ Reaped(t) PROVE AnswerInv'
  BY <1>4, <1>6 DEF IdleTimeout, Reaped
<1>7. ASSUME Reap \/ BeginShutdown PROVE AnswerInv'
  BY <1>4, <1>7 DEF Reap, BeginShutdown
<1>8. ASSUME UNCHANGED vars PROVE AnswerInv'
  BY <1>4, <1>8 DEF vars
<1> HIDE DEF IInv, AnswerInv
<1> QED  BY <1>1, <1>2, <1>3, <1>5, <1>6, <1>7, <1>8, StopTold, Zenon DEF Next

\* What a client is told of a change is true on every path: a success means that
\* gvmd has carried the command out or that the job exists; what was done and is
\* not reported as done is a command whose answer was lost, which is an error of
\* the backend, an update that could not be read back (modify_* of the gvmd
\* ports), or a command of a request-scoped session that ran out of its idle time
\* (the error of the deletion replaces the success in
\* request_scoped_basic_auth_middleware).
THEOREM AnswersStayTrue == Spec => []AnswersTrue
<1>1. Init => AnswerInv
  BY DEF Init, AnswerInv, Told, Answers, Header
<1>2. AnswerInv => AnswersTrue
  BY DEF AnswerInv, Told, AnswersTrue
<1> HIDE DEF IInv, AnswerInv
<1> QED  BY <1>1, <1>2, InitInv, NextInv, NextTold, PTL DEF Spec

=============================================================================
