------------------------------ MODULE Requests ------------------------------
(***************************************************************************)
(* One HTTP request through the layers of the router, in the order in      *)
(* which build_router_with_runtime_and_security stacks them: rate limits   *)
(* and CORS preflights, the shutdown gate, request-scoped Basic            *)
(* authentication, the handler with the session it touches, and the way    *)
(* back.  Requests share the session registry, the gvmd connections, the   *)
(* export jobs and the shutdown phase; each of those has a module of its   *)
(* own with the detail (RateLimiter, Shutdown, Sessions, Jobs), this one   *)
(* has what they are to each other during a request.                       *)
(*                                                                         *)
(* A request is dropped only where its future can really wait: for gvmd,   *)
(* and for the body.  The code between two waits runs in one poll, but     *)
(* other threads run beside it, so every lock it takes is a step.          *)
(***************************************************************************)
EXTENDS Naturals, FiniteSets

CONSTANTS
    Request,      \* the requests clients make, numbered in the order of their arrival
    Token,        \* session tokens (fresh UUIDs), which stand for their digests too
    Existing,     \* sessions clients may have when the model starts
    NoToken,      \* the token of a request that has none
    MaxSessions   \* SessionLimits::max_global

ASSUME RequestsAssumption ==
    /\ Existing \subseteq Token /\ NoToken \notin Token
    /\ Request \subseteq Nat /\ IsFiniteSet(Token) /\ MaxSessions \in Nat

VARIABLES
    phase,     \* the gateway is "running", "draining" or "stopped"
    pc,        \* the layer each request is at
    route,     \* the class of its path and method
    auth,      \* its Authorization header
    token,     \* the session it works in
    answer,    \* the status of its response
    done,      \* the requests whose command gvmd has carried out
    lost,      \* those of them that were not told so: gvmd's answer to the command or to
               \* the reading back did not arrive, or the reading back was refused
    tracked,   \* the requests that hold an in-flight guard
    registry,  \* SessionManager: the registered sessions
    stale,     \* those of them whose idle time has run out
    minted,    \* the tokens that were ever registered
    issued,    \* the tokens returned to a client
    clients,   \* GvmdAdapter::sessions: the sessions with a gvmd connection
    doomed,    \* sessions taken out of the registry for being idle, not yet disconnected
    jobs       \* the requests whose export job is unfinished

sessionVars == <<registry, stale, minted, issued, clients, doomed, jobs>>
vars == <<phase, pc, route, auth, token, answer, done, lost, tracked, sessionVars>>

-----------------------------------------------------------------------------
(* Routes *)

\* Paths outside /api/v1/ and the paths under it that need no session; POST,
\* GET and DELETE of the session; reads, changes of one command (create, delete,
\* start and the like), updates, which are a command and the reading back of what
\* it changed, and the creation of an export job under /api/v1/; a path under
\* /api/v1/ that no route matches.
Public == {"health", "version", "openapi"}
Changing == {"change", "update"}
Protected == {"read", "export", "unknown"} \cup Changing
Route == Public \cup Protected
           \cup {"preflight", "outside", "create_session", "get_session", "delete_session"}

\* is_rate_limited_path
RateLimited == Route \ {"health", "openapi", "outside"}

\* classify_runtime_route, as far as uses_request_scoped_basic_auth asks for it:
\* a Basic header, well formed or not, on a protected path.
UsesRequestScopedBasic(r) == route[r] \in Protected /\ auth[r] \in {"basic", "malformed"}

\* The request works in a session of its own.
Scoped(r) == UsesRequestScopedBasic(r) /\ token[r] # NoToken

\* The headers tried: where the code does not look at the header, one stands for
\* all; a route of the session without a Bearer header is tried with Basic.  The
\* paths under /api/v1/ are alike to the layers that refuse a header.
Headers(what) ==
    CASE what \in {"read", "unknown"} -> {"none", "basic", "malformed", "bearer"}
      [] what \in {"export"} \cup Changing -> {"basic", "bearer"}
      [] what = "create_session" -> {"none", "basic", "malformed"}
      [] what \in {"get_session", "delete_session"} -> {"basic", "bearer"}
      [] OTHER -> {"basic"}

\* The statuses told apart: "refused" stands for those that turn a request away
\* (400, 401, 403, 409, 429, 501 and 503), whether a layer, the adapter or gvmd
\* does, "failed" for the errors of the backend (500, 502 and 504).
Answers == {"none", "ok", "refused", "not_found", "failed"}

-----------------------------------------------------------------------------
(* The way back *)

Goes(r, place) == pc' = [pc EXCEPT ![r] = place]

\* The response leaves the outer layers, and the in-flight guard is dropped.
Leaves(r, status) ==
    /\ Goes(r, "answered")
    /\ answer' = [answer EXCEPT ![r] = status]
    /\ tracked' = tracked \ {r}

\* Mutant: a failed request returns before its session is torn down.
RespondsAtOnceWhenFailed(r, status) ==
    IF Scoped(r) /\ status # "failed"
    THEN /\ Goes(r, "teardown")
         /\ answer' = [answer EXCEPT ![r] = status]
         /\ UNCHANGED tracked
    ELSE Leaves(r, status)

\* The handler's response: a request-scoped session is torn down first.
Responds(r, status) ==
    IF Scoped(r)
    THEN /\ Goes(r, "teardown")
         /\ answer' = [answer EXCEPT ![r] = status]
         /\ UNCHANGED tracked
    ELSE Leaves(r, status)

-----------------------------------------------------------------------------
(* The way in *)

\* security_middleware: a preflight is answered for an allowed origin or not, a
\* rate limit may be exceeded.  The client names the session it was given.
Security(r) ==
    /\ pc[r] = "idle" /\ phase # "stopped"
    /\ \A q \in Request : q < r => pc[q] # "idle"
    /\ \E what \in Route, t \in issued \cup {NoToken} : \E header \in Headers(what) :
         /\ header = "bearer" <=> t # NoToken
         /\ route' = [route EXCEPT ![r] = what]
         /\ auth' = [auth EXCEPT ![r] = header]
         /\ token' = [token EXCEPT ![r] = t]
         /\ \/ what = "preflight" /\ \E status \in {"ok", "refused"} : Leaves(r, status)
            \/ what \in RateLimited \ {"preflight"} /\ Leaves(r, "refused")
            \/ what # "preflight" /\ Goes(r, "gate") /\ UNCHANGED <<answer, tracked>>
    /\ UNCHANGED <<phase, done, lost, sessionVars>>

\* shutdown_gate_middleware: the guard is held until the response leaves.
Gate(r) ==
    /\ pc[r] = "gate"
    /\ IF route[r] = "health" \/ phase = "running"
       THEN /\ Goes(r, "basic")
            /\ tracked' = IF route[r] = "health" THEN tracked ELSE tracked \cup {r}
            /\ UNCHANGED answer
       ELSE Leaves(r, "refused")
    /\ UNCHANGED <<phase, route, auth, token, done, lost, sessionVars>>

\* create_draining_expired: idle sessions give way, the new one is registered
\* unless the limit is reached.
Registers(r) ==
    LET t == CHOOSE x \in Token : x \notin minted IN
    /\ Cardinality(registry \ stale) < MaxSessions
    /\ Token \ minted # {}
    /\ registry' = (registry \ stale) \cup {t}
    /\ doomed' = doomed \cup stale
    /\ stale' = {}
    /\ minted' = minted \cup {t}
    /\ token' = [token EXCEPT ![r] = t]
    /\ Goes(r, "connect")
    /\ UNCHANGED <<issued, clients, jobs, answer, tracked>>

\* Nothing is registered: the header is not one, or the limit is reached.
NotRegistered(r) ==
    /\ auth[r] = "basic" => Cardinality(registry \ stale) >= MaxSessions
    /\ Leaves(r, "refused")
    /\ UNCHANGED <<token, sessionVars>>

CreateSession(r) ==
    \/ NotRegistered(r)
    \/ auth[r] = "basic" /\ Registers(r)

\* request_scoped_basic_auth_middleware up to the connection to gvmd.
Basic(r) ==
    /\ pc[r] = "basic"
    /\ IF UsesRequestScopedBasic(r) THEN CreateSession(r)
       ELSE Goes(r, "handler") /\ UNCHANGED <<token, answer, tracked, sessionVars>>
    /\ UNCHANGED <<phase, route, auth, done, lost>>

\* authenticate_session has succeeded.  The middleware puts the token in the
\* Authorization header and goes on to the handler; POST /session returns it.
Connect(r) ==
    /\ pc[r] = "connect"
    /\ clients' = clients \cup {token[r]}
    /\ IF Scoped(r)
       THEN Goes(r, "handler") /\ UNCHANGED <<issued, answer, tracked>>
       ELSE issued' = issued \cup {token[r]} /\ Leaves(r, "ok")
    /\ UNCHANGED <<phase, route, auth, token, done, lost, registry, stale, minted, doomed, jobs>>

\* gvmd refuses the credentials or is not there: the session is removed again.
ConnectFails(r) ==
    /\ pc[r] = "connect"
    /\ registry' = registry \ {token[r]}
    /\ stale' = stale \ {token[r]}
    /\ \E status \in {"refused", "failed"} : Leaves(r, status)
    /\ UNCHANGED <<phase, route, auth, token, done, lost, minted, issued, clients, doomed, jobs>>

-----------------------------------------------------------------------------
(* Handlers *)

\* The routes without a session: health, version, documents, 404 and 405.
HandleOpen(r) ==
    /\ pc[r] = "handler" /\ route[r] \in Public \cup {"outside", "unknown"}
    /\ Responds(r, IF route[r] \in Public THEN "ok" ELSE "not_found")
    /\ UNCHANGED <<phase, route, auth, token, done, lost, sessionVars>>

\* POST /session
HandleCreateSession(r) ==
    /\ pc[r] = "handler" /\ route[r] = "create_session"
    /\ CreateSession(r)
    /\ UNCHANGED <<phase, route, auth, done, lost>>

\* GET /session: an idle session is shown as expired.
HandleGetSession(r) ==
    /\ pc[r] = "handler" /\ route[r] = "get_session"
    /\ Leaves(r, CASE token[r] = NoToken -> "refused"
                   [] token[r] \in registry -> "ok"
                   [] OTHER -> "not_found")
    /\ UNCHANGED <<phase, route, auth, token, done, lost, sessionVars>>

\* delete_session takes the session out of the registry; whoever does that goes
\* on to cancel its jobs and to disconnect it.
Removes(r) ==
    /\ token[r] \in registry
    /\ registry' = registry \ {token[r]}
    /\ stale' = stale \ {token[r]}
    /\ Goes(r, "disconnect")
    /\ UNCHANGED <<minted, issued, clients, doomed, jobs, tracked>>

\* DELETE /session
HandleDeleteSession(r) ==
    /\ pc[r] = "handler" /\ route[r] = "delete_session"
    /\ \/ token[r] = NoToken /\ Leaves(r, "refused") /\ UNCHANGED sessionVars
       \/ token[r] \notin registry \cup {NoToken} /\ Leaves(r, "not_found") /\ UNCHANGED sessionVars
       \/ Removes(r) /\ answer' = [answer EXCEPT ![r] = "ok"]
    /\ UNCHANGED <<phase, route, auth, token, done, lost>>

\* A handler that uses gvmd: path, query and body are refused, there is no
\* token, touch does not find the session or finds it idle, the adapter has no
\* connection for it, or the command is dispatched.
HandleProtected(r) ==
    /\ pc[r] = "handler" /\ route[r] \in {"read", "export"} \cup Changing
    /\ \/ Responds(r, "refused")
       \/ /\ token[r] \in (registry \ stale) \cap clients
          /\ Goes(r, "command") /\ UNCHANGED <<answer, tracked>>
    /\ UNCHANGED <<phase, route, auth, token, done, lost, sessionVars>>

-----------------------------------------------------------------------------
(* Commands; the connection a command was dispatched on outlives its session *)

\* gvmd has carried the command out and its answer has arrived.
Command(r) ==
    /\ pc[r] = "command" /\ route[r] \in {"read", "change"}
    /\ done' = IF route[r] = "change" THEN done \cup {r} ELSE done
    /\ Responds(r, "ok")
    /\ UNCHANGED <<phase, route, auth, token, lost, sessionVars>>

\* The first command of an update; the object is then read back with a second
\* one, which looks the connection up and takes a slot of its queue anew.
CommandUpdate(r) ==
    /\ pc[r] = "command" /\ route[r] = "update"
    /\ done' = done \cup {r}
    /\ Goes(r, "readback")
    /\ UNCHANGED <<phase, route, auth, token, answer, lost, tracked, sessionVars>>

\* The answer of an update is the object as it is now.
ReadBack(r) ==
    /\ pc[r] = "readback"
    /\ token[r] \in clients
    /\ Responds(r, "ok")
    /\ UNCHANGED <<phase, route, auth, token, done, lost, sessionVars>>

\* The session is disconnected by now (401), the queue is full (429), somebody
\* has deleted the object (404), gvmd refuses or does not answer: the update is
\* made, and the request is answered with that error.
ReadBackFails(r) ==
    /\ pc[r] = "readback"
    /\ \E status \in {"refused", "not_found", "failed"} :
         /\ token[r] \notin clients => status = "refused"
         /\ Responds(r, status)
    /\ lost' = lost \cup {r}
    /\ UNCHANGED <<phase, route, auth, token, done, sessionVars>>

\* enqueue_report_export_job after the report was found: the session must still
\* be there to be held, and the registry of jobs must have room.
CommandExport(r) ==
    /\ pc[r] = "command" /\ route[r] = "export"
    /\ \/ /\ token[r] \in registry \ stale
          /\ jobs' = jobs \cup {r} /\ done' = done \cup {r}
          /\ Responds(r, "ok")
       \/ Responds(r, "refused") /\ UNCHANGED <<jobs, done>>
    /\ UNCHANGED <<phase, route, auth, token, lost, registry, stale, minted, issued, clients, doomed>>

\* The connection is gone or its queue is full, gvmd refuses the command or does
\* not find the object, or the connection breaks; in the last case a change may
\* have been carried out.
CommandFails(r) ==
    /\ pc[r] = "command"
    /\ \/ \E status \in {"refused", "not_found", "failed"} :
            Responds(r, status) /\ UNCHANGED <<done, lost>>
       \/ /\ route[r] \in Changing
          /\ done' = done \cup {r} /\ lost' = lost \cup {r}
          /\ Responds(r, "failed")
    /\ UNCHANGED <<phase, route, auth, token, sessionVars>>

-----------------------------------------------------------------------------
(* Teardown *)

\* Mutant: the response is that of the deletion, whatever the handler's was.
TeardownAnswers(r) ==
    /\ pc[r] = "teardown"
    /\ \/ Removes(r) /\ answer' = [answer EXCEPT ![r] = "ok"]
       \/ /\ token[r] \notin registry
          /\ Leaves(r, "not_found")
          /\ UNCHANGED sessionVars
    /\ UNCHANGED <<phase, route, auth, token, done, lost>>

\* The middleware deletes its session.  When that fails, a success is replaced
\* by the error of the deletion and any other response is kept.
Teardown(r) ==
    /\ pc[r] = "teardown"
    /\ \/ Removes(r) /\ UNCHANGED answer
       \/ /\ token[r] \notin registry
          /\ Leaves(r, IF answer[r] = "ok" THEN "not_found" ELSE answer[r])
          /\ UNCHANGED sessionVars
    /\ UNCHANGED <<phase, route, auth, token, done, lost>>

\* cancel_jobs_for_session and disconnect_session; the response follows.
Disconnect(r) ==
    /\ pc[r] = "disconnect"
    /\ jobs' = {j \in jobs : token[j] # token[r]}
    /\ clients' = clients \ {token[r]}
    /\ Leaves(r, answer[r])
    /\ UNCHANGED <<phase, route, auth, token, done, lost, registry, stale, minted, issued, doomed>>

\* The client goes away while gvmd is connecting or working, or before it has
\* sent the body: the request ends where it is.
Dropped(r) ==
    /\ \/ pc[r] \in {"connect", "command", "readback"}
       \/ pc[r] = "handler" /\ route[r] \in {"export"} \cup Changing
    /\ Goes(r, "dropped")
    /\ tracked' = tracked \ {r}
    /\ \/ UNCHANGED done
       \/ pc[r] = "command" /\ route[r] \in Changing /\ done' = done \cup {r}
    /\ UNCHANGED <<phase, route, auth, token, answer, lost, sessionVars>>

-----------------------------------------------------------------------------
(* Beside the requests *)

JobEnds(r) ==
    /\ r \in jobs
    /\ jobs' = jobs \ {r}
    /\ UNCHANGED <<phase, pc, route, auth, token, answer, done, lost, tracked,
                   registry, stale, minted, issued, clients, doomed>>

\* The idle time of a session runs out, unless a job holds it.  Connecting takes
\* less than the idle time; Sessions.tla shows what happens when it takes longer.
IdleTimeout(t) ==
    /\ t \in registry \ stale
    /\ \A r \in jobs : token[r] # t
    /\ \A r \in Request : pc[r] = "connect" => token[r] # t
    /\ stale' = stale \cup {t}
    /\ UNCHANGED <<phase, pc, route, auth, token, answer, done, lost, tracked,
                   registry, minted, issued, clients, doomed, jobs>>

\* Mutant: the reaper removes idle sessions and leaves their connections open.
ReapRemoves ==
    /\ stale # {}
    /\ registry' = registry \ stale
    /\ stale' = {}
    /\ UNCHANGED <<phase, pc, route, auth, token, answer, done, lost, tracked,
                   minted, issued, clients, doomed, jobs>>

\* The reaper drains the idle sessions ...
Reap ==
    /\ stale # {}
    /\ registry' = registry \ stale
    /\ doomed' = doomed \cup stale
    /\ stale' = {}
    /\ UNCHANGED <<phase, pc, route, auth, token, answer, done, lost, tracked,
                   minted, issued, clients, jobs>>

\* ... and whoever has drained a session disconnects it.
Reaped(t) ==
    /\ t \in doomed
    /\ doomed' = doomed \ {t}
    /\ clients' = clients \ {t}
    /\ UNCHANGED <<phase, pc, route, auth, token, answer, done, lost, tracked,
                   registry, stale, minted, issued, jobs>>

BeginShutdown ==
    /\ phase = "running"
    /\ phase' = "draining"
    /\ UNCHANGED <<pc, route, auth, token, answer, done, lost, tracked, sessionVars>>

\* serve_with_drain returns when the last guard is dropped or the drain timeout
\* is over; the process ends with all its state.
Stop ==
    /\ phase = "draining"
    /\ phase' = "stopped"
    /\ pc' = [r \in Request |-> IF pc[r] \in {"idle", "answered"} THEN pc[r] ELSE "dropped"]
    /\ tracked' = {} /\ registry' = {} /\ stale' = {} /\ clients' = {} /\ doomed' = {}
    /\ jobs' = {}
    /\ UNCHANGED <<route, auth, token, answer, done, lost, minted, issued>>

-----------------------------------------------------------------------------
(* The specification *)

Init ==
    /\ phase = "running"
    /\ pc = [r \in Request |-> "idle"]
    /\ route = [r \in Request |-> "health"]
    /\ auth = [r \in Request |-> "none"]
    /\ token = [r \in Request |-> NoToken]
    /\ answer = [r \in Request |-> "none"]
    /\ done = {} /\ lost = {} /\ tracked = {}
    /\ registry \in SUBSET Existing
    /\ minted = registry /\ issued = registry /\ clients = registry
    /\ stale = {} /\ doomed = {} /\ jobs = {}

\* The gateway's own progress on a request, and gvmd's.
Handle(r) ==
    \/ Gate(r) \/ Basic(r) \/ Connect(r) \/ ConnectFails(r)
    \/ HandleOpen(r) \/ HandleCreateSession(r) \/ HandleGetSession(r) \/ HandleDeleteSession(r)
    \/ HandleProtected(r) \/ Command(r) \/ CommandExport(r) \/ CommandFails(r)
    \/ CommandUpdate(r) \/ ReadBack(r) \/ ReadBackFails(r)
    \/ Teardown(r) \/ Disconnect(r)

Next ==
    \/ \E r \in Request : Security(r) \/ Handle(r) \/ Dropped(r) \/ JobEnds(r)
    \/ \E t \in Token : IdleTimeout(t) \/ Reaped(t)
    \/ Reap \/ BeginShutdown \/ Stop

Spec == Init /\ [][Next]_vars

\* A request that is being worked on is worked on further, gvmd answers or the
\* connection to it breaks, time passes, and the reaper runs periodically.
Fairness ==
    /\ \A r \in Request : WF_vars(Handle(r))
    /\ WF_vars(\E r \in Request : JobEnds(r))
    /\ WF_vars(\E t \in Token : IdleTimeout(t)) /\ WF_vars(Reap)
    /\ WF_vars(\E t \in Token : Reaped(t))

FairSpec == Spec /\ Fairness

-----------------------------------------------------------------------------
(* Properties *)

Working == {"connect", "handler", "command", "readback", "teardown", "disconnect"}

\* The session the Basic middleware creates for a request does not outlive it:
\* as long as it is registered or connected, or a job runs in it, the request
\* is still at work and the shutdown still waits for it, unless the client has
\* dropped the request (request_scoped_basic_auth_middleware; test-spec.md: it
\* "tears down backend/session state after success or failure").  A session
\* that was idle too long is the reaper's to disconnect.
ScopedSessionEnds ==
    \A r \in Request :
      (Scoped(r) /\ (token[r] \in registry \cup (clients \ doomed) \/ r \in jobs)) =>
        \/ pc[r] = "dropped"
        \/ pc[r] \in Working /\ r \in tracked

\* The status of a change is true: a success means that gvmd has carried the
\* command out or that the job exists.  Another status means that nothing was
\* done, with these exceptions: gvmd's answer did not arrive, which is answered
\* with an error of the backend and never with a refusal or 404; the object of an
\* update could not be read back (modify_* followed by get_*), which is answered
\* with whatever the reading back came to; the request-scoped session ran out of
\* its idle time under the request, whose success is then not reported.
AnswersTrue ==
    \A r \in Request :
      (pc[r] = "answered" /\ route[r] \in {"export"} \cup Changing) =>
        /\ answer[r] = "ok" => r \in done
        /\ (r \in done /\ answer[r] # "ok") =>
             \/ r \in lost /\ (answer[r] = "failed" \/ route[r] = "update")
             \/ Scoped(r) /\ answer[r] = "not_found"

\* Nothing a request-scoped session holds stays for ever, also when the client
\* goes away at any point of the request.
ScopedSessionsGo ==
    \A r \in Request : []<>(Scoped(r) => token[r] \notin registry \cup clients)

=============================================================================
