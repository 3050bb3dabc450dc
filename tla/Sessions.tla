------------------------------ MODULE Sessions ------------------------------
(***************************************************************************)
(* Gateway sessions: the in-memory registry of the domain crate            *)
(* (SessionManager), the use cases of the app crate that drive it          *)
(* (create_session, delete_session, touch before every command, the hold a *)
(* report export takes, the SessionReaper) and the adapter's map from a    *)
(* session to its authenticated gvmd connection.                           *)
(*                                                                         *)
(* Every task is an asynchronous Rust task on a multi-threaded runtime.    *)
(* One action is one critical section of one mutex, or the reading of the  *)
(* clock that precedes it: all registry operations call now_secs() before  *)
(* they take the lock, so the time they judge by may be stale.             *)
(***************************************************************************)
EXTENDS Integers, FiniteSets, Functions

CONSTANTS
    Token,        \* the session tokens (fresh UUIDs); a token stands for its digest too
    User,         \* gvmd user names
    Request,      \* tasks running client requests, and workers of export jobs
    Reaper,       \* the task of the SessionReaper
    NoToken,      \* the token of a task that has none
    NoLimit,      \* a capacity limit of None
    IdleTimeout,  \* idle_timeout_secs
    MaxGlobal,    \* SessionLimits::max_global
    MaxPerUser,   \* SessionLimits::max_per_user
    MaxLatency,   \* longest a task stays between reading the clock and its last step
    LastArrival,  \* bound: clients start nothing after this time
    MaxTime       \* bound: the last tick of the clock

Task == Request \cup {Reaper}
Limit == Nat \cup {NoLimit}

ASSUME ConstantsAssumption ==
    /\ IsFiniteSet(Token) /\ IsFiniteSet(Request)
    /\ Reaper \notin Request
    /\ NoToken \notin Token
    /\ NoLimit \notin Nat
    /\ IdleTimeout \in Nat /\ MaxLatency \in Nat
    /\ LastArrival \in Nat /\ MaxTime \in Nat
    /\ MaxGlobal \in Limit /\ MaxPerUser \in Limit

VARIABLES
    clock,     \* the wall clock, in seconds
    sessions,  \* SessionManager::inner: the registered tokens and what is stored of each
    minted,    \* the tokens that were ever registered
    known,     \* the tokens a create_session has returned to a client
    clients,   \* GvmdAdapter::sessions: the tokens that have a gvmd connection
    broken,    \* the connections among them that gvmd has closed
    task,      \* what each task is doing, for which token, by which reading of the clock
    doomed     \* the sessions each task has removed and must still disconnect

vars == <<clock, sessions, minted, known, clients, broken, task, doomed>>

-----------------------------------------------------------------------------
(* Stored sessions *)

\* usedAt is history, which no code reads: when the session was really last
\* used.  What the code stores, lastUsed, is the reading that use was judged by.
StoredSession == [user     : User,
                  state    : {"Active", "Expired"},
                  lastUsed : Nat,
                  usedAt   : Nat,
                  holds    : Nat]

\* What a task may be at: before it has a token, and with one.
Local ==
    [at : {"idle", "create", "sweep"}, token : {NoToken}, now : Nat]
        \cup
    [at : {"connect", "touch", "run", "call", "hold", "held"}, token : Token, now : Nat]

Idle == [at |-> "idle", token |-> NoToken, now |-> 0]

NewSession(u, n) ==
    [user |-> u, state |-> "Active", lastUsed |-> n, usedAt |-> clock, holds |-> 0]

\* u64::saturating_sub
SaturatingSub(m, n) == IF m >= n THEN m - n ELSE 0

\* Mutant: a hold does not keep the session from expiring.
IsExpiredAtIgnoringHolds(s, n) ==
    \/ s.state = "Expired"
    \/ SaturatingSub(n, s.lastUsed) >= IdleTimeout

\* Mutant: the idle time wraps around, as u64 does, when the session was last
\* used after the clock was read.
IsExpiredAtWrapping(s, n) ==
    \/ s.state = "Expired"
    \/ s.holds = 0 /\ (n < s.lastUsed \/ n - s.lastUsed >= IdleTimeout)

IsExpiredAt(s, n) ==
    \/ s.state = "Expired"
    \/ s.holds = 0 /\ SaturatingSub(n, s.lastUsed) >= IdleTimeout

ExpiredTokens(n) == {t \in DOMAIN sessions : IsExpiredAt(sessions[t], n)}
ActiveTokens(n) == DOMAIN sessions \ ExpiredTokens(n)

Below(S, limit) == limit # NoLimit => Cardinality(S) < limit

\* Mutant: the global limit is not enforced.
LimitsAllowUserOnly(u, n) ==
    Below({t \in ActiveTokens(n) : sessions[t].user = u}, MaxPerUser)

\* Mutant: the per-user limit is not enforced.
LimitsAllowGlobalOnly(u, n) == Below(ActiveTokens(n), MaxGlobal)

\* enforce_session_limits: sessions that have expired do not count.
LimitsAllow(u, n) ==
    /\ Below(ActiveTokens(n), MaxGlobal)
    /\ Below({t \in ActiveTokens(n) : sessions[t].user = u}, MaxPerUser)

-----------------------------------------------------------------------------
(* Tasks *)

\* A task that has removed sessions disconnects them before it does anything else.
Ready(p, place) == task[p].at = place /\ doomed[p] = {}

Goes(p, place, t, n) == task' = [task EXCEPT ![p] = [at |-> place, token |-> t, now |-> n]]
Returns(p) == task' = [task EXCEPT ![p] = Idle]

ClientsPresent == clock <= LastArrival

Registered(t) == t \in DOMAIN sessions

Init ==
    /\ clock = 0
    /\ sessions = [t \in {} |-> 0]
    /\ minted = {} /\ known = {} /\ clients = {} /\ broken = {}
    /\ task = [p \in Task |-> Idle]
    /\ doomed = [p \in Task |-> {}]

\* The places where a task still depends on its reading of the clock.
Timed == {"create", "connect", "touch", "hold", "sweep"}

\* Time passes, but no reading that is still in use gets older than MaxLatency.
\* Commands and exports may take as long as they like.
Tick ==
    /\ clock < MaxTime
    /\ \A p \in Task : task[p].at \in Timed => clock - task[p].now < MaxLatency
    /\ clock' = clock + 1
    /\ UNCHANGED <<sessions, minted, known, clients, broken, task, doomed>>

-----------------------------------------------------------------------------
(* Creating a session *)

CreateBegin(p) ==
    /\ Ready(p, "idle") /\ ClientsPresent
    /\ Goes(p, "create", NoToken, clock)
    /\ UNCHANGED <<clock, sessions, minted, known, clients, broken, doomed>>

\* Mutant: the drained sessions are removed but not disconnected.
CreateRegisterNoCleanup(p, u, t) ==
    LET n == task[p].now IN
    /\ Ready(p, "create") /\ t \notin minted /\ LimitsAllow(u, n)
    /\ sessions' = [x \in ActiveTokens(n) \cup {t} |->
                        IF x = t THEN NewSession(u, n) ELSE sessions[x]]
    /\ minted' = minted \cup {t}
    /\ Goes(p, "connect", t, n)
    /\ UNCHANGED <<clock, known, clients, broken, doomed>>

\* create_draining_expired: one reading of the clock decides what counts
\* against the limits and what is drained before the new session is inserted.
CreateRegister(p, u, t) ==
    LET n == task[p].now IN
    /\ Ready(p, "create") /\ t \notin minted /\ LimitsAllow(u, n)
    /\ sessions' = [x \in ActiveTokens(n) \cup {t} |->
                        IF x = t THEN NewSession(u, n) ELSE sessions[x]]
    /\ minted' = minted \cup {t}
    /\ doomed' = [doomed EXCEPT ![p] = ExpiredTokens(n)]
    /\ Goes(p, "connect", t, n)
    /\ UNCHANGED <<clock, known, clients, broken>>

CreateRejected(p, u) ==
    /\ Ready(p, "create") /\ ~LimitsAllow(u, task[p].now)
    /\ Returns(p)
    /\ UNCHANGED <<clock, sessions, minted, known, clients, broken, doomed>>

\* Mutant: the new connection is not entered in the adapter's map.
ConnectForgetsClient(p) ==
    /\ Ready(p, "connect")
    /\ known' = known \cup {task[p].token}
    /\ Returns(p)
    /\ UNCHANGED <<clock, sessions, minted, clients, broken, doomed>>

\* connect_session: gvmd has accepted the connection and the credentials and
\* answered the capability probe (or the connection was opened a second time);
\* the connection is entered and the token returned, whatever has happened to
\* the session in the meantime.
Connect(p) ==
    /\ Ready(p, "connect")
    /\ clients' = clients \cup {task[p].token}
    /\ known' = known \cup {task[p].token}
    /\ Returns(p)
    /\ UNCHANGED <<clock, sessions, minted, broken, doomed>>

\* Connecting, authenticating or reconnecting failed: the session is removed again.
ConnectFails(p) ==
    /\ Ready(p, "connect")
    /\ sessions' = Restrict(sessions, DOMAIN sessions \ {task[p].token})
    /\ Returns(p)
    /\ UNCHANGED <<clock, minted, known, clients, broken, doomed>>

\* The client went away while gvmd was connecting: the request's future is
\* dropped at its only real await, and the session stays registered.
ConnectCancelled(p) ==
    /\ Ready(p, "connect")
    /\ Returns(p)
    /\ UNCHANGED <<clock, sessions, minted, known, clients, broken, doomed>>

-----------------------------------------------------------------------------
(* Removing sessions *)

\* Mutant: the session stays registered while its connection is closed.
DeleteKeepsEntry(p, t) ==
    /\ Ready(p, "idle") /\ ClientsPresent
    /\ t \in known /\ Registered(t)
    /\ doomed' = [doomed EXCEPT ![p] = {t}]
    /\ UNCHANGED <<clock, sessions, minted, known, clients, broken, task>>

\* delete_session: whoever removes the entry disconnects the session.
Delete(p, t) ==
    /\ Ready(p, "idle") /\ ClientsPresent
    /\ t \in known /\ Registered(t)
    /\ sessions' = Restrict(sessions, DOMAIN sessions \ {t})
    /\ doomed' = [doomed EXCEPT ![p] = {t}]
    /\ UNCHANGED <<clock, minted, known, clients, broken, task>>

SweepBegin ==
    /\ Ready(Reaper, "idle")
    /\ Goes(Reaper, "sweep", NoToken, clock)
    /\ UNCHANGED <<clock, sessions, minted, known, clients, broken, doomed>>

\* Mutant: only sessions already marked Expired are drained.
SweepDrainMarked ==
    LET S == {t \in DOMAIN sessions : sessions[t].state = "Expired"} IN
    /\ Ready(Reaper, "sweep")
    /\ sessions' = Restrict(sessions, DOMAIN sessions \ S)
    /\ doomed' = [doomed EXCEPT ![Reaper] = S]
    /\ Returns(Reaper)
    /\ UNCHANGED <<clock, minted, known, clients, broken>>

\* drain_expired
SweepDrain ==
    LET n == task[Reaper].now IN
    /\ Ready(Reaper, "sweep")
    /\ sessions' = Restrict(sessions, ActiveTokens(n))
    /\ doomed' = [doomed EXCEPT ![Reaper] = ExpiredTokens(n)]
    /\ Returns(Reaper)
    /\ UNCHANGED <<clock, minted, known, clients, broken>>

\* disconnect_session, one digest at a time
Disconnect(p, t) ==
    /\ t \in doomed[p]
    /\ clients' = clients \ {t}
    /\ broken' = broken \ {t}
    /\ doomed' = [doomed EXCEPT ![p] = @ \ {t}]
    /\ UNCHANGED <<clock, sessions, minted, known, task>>

-----------------------------------------------------------------------------
(* Using a session *)

TouchBegin(p, t) ==
    /\ Ready(p, "idle") /\ ClientsPresent /\ t \in known
    /\ Goes(p, "touch", t, clock)
    /\ UNCHANGED <<clock, sessions, minted, known, clients, broken, doomed>>

\* touch and hold refuse a token that is not registered, ...
Refused(p) ==
    /\ Ready(p, "touch") \/ Ready(p, "hold")
    /\ ~Registered(task[p].token)
    /\ Returns(p)
    /\ UNCHANGED <<clock, sessions, minted, known, clients, broken, doomed>>

\* ... and mark one whose idle time has run out.
FoundExpired(p) ==
    LET t == task[p].token IN
    /\ Ready(p, "touch") \/ Ready(p, "hold")
    /\ Registered(t) /\ IsExpiredAt(sessions[t], task[p].now)
    /\ sessions' = [sessions EXCEPT ![t].state = "Expired"]
    /\ Returns(p)
    /\ UNCHANGED <<clock, minted, known, clients, broken, doomed>>

\* Mutant: the start of the idle window is stored instead of the time of use.
TouchStoresWindowStart(p) ==
    LET t == task[p].token IN
    /\ Ready(p, "touch")
    /\ Registered(t) /\ ~IsExpiredAt(sessions[t], task[p].now)
    /\ sessions' = [sessions EXCEPT ![t].lastUsed = task[p].now - IdleTimeout,
                                   ![t].usedAt = clock]
    /\ Goes(p, "run", t, 0)
    /\ UNCHANGED <<clock, minted, known, clients, broken, doomed>>

\* touch: the reading is stored even if another task's later one is there already.
Touch(p) ==
    LET t == task[p].token IN
    /\ Ready(p, "touch")
    /\ Registered(t) /\ ~IsExpiredAt(sessions[t], task[p].now)
    /\ sessions' = [sessions EXCEPT ![t].lastUsed = task[p].now, ![t].usedAt = clock]
    /\ Goes(p, "run", t, 0)
    /\ UNCHANGED <<clock, minted, known, clients, broken, doomed>>

\* session_client: the command takes a share of the connection, if there is one.
Dispatch(p) ==
    /\ Ready(p, "run")
    /\ IF task[p].token \in clients
       THEN Goes(p, "call", task[p].token, 0)
       ELSE Returns(p)
    /\ UNCHANGED <<clock, sessions, minted, known, clients, broken, doomed>>

\* gvmd closes its end; nothing in the gateway listens for that.
BackendDisconnects(t) ==
    /\ t \in clients \ broken
    /\ broken' = broken \cup {t}
    /\ UNCHANGED <<clock, sessions, minted, known, clients, task, doomed>>

\* The command is answered or given up, ...
CallReturns(p) ==
    /\ Ready(p, "call") /\ task[p].token \notin broken
    /\ Returns(p)
    /\ UNCHANGED <<clock, sessions, minted, known, clients, broken, doomed>>

\* ... or fails with the connection, which is only reported to the client.
CallFails(p) ==
    /\ Ready(p, "call") /\ task[p].token \in broken
    /\ Returns(p)
    /\ UNCHANGED <<clock, sessions, minted, known, clients, broken, doomed>>

\* The command was the preflight of a report export, which goes on to hold the session.
HoldBegin(p) ==
    /\ Ready(p, "call") /\ ClientsPresent /\ task[p].token \notin broken
    /\ Goes(p, "hold", task[p].token, clock)
    /\ UNCHANGED <<clock, sessions, minted, known, clients, broken, doomed>>

\* Mutant: the hold is granted but not counted.
HoldUncounted(p) ==
    LET t == task[p].token IN
    /\ Ready(p, "hold")
    /\ Registered(t) /\ ~IsExpiredAt(sessions[t], task[p].now)
    /\ sessions' = [sessions EXCEPT ![t].lastUsed = task[p].now, ![t].usedAt = clock]
    /\ Goes(p, "held", t, 0)
    /\ UNCHANGED <<clock, minted, known, clients, broken, doomed>>

Hold(p) ==
    LET t == task[p].token IN
    /\ Ready(p, "hold")
    /\ Registered(t) /\ ~IsExpiredAt(sessions[t], task[p].now)
    /\ sessions' = [sessions EXCEPT ![t].holds = @ + 1, ![t].lastUsed = task[p].now,
                                   ![t].usedAt = clock]
    /\ Goes(p, "held", t, 0)
    /\ UNCHANGED <<clock, minted, known, clients, broken, doomed>>

\* Mutant: dropping one hold gives up those of the other workers too.
ReleaseAll(p) ==
    LET t == task[p].token IN
    /\ Ready(p, "held")
    /\ sessions' = IF Registered(t) THEN [sessions EXCEPT ![t].holds = 0] ELSE sessions
    /\ Returns(p)
    /\ UNCHANGED <<clock, minted, known, clients, broken, doomed>>

\* SessionHold::drop: the session may have been deleted under the hold.
Release(p) ==
    LET t == task[p].token IN
    /\ Ready(p, "held")
    /\ sessions' = IF Registered(t)
                   THEN [sessions EXCEPT ![t].holds = SaturatingSub(@, 1)]
                   ELSE sessions
    /\ Returns(p)
    /\ UNCHANGED <<clock, minted, known, clients, broken, doomed>>

-----------------------------------------------------------------------------

\* What a task does on its own once it has been started.
Continues(p) ==
    \/ \E u \in User, t \in Token : CreateRegister(p, u, t)
    \/ \E u \in User : CreateRejected(p, u)
    \/ Refused(p) \/ FoundExpired(p) \/ Touch(p) \/ Dispatch(p) \/ Hold(p)
    \/ \E t \in Token : Disconnect(p, t)

\* What ends its wait for gvmd.
Connects(p) == Connect(p) \/ ConnectFails(p) \/ ConnectCancelled(p)
Answered(p) == Connects(p) \/ CallReturns(p) \/ CallFails(p)

\* What a client starts.
Arrives(p) ==
    \/ CreateBegin(p)
    \/ \E t \in Token : TouchBegin(p, t) \/ Delete(p, t)
    \/ HoldBegin(p)

Sweep == SweepBegin \/ SweepDrain

Next ==
    \/ Tick
    \/ Sweep
    \/ \E t \in Token : Disconnect(Reaper, t)
    \/ \E t \in Token : BackendDisconnects(t)
    \/ \E p \in Request : Continues(p) \/ Answered(p) \/ Arrives(p) \/ Release(p)

Spec == Init /\ [][Next]_vars

\* The clock advances, runnable tasks run, and a connection attempt ends: gvmd
\* answers it or the client gives up.  Nothing is assumed of commands and
\* exports, which gvmd may never answer, nor of what clients start.
Fairness ==
    /\ WF_vars(Tick)
    /\ WF_vars(Sweep \/ \E t \in Token : Disconnect(Reaper, t))
    /\ \A p \in Request : WF_vars(Continues(p)) /\ WF_vars(Connects(p))

FairSpec == Spec /\ Fairness

-----------------------------------------------------------------------------
(* Properties *)

TypeOK ==
    /\ clock \in Nat
    /\ DOMAIN sessions \subseteq Token
    /\ sessions \in [DOMAIN sessions -> StoredSession]
    /\ minted \subseteq Token
    /\ known \subseteq Token
    /\ clients \subseteq Token
    /\ broken \subseteq Token
    /\ task \in [Task -> Local]
    /\ doomed \in [Task -> SUBSET Token]

SessionsOf(u) == {t \in DOMAIN sessions : sessions[t].user = u}

\* However creations, sweeps and deletions interleave, and however stale the
\* time they judge by, the registry never holds more sessions than
\* SessionLimits::max_global allows (create_draining_expired,
\* enforce_session_limits).
GlobalLimitKept == MaxGlobal # NoLimit => Cardinality(DOMAIN sessions) <= MaxGlobal

\* The same for each user and SessionLimits::max_per_user.
UserLimitKept ==
    MaxPerUser # NoLimit =>
        \A u \in User : Cardinality(SessionsOf(u)) <= MaxPerUser

Holders(t) == {p \in Task : task[p].at = "held" /\ task[p].token = t}

\* The hold count stored with a registered session is the number of workers
\* that hold it: hold and SessionHold::drop neither lose nor invent a hold,
\* also when the session is deleted under its workers.
HoldsAccounted == \A t \in DOMAIN sessions : sessions[t].holds = Cardinality(Holders(t))

\* Why the count is right (strengthening of HoldsAccounted): a session marked
\* Expired is held by nobody, and everything a task works on was registered
\* before; what a client uses was returned to it before.
HoldsConsistent ==
    \A t \in DOMAIN sessions :
        /\ sessions[t].holds = Cardinality(Holders(t))
        /\ sessions[t].state = "Expired" => sessions[t].holds = 0

TokensMinted ==
    /\ DOMAIN sessions \subseteq minted
    /\ known \subseteq minted
    /\ \A p \in Task :
          /\ doomed[p] \subseteq minted
          /\ task[p].at = "connect" => task[p].token \in minted
          /\ task[p].at \in {"touch", "run", "call", "hold", "held"} => task[p].token \in known

\* The token of a creation that is still connecting is known to it alone.
Connecting(p) == task[p].at = "connect"

ConnectingPrivate ==
    \A p \in Task : Connecting(p) =>
        /\ task[p].token \notin known
        /\ \A q \in Task : q # p /\ Connecting(q) => task[q].token # task[p].token

\* A session that a worker holds leaves the registry only by an explicit
\* delete_session; neither the reaper nor another client's create_session
\* drains it, however long the export takes (is_expired_at).
HeldNeverDrained ==
    [][\A t \in DOMAIN sessions :
          Holders(t) # {} /\ t \notin DOMAIN sessions'
              => \E p \in Request : Delete(p, t)]_vars

\* A session that was removed from the registry is disconnected by the one task
\* that removed it, and by no other: the reaper, create_session and
\* delete_session may race.
TeardownExclusive ==
    /\ \A p, q \in Task : p # q => doomed[p] \cap doomed[q] = {}
    /\ \A p \in Task : doomed[p] \cap DOMAIN sessions = {}

\* A token that was returned to a client and is still registered has its gvmd
\* connection in the adapter's map: a command that passed touch is not refused
\* with "missing gvmd session" unless the session was torn down since.
KnownHasClient == \A t \in known : Registered(t) => t \in clients

\* One token, one backend connection: a connection in the adapter's map
\* belongs to a registered session or is about to be closed.
NoOrphanClient ==
    \A t \in clients : Registered(t) \/ \E p \in Task : t \in doomed[p]

\* Why it holds when gvmd answers in less than the idle timeout: the session of
\* a creation that is still connecting has not idled long enough to be drained.
Timely ==
    \A p \in Task : task[p].at \in Timed =>
        task[p].now <= clock /\ clock - task[p].now <= MaxLatency

ConnectingRegistered ==
    \A p \in Task : Connecting(p) =>
        LET t == task[p].token IN
        /\ Registered(t)
        /\ sessions[t].state = "Active"
        /\ sessions[t].lastUsed = task[p].now

\* Strengthening of DrainedOnlyWhenIdle: what is stored of the last use is no
\* more than the latency of a task behind it.
UsedBefore ==
    \A t \in DOMAIN sessions :
        /\ sessions[t].lastUsed <= clock /\ sessions[t].usedAt <= clock
        /\ sessions[t].usedAt <= sessions[t].lastUsed + MaxLatency

\* A session a client knows ends, or is marked Expired, only when the client
\* deletes it or when nobody has used it for the idle timeout.  Uses and drains
\* judge by readings of the clock taken before the lock (now_secs), in any
\* order: a drain that is behind the last use must not wrap around, and a use
\* that stores an older reading over a newer one (touch, hold) makes the
\* session idle early, but never by more than the latency of a task.
DrainedOnlyWhenIdle ==
    [][\A t \in known \cap DOMAIN sessions :
          /\ sessions[t].state = "Active"
          /\ t \in DOMAIN sessions' => sessions'[t].state = "Expired"
          => \/ \E p \in Request : Delete(p, t)
             \/ clock + MaxLatency - sessions[t].usedAt >= IdleTimeout]_vars

\* Once the clients are gone, no session stays registered or connected that no
\* export holds: not the one whose creation was cancelled half-way, not the one
\* whose command hangs, and not the one a refused command has marked Expired
\* (SessionReaper, disconnect_expired_sessions).
IdleSessionsEnd ==
    \A t \in Token :
        []<>(Registered(t) \/ t \in clients => Registered(t) /\ Holders(t) # {})

\* The tokens delete_session has removed and not yet disconnected.
Closing == {t \in Token : \E p \in Request : task[p].at = "idle" /\ t \in doomed[p]}

\* The registry keeps the contract of SessionContract: a token is registered
\* once and never again, at most max_global are registered, and one that a
\* worker holds ends only by delete_session: no drain takes it, neither the
\* reaper's nor that of another creation, nor the rollback of one.
Contract == INSTANCE SessionContract
    WITH Holder <- Task, Capacity <- MaxGlobal,
         live <- DOMAIN sessions,
         ended <- minted \ DOMAIN sessions,
         closing <- Closing,
         held <- [t \in Token |-> Holders(t)]

RegistryKeepsContract == Contract!Spec
=============================================================================
