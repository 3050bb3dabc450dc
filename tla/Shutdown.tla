------------------------------ MODULE Shutdown ------------------------------
(***************************************************************************)
(* Graceful shutdown: ShutdownRuntime (phase, count of requests in flight, *)
(* watch channel and Notify), the gate every request passes, the task that *)
(* waits for the termination signal and the serve loop with its bounded    *)
(* drain.  One action is one atomic operation or one call of the watch     *)
(* channel or the Notify; several threads run the tasks.                   *)
(*                                                                         *)
(* The atomics are used with Acquire, Release and AcqRel only.  That orders *)
(* what a task does after a load behind what the storing task did before   *)
(* its store, and no more: a load may return an older value than the       *)
(* latest, unless the task has learnt of a newer one.  Memory is "weak"    *)
(* where nothing but these orderings is assumed and "ordered" where every  *)
(* load returns the latest value, as after an atomic read-modify-write     *)
(* on x86-64.                                                              *)
(***************************************************************************)
EXTENDS Integers, Sequences, FiniteSets

CONSTANTS
    Request,    \* the requests that reach the gateway, each on a connection of its own
    Outer,      \* wait_for_shutdown_start in serve_with_drain, and its task
    Inner,      \* wait_for_shutdown_start in the task axum spawns
    Signal,     \* the task that waits for the signal
    Memory      \* the memories considered, of "ordered" and "weak"

Waiter == {Outer, Inner}
Task == Request \cup {Outer, Inner, Signal}

ASSUME ShutdownAssumption ==
    /\ IsFiniteSet(Request) /\ Outer # Inner
    /\ Signal \notin Request \cup Waiter /\ Waiter \cap Request = {}
    /\ Memory \subseteq {"ordered", "weak"}

VARIABLES
    phase,     \* ShutdownRuntime::phase
    counts,    \* the values ShutdownRuntime::in_flight has had, the latest last
    watched,   \* the value in the channel of phase_tx
    signal,    \* the task that waits for the signal and calls begin_shutdown
    waiter,    \* how far each call of wait_for_shutdown_start has got
    server,    \* serve_with_drain
    request,   \* the progress of each request
    memory,    \* what the loads of the atomics may return
    told,      \* the tasks no load of which misses the drain any more
    carried,   \* whoever changes the count next is told of the drain by it
    view       \* for each task, which of counts is the newest it has learnt of

learnt == <<told, carried, view>>
vars == <<phase, counts, watched, signal, waiter, server, request, memory, learnt>>

ShuttingDown == phase # "Running"
inFlight == counts[Len(counts)]

Init ==
    /\ phase = "Running" /\ counts = <<0>> /\ watched = "Running"
    /\ memory \in Memory
    /\ told = {} /\ carried = FALSE /\ view = [t \in Task |-> 1]
    /\ signal = "waiting"
    /\ waiter = [w \in Waiter |-> "start"]
    /\ server = "serving"
    /\ request = [r \in Request |-> "away"]

-----------------------------------------------------------------------------
(* The atomics: loads of the phase and the count, and changes of the count *)

SeesRunning(t) ==
    /\ phase = "Running" \/ (memory = "weak" /\ t \notin told)
    /\ UNCHANGED told

SeesDrain(t) ==
    /\ ShuttingDown
    /\ told' = told \cup {t}

\* A load of the count returns one of these, and never an older one afterwards.
Readable(t) == IF memory = "weak" THEN view[t]..Len(counts) ELSE {Len(counts)}

\* A read-modify-write follows the latest change, learns what it carries and
\* carries on what the task knows itself.
Changes(t, by) ==
    /\ counts' = Append(counts, inFlight + by)
    /\ view' = [view EXCEPT ![t] = Len(counts) + 1]
    /\ told' = IF carried THEN told \cup {t} ELSE told
    /\ carried' = (carried \/ t \in told)

-----------------------------------------------------------------------------
(* begin_shutdown, called by the task that waits for the signal *)

SignalGoes(from, to) == signal = from /\ signal' = to

\* Notify::notify_waiters: who waits now is woken, and nobody later; the woken
\* task sees whatever the notifying one has seen.
NotifyWaiters(t) ==
    IF server = "asleep"
    THEN /\ server' = "check"
         /\ view' = IF view[t] > view[Outer] THEN [view EXCEPT ![Outer] = view[t]] ELSE view
    ELSE UNCHANGED <<server, view>>

\* The phase changes.
Begin ==
    /\ SignalGoes("waiting", "begun")
    /\ phase' = IF phase = "Running" THEN "Draining" ELSE phase
    /\ told' = told \cup {Signal}
    /\ UNCHANGED <<counts, watched, waiter, server, request, memory, carried, view>>

\* watch::Sender::send keeps the value only if the channel has a receiver.
Publish ==
    /\ SignalGoes("begun", "published")
    /\ watched' = IF \E w \in Waiter : waiter[w] = "listening" THEN "Draining" ELSE watched
    /\ UNCHANGED <<phase, counts, waiter, server, request, memory, learnt>>

CountAtBegin ==
    /\ \E i \in Readable(Signal) :
        /\ SignalGoes("published", IF counts[i] = 0 THEN "notifying" ELSE "done")
        /\ view' = [view EXCEPT ![Signal] = i]
    /\ UNCHANGED <<phase, counts, watched, waiter, server, request, memory, told, carried>>

NotifyAtBegin ==
    /\ SignalGoes("notifying", "done")
    /\ NotifyWaiters(Signal)
    /\ UNCHANGED <<phase, counts, watched, waiter, request, memory, told, carried>>

-----------------------------------------------------------------------------
(* wait_for_shutdown_start *)

WaiterGoes(w, from, to) == waiter[w] = from /\ waiter' = [waiter EXCEPT ![w] = to]

CheckStarted(w) ==
    /\ \/ SeesDrain(w) /\ WaiterGoes(w, "start", "returned")
       \/ SeesRunning(w) /\ WaiterGoes(w, "start", "checked")
    /\ UNCHANGED <<phase, counts, watched, signal, server, request, memory, carried, view>>

Subscribe(w) ==
    /\ WaiterGoes(w, "checked", "listening")
    /\ UNCHANGED <<phase, counts, watched, signal, server, request, memory, learnt>>

\* The value in the channel comes with all its sender knew.
Notice(w) ==
    /\ watched # "Running"
    /\ WaiterGoes(w, "listening", "returned")
    /\ told' = told \cup {w}
    /\ UNCHANGED <<phase, counts, watched, signal, server, request, memory, carried, view>>

-----------------------------------------------------------------------------
(* Requests: shutdown_gate_middleware around try_track_request and the guard *)

RequestGoes(r, from, to) == request[r] = from /\ request' = [request EXCEPT ![r] = to]

\* axum's server is done: it was told to stop and every connection is closed.
ServerDone ==
    /\ waiter[Inner] = "returned"
    /\ \A r \in Request : request[r] \in {"away", "closed"}

\* /health and /ready are not gated.
Bypass(r) ==
    /\ server # "stopped" /\ RequestGoes(r, "away", "answered")
    /\ UNCHANGED <<phase, counts, watched, signal, waiter, server, memory, learnt>>

FirstCheck(r) ==
    /\ server # "stopped"
    /\ \/ SeesDrain(r) /\ RequestGoes(r, "away", "answered")
       \/ SeesRunning(r) /\ RequestGoes(r, "away", "admitting")
    /\ UNCHANGED <<phase, counts, watched, signal, waiter, server, memory, carried, view>>

Count(r) ==
    /\ RequestGoes(r, "admitting", "counted")
    /\ Changes(r, 1)
    /\ UNCHANGED <<phase, watched, signal, waiter, server, memory>>

\* Mutant: a request is admitted without a second look at the phase.
NoSecondCheck(r) ==
    /\ RequestGoes(r, "counted", "active")
    /\ UNCHANGED <<phase, counts, watched, signal, waiter, server, memory, learnt>>

\* Mutant: a request that is turned away after all stays counted.
SecondCheckLeaksCount(r) ==
    /\ \/ SeesDrain(r) /\ RequestGoes(r, "counted", "answered")
       \/ SeesRunning(r) /\ RequestGoes(r, "counted", "active")
    /\ UNCHANGED <<phase, counts, watched, signal, waiter, server, memory, carried, view>>

\* Mutant: a request that is turned away after all is counted out by
\* try_track_request and once more by a guard.
SecondCheckUncountsTwice(r) ==
    /\ \/ ShuttingDown /\ RequestGoes(r, "counted", "leaving") /\ Changes(r, -1)
       \/ SeesRunning(r) /\ RequestGoes(r, "counted", "active") /\ UNCHANGED <<counts, carried, view>>
    /\ UNCHANGED <<phase, watched, signal, waiter, server, memory>>

\* The request is admitted, or counted out again if it finds that the drain
\* began meanwhile.
SecondCheck(r) ==
    /\ \/ SeesDrain(r) /\ RequestGoes(r, "counted", "leaving")
       \/ SeesRunning(r) /\ RequestGoes(r, "counted", "active")
    /\ UNCHANGED <<phase, counts, watched, signal, waiter, server, memory, carried, view>>

\* The handler has answered, or was dropped with its connection.
Complete(r) ==
    /\ RequestGoes(r, "active", "leaving")
    /\ UNCHANGED <<phase, counts, watched, signal, waiter, server, memory, learnt>>

\* finish_request: fetch_sub tells the last one, ...
Uncount(r) ==
    /\ RequestGoes(r, "leaving", IF inFlight = 1 THEN "last" ELSE "answered")
    /\ Changes(r, -1)
    /\ UNCHANGED <<phase, watched, signal, waiter, server, memory>>

\* ... which wakes the drain, if it finds one.
NotifyLast(r) ==
    /\ RequestGoes(r, "last", "answered")
    /\ \/ SeesDrain(r) /\ NotifyWaiters(r)
       \/ SeesRunning(r) /\ UNCHANGED <<server, view>>
    /\ UNCHANGED <<phase, counts, watched, signal, waiter, memory, carried>>

\* The response is written and the connection closed, at the client's pace.
CloseConnection(r) ==
    /\ RequestGoes(r, "answered", "closed")
    /\ UNCHANGED <<phase, counts, watched, signal, waiter, server, memory, learnt>>

-----------------------------------------------------------------------------
(* serve_with_drain *)

ServerGoes(from, to) == server = from /\ server' = to

\* mark_stopped: nobody is left to be told.
Stops(how) ==
    /\ server' = how
    /\ phase' = "Stopped"
    /\ UNCHANGED <<counts, watched, signal, waiter, request, memory, learnt>>

\* The select takes the branch of a server that is already done.
ServerEndsFirst ==
    /\ server = "serving" /\ waiter[Outer] \in {"start", "listening"} /\ ServerDone
    /\ Stops("stopped")

StartDrain ==
    /\ waiter[Outer] = "returned" /\ ServerGoes("serving", "check")
    /\ UNCHANGED <<phase, counts, watched, signal, waiter, request, memory, learnt>>

\* wait_for_zero_in_flight: the count is read, ...
CheckZero ==
    /\ \E i \in Readable(Outer) :
        /\ ServerGoes("check", IF counts[i] = 0 THEN "finishing" ELSE "register")
        /\ view' = [view EXCEPT ![Outer] = i]
    /\ UNCHANGED <<phase, counts, watched, signal, waiter, request, memory, told, carried>>

\* ... and only then does the task register for the notification.
Register ==
    /\ ServerGoes("register", "asleep")
    /\ UNCHANGED <<phase, counts, watched, signal, waiter, request, memory, learnt>>

\* "graceful drain completed"
Finish ==
    /\ server = "finishing" /\ ServerDone
    /\ Stops("stopped")

\* Every other task is waiting for something that takes time: a request's
\* handler, a client, or nothing.  The drain timeout, of seconds, does not pass
\* while one of them is between two of its steps.
OthersAwait ==
    /\ signal \in {"waiting", "done"}
    /\ waiter[Inner] = "listening" => watched = "Running"
    /\ waiter[Inner] \in {"listening", "returned"}
    /\ \A r \in Request : request[r] \in {"away", "active", "answered", "closed"}

\* Mutant: the timeout covers the wait for the count only.
TimeoutOfWait ==
    /\ server = "asleep" /\ OthersAwait
    /\ Stops("cut")

\* "drain timeout reached; exiting with active requests": the timeout covers the
\* wait for the count and for the server.
Timeout ==
    /\ server \in {"asleep", "finishing"} /\ OthersAwait
    /\ server = "finishing" => ~ServerDone
    /\ Stops("cut")

-----------------------------------------------------------------------------

Signalled == Publish \/ CountAtBegin \/ NotifyAtBegin
Waits(w) == CheckStarted(w) \/ Subscribe(w) \/ Notice(w)
Passes(r) == Count(r) \/ SecondCheck(r) \/ Uncount(r) \/ NotifyLast(r)
Outside(r) == Bypass(r) \/ FirstCheck(r) \/ Complete(r) \/ CloseConnection(r)
Serves == ServerEndsFirst \/ StartDrain \/ CheckZero \/ Register \/ Finish

Next ==
    \/ Begin \/ Signalled
    \/ \E w \in Waiter : Waits(w)
    \/ \E r \in Request : Passes(r) \/ Outside(r)
    \/ Serves \/ Timeout

Spec == Init /\ [][Next]_vars

\* A runnable task runs and the timer fires; nothing is assumed of handlers
\* and clients, which may take forever.
FairSpec ==
    /\ Spec
    /\ WF_vars(Signalled)
    /\ \A w \in Waiter : WF_vars(Waits(w))
    /\ \A r \in Request : WF_vars(Passes(r))
    /\ WF_vars(Serves) /\ WF_vars(Timeout)

-----------------------------------------------------------------------------
(* Properties *)

Ended == {"stopped", "cut"}

TypeOK ==
    /\ phase \in {"Running", "Draining", "Stopped"}
    /\ counts \in Seq(Nat) /\ counts # <<>>
    /\ watched \in {"Running", "Draining"}
    /\ signal \in {"waiting", "begun", "published", "notifying", "done"}
    /\ waiter \in [Waiter -> {"start", "checked", "listening", "returned"}]
    /\ server \in {"serving", "check", "register", "asleep", "finishing"} \cup Ended
    /\ request \in [Request -> {"away", "admitting", "counted", "active", "leaving",
                                "last", "answered", "closed"}]
    /\ memory \in Memory
    /\ told \subseteq Task /\ carried \in BOOLEAN
    /\ view \in [Task -> 1..Len(counts)]

Counted == {r \in Request : request[r] \in {"counted", "active", "leaving"}}
Active == {r \in Request : request[r] = "active"}

\* in_flight is the number of requests between their fetch_add and their
\* fetch_sub, whichever way they leave; it never underflows.
InFlightExact == inFlight = Cardinality(Counted)

\* Strengthening of DrainKeepsContract: whoever acts on the shutdown (the
\* waiters, the drain) does so after the phase has changed, and a server that
\* has ended of itself has no connection left.
DrainIsAnnounced ==
    /\ signal # "waiting" => ShuttingDown
    /\ watched = "Draining" => ShuttingDown
    /\ \A w \in Waiter : waiter[w] = "returned" => ShuttingDown
    /\ server \notin {"serving"} \cup Ended => ShuttingDown
    /\ phase = "Stopped" <=> server \in Ended
    /\ server = "stopped" => \A r \in Request : request[r] \in {"away", "closed"}

\* What try_track_request and the drain promise each other by looking at the
\* phase again after the count.  On ordered memory no request slips in behind
\* the drain: once the serve loop has seen the count at zero, no request is or
\* will ever be handled.  The orderings the code names do not give that (the
\* store of each side may be missed by the load of the other), and what is left
\* is the wait for axum's server: a drain that is reported complete leaves no
\* request behind, and none comes after it.
Gate == CASE server \in Ended       -> server
          [] server = "finishing"   -> "drained"
          [] phase = "Running"      -> "open"
          [] OTHER                  -> "closing"

Contract == INSTANCE DrainContract
    WITH gate <- Gate, inside <- Active, lax <- (memory = "weak")

DrainKeepsContract == Contract!Spec

\* A drain that has begun ends, even if no handler and no client ever does:
\* once the channel has kept the signal, or the serve loop has seen the phase,
\* the serve loop returns.
DrainEnds ==
    (watched = "Draining" \/ waiter[Outer] = "returned") ~> server \in Ended

\* openspec.md: "stop accepting new application requests once drain mode begins",
\* and "after the timeout, return from the serve loop so the process can exit
\* even if blocked handlers remain": with drain mode the serve loop ends.
ShutdownEnds == phase = "Draining" ~> server \in Ended

\* "shutdown: drain timeout reached; exiting with active requests": the wait for
\* zero in flight lasts to the timeout only if a request does.
WaitEndsWithRequests == [][server = "asleep" /\ Timeout => inFlight > 0]_vars
=============================================================================
