--------------------------- MODULE SessionClient ---------------------------
(***************************************************************************)
(* One session's gvmd connection: opening it (connect_session) and the     *)
(* operations that use it.  An operation of the adapter is one or several  *)
(* gvmd commands, each of which takes a slot of the semaphore without      *)
(* waiting and then waits for the mutex around the connection.  An         *)
(* operation either keeps the connection it has looked up (an Arc) for its *)
(* next command or looks it up again, so the session may be deleted        *)
(* between two commands, and a request's future may be dropped wherever it *)
(* waits.  tokio's Mutex is fair: the one who drops the guard hands it to  *)
(* whoever waits longest.                                                  *)
(***************************************************************************)
EXTENDS Naturals, FiniteSets, Sequences, SequencesExt

CONSTANTS
    Request,    \* requests and export workers that use the session
    None,       \* the mutex is free
    MaxSlots    \* MAX_SESSION_COMMANDS_IN_FLIGHT_OR_WAITING

ASSUME ClientAssumption ==
    /\ IsFiniteSet(Request) /\ None \notin Request
    /\ MaxSlots \in Nat \ {0}

VARIABLES
    conn,    \* how far connect_session has got, and whether the map has the connection
    stream,  \* the socket: not open, in step with the commands, or out of step
    free,    \* permits of SessionClient::command_slots
    owner,   \* who has the mutex of SessionClient::client
    queue,   \* who waits for it
    op       \* the operation each request is at

vars == <<conn, stream, free, owner, queue, op>>

opening == <<conn, stream>>

\* How an operation finds the connection for a command.
Access == {"kept", "looked up"}

OneCommand == <<"kept">>

\* A list with a saved filter: the connection is looked up first and kept for
\* the list itself; the filter is fetched by call_with_session before.
ListBySavedFilter == <<"looked up", "kept">>

\* The same through call_with_session alone.
ListLookingUp == <<"looked up", "looked up">>

\* A report's record, and then its results.
ReportWithResults == <<"kept", "kept">>

\* The modification, and then the get operation for the answer.
ModifyAndRead == <<"kept", "looked up">>

\* A user is read first, for what the modification leaves alone.
ReadModifyRead == <<"looked up", "looked up", "looked up">>

Operation == {OneCommand, ListBySavedFilter, ListLookingUp, ReportWithResults,
              ModifyAndRead, ReadModifyRead}

Keeps(commands) == Contains(commands, "kept")

Idle == [at |-> "idle", todo |-> <<>>]

Init ==
    /\ conn = "authenticating" /\ stream = "none"
    /\ free = MaxSlots /\ owner = None /\ queue = <<>>
    /\ op = [p \in Request |-> Idle]

-----------------------------------------------------------------------------
(* connect_session *)

\* connect_authenticated_client
Authenticate ==
    /\ conn = "authenticating" /\ conn' = "probing"
    /\ stream' = "open"

\* The same once more, in place of a stream that is out of step.
Reconnect ==
    /\ conn = "reconnecting" /\ conn' = "authenticated"
    /\ stream' = "open"

AuthenticateFails ==
    /\ conn \in {"authenticating", "reconnecting"}
    /\ conn' = "failed" /\ stream' = "none"

\* The probe tells whether gvmd has credential stores, ...
Probe ==
    /\ conn = "probing" /\ conn' = "authenticated"
    /\ UNCHANGED stream

\* Mutant: the connection is used although the probe has failed on it.
ProbeFailsUnnoticed ==
    /\ conn = "probing" /\ conn' = "authenticated"
    /\ stream' = "spoilt"

\* ... or fails, with "command disabled" or otherwise, at the expense of the stream.
ProbeFails ==
    /\ conn = "probing" /\ conn' = "reconnecting"
    /\ stream' = "spoilt"

Publish ==
    /\ conn = "authenticated" /\ conn' = "published"
    /\ UNCHANGED stream

Opens ==
    /\ Authenticate \/ Reconnect \/ AuthenticateFails \/ Probe \/ ProbeFails \/ Publish
    /\ UNCHANGED <<free, owner, queue, op>>

\* disconnect_session drops the map's reference to the connection.
Disconnect ==
    /\ conn = "published" /\ conn' = "removed"
    /\ UNCHANGED <<stream, free, owner, queue, op>>

-----------------------------------------------------------------------------
(* Operations and their commands *)

At(p, place) == op[p].at = place
Goes(p, place) == op' = [op EXCEPT ![p].at = place]
Ends(p) == op' = [op EXCEPT ![p] = Idle]

\* The mutex is handed to whoever waits longest, if anybody does.
HandOver ==
    IF queue = <<>>
    THEN owner' = None /\ UNCHANGED queue
    ELSE owner' = Head(queue) /\ queue' = Tail(queue)

\* Who waits leaves the queue, or passes on the mutex it was handed meanwhile.
LeavesQueue(p) ==
    IF owner = p
    THEN HandOver
    ELSE /\ \E i \in 1 .. Len(queue) : queue[i] = p /\ queue' = RemoveAt(queue, i)
         /\ UNCHANGED owner

Begin(p, commands) ==
    /\ At(p, "idle")
    /\ Keeps(commands) => conn = "published"
    /\ op' = [op EXCEPT ![p] = [at |-> "next", todo |-> commands]]
    /\ UNCHANGED <<opening, free, owner, queue>>

\* The next command has a connection, kept or looked up, ...
Address(p) ==
    /\ At(p, "next")
    /\ Head(op[p].todo) = "kept" \/ conn = "published"
    /\ Goes(p, "slot")
    /\ UNCHANGED <<opening, free, owner, queue>>

\* ... or fails with "missing gvmd session", which ends the operation.
Missing(p) ==
    /\ At(p, "next")
    /\ Head(op[p].todo) = "looked up" /\ conn # "published"
    /\ Ends(p)
    /\ UNCHANGED <<opening, free, owner, queue>>

TakeSlot(p) ==
    /\ At(p, "slot") /\ free > 0
    /\ free' = free - 1
    /\ Goes(p, "join")
    /\ UNCHANGED <<opening, owner, queue>>

\* "session command queue saturated"
Saturated(p) ==
    /\ At(p, "slot") /\ free = 0
    /\ Ends(p)
    /\ UNCHANGED <<opening, free, owner, queue>>

JoinQueue(p) ==
    /\ At(p, "join")
    /\ IF owner = None
       THEN owner' = p /\ UNCHANGED queue
       ELSE queue' = Append(queue, p) /\ UNCHANGED owner
    /\ Goes(p, "waiting")
    /\ UNCHANGED <<opening, free>>

Granted(p) ==
    /\ At(p, "waiting") /\ owner = p
    /\ Goes(p, "calling")
    /\ UNCHANGED <<opening, free, owner, queue>>

\* The command ends, well or with an error that ends the operation, or its
\* request is dropped: the guard gives up its slot first, ...
Return(p) ==
    /\ At(p, "calling")
    /\ \E todo \in {Tail(op[p].todo), <<>>} :
          op' = [op EXCEPT ![p] = [at |-> "returning", todo |-> todo]]
    /\ free' = free + 1
    /\ UNCHANGED <<opening, owner, queue>>

\* Mutant: the mutex becomes free, and only who comes later can have it.
UnlockWithoutHandOver(p) ==
    /\ At(p, "returning")
    /\ owner' = None
    /\ IF op[p].todo = <<>> THEN Ends(p) ELSE Goes(p, "next")
    /\ UNCHANGED <<opening, free, queue>>

\* ... and then the mutex.
Unlock(p) ==
    /\ At(p, "returning")
    /\ HandOver
    /\ IF op[p].todo = <<>> THEN Ends(p) ELSE Goes(p, "next")
    /\ UNCHANGED <<opening, free>>

\* Mutant: a request that gives up waiting keeps its slot.
GiveUpKeepingSlot(p) ==
    /\ At(p, "waiting")
    /\ LeavesQueue(p)
    /\ Ends(p)
    /\ UNCHANGED <<opening, free>>

\* Mutant: a request that gives up waiting returns its slot at once as well.
GiveUpReturningSlot(p) ==
    /\ At(p, "waiting")
    /\ LeavesQueue(p)
    /\ free' = free + 1
    /\ Goes(p, "gone")
    /\ UNCHANGED opening

\* A request is dropped while it waits: first it leaves the queue, ...
GiveUp(p) ==
    /\ At(p, "waiting")
    /\ LeavesQueue(p)
    /\ Goes(p, "gone")
    /\ UNCHANGED <<opening, free>>

\* ... and then gives up its slot.
ReturnSlot(p) ==
    /\ At(p, "gone")
    /\ free' = free + 1
    /\ Ends(p)
    /\ UNCHANGED <<opening, owner, queue>>

-----------------------------------------------------------------------------

Proceeds(p) ==
    \/ Address(p) \/ Missing(p) \/ TakeSlot(p) \/ Saturated(p) \/ JoinQueue(p)
    \/ Granted(p) \/ Unlock(p) \/ ReturnSlot(p)

Next ==
    \/ Opens \/ Disconnect
    \/ \E p \in Request :
          \/ \E commands \in Operation : Begin(p, commands)
          \/ Proceeds(p) \/ Return(p) \/ GiveUp(p)

Spec == Init /\ [][Next]_vars

\* Runnable tasks run, and a command ends: gvmd answers it, or its client goes away.
FairSpec == Spec /\ \A p \in Request : WF_vars(Proceeds(p)) /\ WF_vars(Return(p))

-----------------------------------------------------------------------------
(* Properties *)

TypeOK ==
    /\ conn \in {"authenticating", "probing", "reconnecting", "authenticated", "failed",
                 "published", "removed"}
    /\ stream \in {"none", "open", "spoilt"}
    /\ free \in 0 .. MaxSlots
    /\ owner \in Request \cup {None}
    /\ queue \in Seq(Request)
    /\ op \in [Request -> [at : {"idle", "next", "slot", "join", "waiting", "calling",
                                 "returning", "gone"},
                           todo : Seq(Access)]]

SlotHolders == {p \in Request : op[p].at \in {"join", "waiting", "calling", "gone"}}

\* Every slot of the semaphore is free or belongs to one command in flight or
\* waiting, wherever commands are refused, fail or are dropped: the queue can
\* neither shrink for good nor take more than it may (command_slots).
SlotsAccounted == free + Cardinality(SlotHolders) = MaxSlots

\* gateway-architecture.md: "Requests that resolve to the same session token must
\* execute serially", without "silent retries or reordering": slots and mutex
\* together are one bounded line, served one at a time in the order of joining,
\* also when someone in the middle of it gives up.
InLine == IF owner # None /\ op[owner].at \in {"waiting", "calling"}
          THEN <<owner>> \o queue ELSE queue

Line == INSTANCE CommandLine
    WITH Places <- MaxSlots, line <- InLine, busy <- \E p \in Request : At(p, "calling")

KeepsLine == Line!Spec

\* A connection enters the map with a stream on which nothing went wrong, so
\* that a session's first command cannot read what the probe has left over.
PublishedClean == conn = "published" => stream = "open"

\* Every operation ends when the commands do, however long the queue and
\* whatever becomes of the session meanwhile: nobody is forgotten in it. So
\* the connection of a session that was removed is closed in the end, when the
\* last operation drops it.
OperationsEnd == \A p \in Request : ~At(p, "idle") ~> At(p, "idle")
=============================================================================
