-------------------------------- MODULE Jobs --------------------------------
(***************************************************************************)
(* Report exports: the JobRegistry of the app crate, the requests that     *)
(* start and cancel jobs, the worker of each job, the JobReaper, and       *)
(* delete_session as far as jobs and connections go.  The session registry *)
(* is represented by its contract, which Sessions is proved to implement.  *)
(*                                                                         *)
(* The job registry reads the clock under its lock, so only the time that  *)
(* a terminal job has left matters, and the clock itself is not kept.      *)
(***************************************************************************)
EXTENDS Integers, FiniteSets, Functions

CONSTANTS
    Session,    \* session tokens
    Job,        \* job ids (fresh UUIDs)
    Client,     \* tasks that serve requests
    None,       \* no session, no job, no limit, no time to be purged
    MaxJobs,    \* JobPolicy::max_jobs_total
    Retention   \* JobPolicy::terminal_retention_secs

ASSUME JobsAssumption ==
    /\ IsFiniteSet(Job)
    /\ None \notin Session /\ None \notin Job /\ None \notin Nat
    /\ MaxJobs \in Nat /\ Retention \in Nat \ {0}

VARIABLES
    live,         \* the sessions in the registry
    ended,        \* the sessions that were removed from it
    closing,      \* those that a delete_session under way has removed
    held,         \* the jobs whose SessionHold keeps each session from expiring
    connections,  \* GvmdAdapter::sessions
    jobs,         \* JobRegistryState::jobs
    worker,       \* how far the worker of each job has got
    aborted,      \* the workers whose AbortHandle was used
    client        \* the request each task serves

vars == <<live, ended, closing, held, connections, jobs, worker, aborted, client>>

Registry == INSTANCE SessionContract
    WITH Token <- Session, Holder <- Job, Capacity <- None, NoLimit <- None

sessionVars == <<live, ended, closing, held, connections>>

Terminal == {"Succeeded", "Failed", "Cancelled"}
Status == {"Queued", "Running"} \cup Terminal

\* What matters of a JobRecord; left is the time until it may be purged.
JobRecord == [session : Session, status : Status, artifact : BOOLEAN,
              handle : BOOLEAN, left : 0 .. Retention \cup {None}]

Free == [at |-> "free", session |-> None, job |-> None]

Init ==
    /\ Registry!Init
    /\ connections = {}
    /\ jobs = [j \in {} |-> None]
    /\ worker = [j \in Job |-> "none"]
    /\ aborted = {}
    /\ client = [p \in Client |-> Free]

-----------------------------------------------------------------------------
(* Sessions, as the contract has them *)

OpenSession(s) ==
    /\ Registry!Open(s, {})
    /\ connections' = connections \cup {s}
    /\ UNCHANGED <<jobs, worker, aborted, client>>

\* Idle expiry, by whichever task drains the session.
ExpireSession(s) ==
    /\ s \in live /\ Registry!Drain({s})
    /\ connections' = connections \ {s}
    /\ UNCHANGED <<jobs, worker, aborted, client>>

-----------------------------------------------------------------------------
(* The table of jobs *)

Finished(j) == jobs[j].status \in Terminal

\* purge_expired_jobs, the first thing most operations do.
Unexpired == {j \in DOMAIN jobs : jobs[j].left # 0}

Purged == Restrict(jobs, Unexpired)

\* JobReaper::sweep_once; get_job and download_job_result purge in the same way.
Sweep ==
    /\ Unexpired # DOMAIN jobs
    /\ jobs' = Purged
    /\ UNCHANGED <<live, ended, closing, held, connections, worker, aborted, client>>

\* Time passes, but not for a whole retention while a request that has inserted
\* its job is on its way to set_job_abort_handle: it never waits in between.
Tick ==
    /\ \E j \in DOMAIN jobs : jobs[j].left \notin {0, None}
    /\ \A p \in Client : client[p].at # "handle"
    /\ jobs' = [j \in DOMAIN jobs |->
                   [jobs[j] EXCEPT !.left = IF @ \in {0, None} THEN @ ELSE @ - 1]]
    /\ UNCHANGED <<live, ended, closing, held, connections, worker, aborted, client>>

\* Mutant: the retention is counted from the next second on.
EndedLate(r, status) ==
    [r EXCEPT !.status = status, !.artifact = (status = "Succeeded"),
              !.handle = FALSE, !.left = Retention + 1]

\* What marking a job as terminal makes of its record.
Ended(r, status) ==
    [r EXCEPT !.status = status, !.artifact = (status = "Succeeded"),
              !.handle = FALSE, !.left = Retention]

-----------------------------------------------------------------------------
(* create_report_export_job *)

At(p, place) == client[p].at = place
Moves(p, place) == client' = [client EXCEPT ![p].at = place]
Done(p) == client' = [client EXCEPT ![p] = Free]

\* The session was touched and gvmd has the report; the job gets its id.
ExportBegin(p, s, j) ==
    /\ At(p, "free") /\ s \in live
    /\ worker[j] = "none" /\ \A q \in Client : client[q].job # j
    /\ client' = [client EXCEPT ![p] = [at |-> "hold", session |-> s, job |-> j]]
    /\ UNCHANGED <<live, ended, closing, held, connections, jobs, worker, aborted>>

ExportHold(p) ==
    /\ At(p, "hold") /\ client[p].session \in live
    /\ Registry!Join(client[p].job, client[p].session)
    /\ Moves(p, "insert")
    /\ UNCHANGED <<connections, jobs, worker, aborted>>

\* The session was removed or has expired since.
ExportRefused(p) ==
    /\ At(p, "hold") /\ client[p].session \notin live
    /\ Done(p)
    /\ UNCHANGED <<live, ended, closing, held, connections, jobs, worker, aborted>>

\* Mutant: the capacity is checked before the expired jobs are purged and one too late.
InsertOverCapacity(p) ==
    LET j == client[p].job IN
    /\ At(p, "insert") /\ Cardinality(Unexpired) <= MaxJobs
    /\ jobs' = [x \in Unexpired \cup {j} |->
                   IF x = j THEN [session |-> client[p].session, status |-> "Queued",
                                  artifact |-> FALSE, handle |-> FALSE, left |-> None]
                   ELSE jobs[x]]
    /\ worker' = [worker EXCEPT ![j] = "spawned"]
    /\ Moves(p, "handle")
    /\ UNCHANGED <<live, ended, closing, held, connections, aborted>>

\* insert_job, and the worker is spawned at once.
Insert(p) ==
    LET j == client[p].job IN
    /\ At(p, "insert") /\ Cardinality(Unexpired) < MaxJobs
    /\ jobs' = [x \in Unexpired \cup {j} |->
                   IF x = j THEN [session |-> client[p].session, status |-> "Queued",
                                  artifact |-> FALSE, handle |-> FALSE, left |-> None]
                   ELSE jobs[x]]
    /\ worker' = [worker EXCEPT ![j] = "spawned"]
    /\ Moves(p, "handle")
    /\ UNCHANGED <<live, ended, closing, held, connections, aborted>>

InsertRejected(p) ==
    /\ At(p, "insert") /\ Cardinality(Unexpired) >= MaxJobs
    /\ jobs' = Purged
    /\ Moves(p, "drop")
    /\ UNCHANGED <<live, ended, closing, held, connections, worker, aborted>>

DropHold(p) ==
    /\ At(p, "drop")
    /\ Registry!Leave(client[p].job, client[p].session)
    /\ Done(p)
    /\ UNCHANGED <<connections, jobs, worker, aborted>>

\* Mutant: the handle is stored whatever has become of the job.
SetAbortHandleBlindly(p) ==
    LET j == client[p].job IN
    /\ At(p, "handle")
    /\ jobs' = IF j \in DOMAIN jobs THEN [jobs EXCEPT ![j].handle = TRUE] ELSE jobs
    /\ Done(p)
    /\ UNCHANGED <<live, ended, closing, held, connections, worker, aborted>>

\* set_job_abort_handle: a job that was cancelled meanwhile is aborted here.
SetAbortHandle(p) ==
    LET j == client[p].job IN
    /\ At(p, "handle")
    /\ jobs' = IF j \in DOMAIN jobs /\ ~Finished(j)
               THEN [jobs EXCEPT ![j].handle = TRUE] ELSE jobs
    /\ aborted' = IF j \in DOMAIN jobs /\ Finished(j) THEN aborted \cup {j} ELSE aborted
    /\ Done(p)
    /\ UNCHANGED <<live, ended, closing, held, connections, worker>>

-----------------------------------------------------------------------------
(* Cancelling *)

CancelAll(S) ==
    /\ jobs' = [j \in Unexpired |-> IF j \in S THEN Ended(jobs[j], "Cancelled") ELSE jobs[j]]
    /\ aborted' = aborted \cup {j \in S : jobs[j].handle}

\* cancel_job_record, on behalf of the job's owner
Cancel(j) ==
    /\ j \in Unexpired /\ ~Finished(j)
    /\ CancelAll({j})
    /\ UNCHANGED <<live, ended, closing, held, connections, worker, client>>

\* delete_session: the entry is removed, ...
DeleteBegin(p, s) ==
    /\ At(p, "free") /\ s \in live
    /\ Registry!Close(s)
    /\ client' = [client EXCEPT ![p] = [at |-> "cancel", session |-> s, job |-> None]]
    /\ UNCHANGED <<connections, jobs, worker, aborted>>

\* ... the jobs of the session are cancelled, ...
DeleteCancelsJobs(p) ==
    /\ At(p, "cancel")
    /\ CancelAll({j \in Unexpired : jobs[j].session = client[p].session /\ ~Finished(j)})
    /\ Moves(p, "disconnect")
    /\ UNCHANGED <<live, ended, closing, held, connections, worker>>

\* ... and the connection is closed.
DeleteDisconnects(p) ==
    /\ At(p, "disconnect")
    /\ Registry!Closed(client[p].session)
    /\ connections' = connections \ {client[p].session}
    /\ Done(p)
    /\ UNCHANGED <<jobs, worker, aborted>>

-----------------------------------------------------------------------------
(* The worker: run_report_export_job *)

Goes(j, from, to) == worker[j] = from /\ worker' = [worker EXCEPT ![j] = to]

\* Some session holds for the job: exactly the one it was started from.
HeldBy(j) == {s \in Session : j \in held[s]}

\* Mutant: the worker does not keep the hold it was given.
StartDropsHold(j) ==
    LET starts == j \in DOMAIN jobs /\ jobs[j].status # "Cancelled" IN
    /\ Goes(j, "spawned", IF starts THEN "running" ELSE "leaving")
    /\ jobs' = IF starts THEN [jobs EXCEPT ![j].status = "Running"] ELSE jobs
    /\ \E s \in Session : Registry!Leave(j, s)
    /\ UNCHANGED <<connections, aborted, client>>

\* mark_job_running; a job that was cancelled or purged before is not started.
Start(j) ==
    LET starts == j \in DOMAIN jobs /\ jobs[j].status # "Cancelled" IN
    /\ Goes(j, "spawned", IF starts THEN "running" ELSE "leaving")
    /\ jobs' = IF starts THEN [jobs EXCEPT ![j].status = "Running"] ELSE jobs
    /\ UNCHANGED <<live, ended, closing, held, connections, aborted, client>>

\* The next command of the export needs the session's connection.
Call(j) ==
    /\ Goes(j, "running", IF HeldBy(j) \cap connections # {} THEN "calling" ELSE "failing")
    /\ UNCHANGED <<live, ended, closing, held, connections, jobs, aborted, client>>

\* gvmd answers: with an error, with a page after which there are more, or the last one.
Answer(j) ==
    /\ \E place \in {"failing", "running", "succeeding"} : Goes(j, "calling", place)
    /\ UNCHANGED <<live, ended, closing, held, connections, jobs, aborted, client>>

\* Mutant: the late result of a cancelled job is stored.
FinishAnyway(j) ==
    /\ \/ Goes(j, "succeeding", "leaving")
       \/ Goes(j, "failing", "leaving")
    /\ jobs' = IF j \in DOMAIN jobs
               THEN [jobs EXCEPT ![j] =
                       Ended(@, IF worker[j] = "succeeding" THEN "Succeeded" ELSE "Failed")]
               ELSE jobs
    /\ UNCHANGED <<live, ended, closing, held, connections, aborted, client>>

\* mark_job_succeeded, mark_job_failed: the result of a cancelled job is dropped.
Finish(j) ==
    /\ \/ Goes(j, "succeeding", "leaving")
       \/ Goes(j, "failing", "leaving")
    /\ jobs' = IF j \in DOMAIN jobs /\ jobs[j].status # "Cancelled"
               THEN [jobs EXCEPT ![j] =
                       Ended(@, IF worker[j] = "succeeding" THEN "Succeeded" ELSE "Failed")]
               ELSE jobs
    /\ UNCHANGED <<live, ended, closing, held, connections, aborted, client>>

\* An aborted task ends where it next waits, or before it has started.
Abort(j) ==
    /\ j \in aborted
    /\ \E place \in {"spawned", "running", "calling"} : Goes(j, place, "leaving")
    /\ UNCHANGED <<live, ended, closing, held, connections, jobs, aborted, client>>

\* Mutant: the hold of a worker that is done is never given up.
LeaveHolding(j) ==
    /\ Goes(j, "leaving", "gone")
    /\ UNCHANGED <<live, ended, closing, held, connections, jobs, aborted, client>>

\* The worker's future is dropped, and its SessionHold with it.
Leave(j) ==
    /\ Goes(j, "leaving", "gone")
    /\ \E s \in Session : Registry!Leave(j, s)
    /\ UNCHANGED <<connections, jobs, aborted, client>>

-----------------------------------------------------------------------------

Exports(p) ==
    \/ ExportHold(p) \/ ExportRefused(p) \/ Insert(p) \/ InsertRejected(p)
    \/ DropHold(p) \/ SetAbortHandle(p)
Deletes(p) == DeleteCancelsJobs(p) \/ DeleteDisconnects(p)
Works(j) == Start(j) \/ Call(j) \/ Finish(j) \/ Abort(j) \/ Leave(j)
Arrives(p) == \E s \in Session : DeleteBegin(p, s) \/ \E j \in Job : ExportBegin(p, s, j)

Next ==
    \/ \E s \in Session : OpenSession(s) \/ ExpireSession(s)
    \/ Tick \/ Sweep
    \/ \E p \in Client : Arrives(p) \/ Exports(p) \/ Deletes(p)
    \/ \E j \in Job : Cancel(j) \/ Works(j) \/ Answer(j)

Spec == Init /\ [][Next]_vars

\* Runnable tasks run, time passes and the reaper sweeps; an export ends when it
\* gets its answers, but gvmd need not answer one whose job was cancelled.
Fairness ==
    /\ WF_vars(Tick) /\ WF_vars(Sweep)
    /\ \A p \in Client : WF_vars(Exports(p)) /\ WF_vars(Deletes(p))
    /\ \A j \in Job :
          /\ WF_vars(Works(j)) /\ WF_vars(Abort(j))
          /\ SF_vars(/\ Answer(j) /\ worker'[j] # "running"
                     /\ j \in DOMAIN jobs /\ ~Finished(j))

FairSpec == Spec /\ Fairness

-----------------------------------------------------------------------------
(* Properties *)

TypeOK ==
    /\ live \subseteq Session /\ ended \subseteq Session /\ connections \subseteq Session
    /\ closing \subseteq Session
    /\ held \in [Session -> SUBSET Job]
    /\ DOMAIN jobs \subseteq Job
    /\ jobs \in [DOMAIN jobs -> JobRecord]
    /\ worker \in [Job -> {"none", "spawned", "running", "calling", "succeeding", "failing",
                           "leaving", "gone"}]
    /\ aborted \subseteq Job
    /\ client \in [Client -> [at : {"free", "hold", "insert", "drop", "handle", "cancel",
                                    "disconnect"},
                              session : Session \cup {None}, job : Job \cup {None}]]

\* At most max_jobs_total jobs are retained, whoever inserts when.
JobsBounded == Cardinality(DOMAIN jobs) <= MaxJobs

\* report-exports.yaml: "A running export keeps the creating session active":
\* from before it is queued until after it is terminal, a job holds its session
\* and no other, so that only an explicit delete can end the session.
UnfinishedJobHolds ==
    \A j \in DOMAIN jobs : ~Finished(j) => HeldBy(j) = {jobs[j].session}

\* A terminal status is final, whatever a worker still delivers, and a job
\* leaves the table only when it is terminal and its retention is over.
TerminalIsFinal ==
    [][\A j \in DOMAIN jobs :
          IF j \in DOMAIN jobs'
          THEN Finished(j) => jobs'[j].status = jobs[j].status
          ELSE Finished(j) /\ jobs[j].left = 0]_vars

\* What a record says fits together: a result exactly for success, a time to be
\* purged exactly for terminal jobs, and no handle kept for a job that is over.
RecordsConsistent ==
    \A j \in DOMAIN jobs :
        /\ jobs[j].artifact <=> jobs[j].status = "Succeeded"
        /\ jobs[j].left = None <=> ~Finished(j)
        /\ jobs[j].handle => ~Finished(j)

\* Every job ends, gives up its session and is purged; a cancelled one even if
\* gvmd never answers its worker, also when it was cancelled before its abort
\* handle was stored.
JobsPass == \A j \in Job : j \in DOMAIN jobs ~> (j \notin DOMAIN jobs /\ HeldBy(j) = {})

\* report-exports.yaml: "deleting that session cancels non-terminal export jobs
\* started from it": none is left once delete_session has got that far.
NoJobAfterDelete ==
    \A j \in DOMAIN jobs :
        /\ jobs[j].session \in ended /\ ~Finished(j)
        => \E p \in Client : client[p].at = "cancel" /\ client[p].session = jobs[j].session
=============================================================================
