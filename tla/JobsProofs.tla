----------------------------- MODULE JobsProofs -----------------------------
(***************************************************************************)
(* Theorems about Jobs, for any number of sessions, jobs and requests.     *)
(*                                                                         *)
(* That an unfinished job holds its session is not inductive: a worker     *)
(* gives up the hold when it leaves, and one has to know that the record   *)
(* is terminal by then, on each of its ways out (Lifecycle).  An aborted   *)
(* worker leaves at any point, so that only terminal jobs may be aborted;  *)
(* a result is stored unless the job is Cancelled, so that a job whose     *)
(* worker still runs must not be terminal in any other way; and the hold   *)
(* is passed from the request to the worker (Requested), which needs that  *)
(* no two requests have the same job.                                      *)
(***************************************************************************)
EXTENDS Jobs, TLAPS, FiniteSetTheorems

-----------------------------------------------------------------------------
(* The inductive invariant *)

\* What the record of a job says against how far its worker is.
RecordFits(j) ==
    /\ worker[j] = "spawned" => jobs[j].status \in {"Queued", "Cancelled"}
    /\ worker[j] \in {"running", "calling", "succeeding", "failing"}
          => jobs[j].status \in {"Running", "Cancelled"}
    /\ worker[j] \in {"leaving", "gone"} => Finished(j)
    /\ j \in aborted => Finished(j)
    /\ worker[j] # "gone" => HeldBy(j) = {jobs[j].session}

Lifecycle ==
    \A j \in Job : /\ j \in DOMAIN jobs => RecordFits(j)
                   /\ worker[j] = "none" => j \notin DOMAIN jobs /\ j \notin aborted

\* A request on its way to insert a job: nobody else knows the job.
Requested ==
    \A p \in Client :
        /\ client[p].at \in {"hold", "insert", "drop", "handle"}
              => client[p].job \in Job /\ client[p].session \in Session
        /\ client[p].at \in {"hold", "insert", "drop"} => worker[client[p].job] = "none"
        /\ client[p].at \in {"insert", "drop"} => HeldBy(client[p].job) = {client[p].session}
        /\ \A q \in Client : q # p /\ client[p].job # None => client[p].job # client[q].job

\* What every step preserves.
IInv == TypeOK /\ RecordsConsistent /\ Lifecycle /\ Requested

\* What marking a job as terminal leaves of its record.
LEMMA EndedRecord ==
  ASSUME NEW r \in JobRecord, NEW status \in Terminal
  PROVE  /\ Ended(r, status) \in JobRecord
         /\ Ended(r, status).session = r.session
         /\ Ended(r, status).status = status
         /\ Ended(r, status).artifact <=> status = "Succeeded"
         /\ ~Ended(r, status).handle
         /\ Ended(r, status).left = Retention
<1>1. status \in Status /\ Retention \in 0 .. Retention \cup {None}
  BY JobsAssumption DEF Status
<1>2. Ended(r, status) \in JobRecord
  BY <1>1, Zenon DEF Ended, JobRecord
<1>3. /\ Ended(r, status).session = r.session /\ Ended(r, status).status = status
      /\ Ended(r, status).left = Retention
  BY DEF Ended, JobRecord
<1>4. (Ended(r, status).artifact <=> status = "Succeeded") /\ ~Ended(r, status).handle
  BY DEF Ended, JobRecord
<1> QED  BY <1>2, <1>3, <1>4

\* Cancelling unfinished jobs, one or all of a session: every aborted worker's job
\* is terminal, with its hold still in place.
LEMMA CancelAllInv ==
  ASSUME IInv, NEW S, S \subseteq Unexpired, \A j \in S : ~Finished(j), CancelAll(S),
         UNCHANGED <<held, worker>>
  PROVE  /\ DOMAIN jobs' \subseteq Job /\ jobs' \in [DOMAIN jobs' -> JobRecord]
         /\ aborted' \subseteq Job /\ RecordsConsistent' /\ Lifecycle'
<1>1. jobs \in [DOMAIN jobs -> JobRecord] /\ DOMAIN jobs \subseteq Job /\ aborted \subseteq Job
  BY DEF IInv, TypeOK
<1>2. DOMAIN jobs' = Unexpired /\ Unexpired \subseteq DOMAIN jobs
  BY DEF CancelAll, Unexpired
<1>3. \A j \in S : /\ jobs'[j] \in JobRecord /\ jobs'[j].session = jobs[j].session
                   /\ jobs'[j].status = "Cancelled" /\ ~jobs'[j].artifact /\ ~jobs'[j].handle
                   /\ jobs'[j].left # None
  BY <1>1, <1>2, EndedRecord, JobsAssumption DEF CancelAll, Terminal
<1>4. \A j \in Unexpired \ S : jobs'[j] = jobs[j]
  BY DEF CancelAll
<1>5. aborted' = aborted \cup {j \in S : jobs[j].handle}
  BY DEF CancelAll
<1>6. jobs' \in [DOMAIN jobs' -> JobRecord]
  <2>1. jobs' = [j \in Unexpired |-> jobs'[j]]
    BY DEF CancelAll
  <2>2. \A j \in Unexpired : jobs'[j] \in JobRecord
    BY <1>1, <1>2, <1>3, <1>4
  <2> QED  BY <1>2, <2>1, <2>2
<1>7. RecordsConsistent'
  BY <1>2, <1>3, <1>4 DEF IInv, RecordsConsistent, Finished, Terminal
<1>8. Lifecycle'
  BY <1>2, <1>3, <1>4, <1>5 DEF IInv, Lifecycle, RecordFits, Finished, Terminal, HeldBy
<1> QED  BY <1>1, <1>2, <1>5, <1>6, <1>7, <1>8

\* Time passes: a terminal job comes closer to being purged.
LEMMA TickInv == ASSUME IInv, Tick PROVE IInv'
<1> DEFINE Aged(r) == [r EXCEPT !.left = IF @ \in {0, None} THEN @ ELSE @ - 1]
<1>1. ASSUME NEW r \in JobRecord
      PROVE  /\ Aged(r) \in JobRecord
             /\ \A f \in {"session", "status", "artifact", "handle"} : Aged(r)[f] = r[f]
             /\ Aged(r).left = None <=> r.left = None
  BY JobsAssumption DEF JobRecord
<1>2. DOMAIN jobs' = DOMAIN jobs /\ \A j \in DOMAIN jobs : jobs'[j] = Aged(jobs[j])
  BY DEF Tick
<1>3. jobs' = [j \in DOMAIN jobs |-> Aged(jobs[j])]
  BY DEF Tick
<1> HIDE DEF Aged
<1>4. /\ jobs' \in [DOMAIN jobs' -> JobRecord] /\ DOMAIN jobs' \subseteq Job
      /\ DOMAIN jobs' = DOMAIN jobs
  BY <1>1, <1>2, <1>3 DEF IInv, TypeOK
<1>5. UNCHANGED <<live, ended, closing, held, connections, worker, aborted, client>>
  BY DEF Tick
<1>6. TypeOK'
  BY <1>4, <1>5 DEF IInv, TypeOK
<1>7. \A j \in DOMAIN jobs : /\ jobs'[j].session = jobs[j].session
                             /\ jobs'[j].status = jobs[j].status
                             /\ jobs'[j].artifact = jobs[j].artifact
                             /\ jobs'[j].handle = jobs[j].handle
                             /\ jobs'[j].left = None <=> jobs[j].left = None
  BY <1>1, <1>2 DEF IInv, TypeOK
<1>8. RecordsConsistent'
  BY <1>4, <1>7 DEF IInv, RecordsConsistent, Finished
<1>9. Lifecycle' /\ Requested'
  BY <1>4, <1>5, <1>7 DEF IInv, Lifecycle, RecordFits, Requested, Finished, HeldBy
<1> QED  BY <1>6, <1>8, <1>9 DEF IInv

\* The handle is kept only while the job is unfinished; otherwise the worker is aborted.
LEMMA SetAbortHandleInv == ASSUME IInv, NEW p \in Client, SetAbortHandle(p) PROVE IInv'
<1> USE JobsAssumption DEF IInv, SetAbortHandle, At, Done
<1> DEFINE j == client[p].job
<1>1. CASE j \in DOMAIN jobs /\ ~Finished(j)
  <2>1. jobs' = [jobs EXCEPT ![j].handle = TRUE] /\ aborted' = aborted
    BY <1>1
  <2>2. jobs[j] \in JobRecord
    BY <1>1 DEF TypeOK
  <2>3. [jobs[j] EXCEPT !.handle = TRUE] \in JobRecord
    BY <2>2, Zenon DEF JobRecord
  <2>4. TypeOK'
    BY <1>1, <2>1, <2>3 DEF TypeOK, Free
  <2>5. RecordsConsistent' /\ Lifecycle' /\ Requested'
    BY <1>1, <2>1 DEF TypeOK, JobRecord, RecordsConsistent, Lifecycle, RecordFits, Requested,
                      Finished, HeldBy, Free
  <2> QED  BY <2>4, <2>5
<1>2. CASE ~(j \in DOMAIN jobs /\ ~Finished(j))
  BY <1>2 DEF TypeOK, RecordsConsistent, Lifecycle, RecordFits, Requested, Finished, HeldBy, Free
<1> QED  BY <1>1, <1>2

\* delete_session cancels the jobs of its session.
LEMMA DeleteCancelsJobsInv == ASSUME IInv, NEW p \in Client, DeleteCancelsJobs(p) PROVE IInv'
<1> DEFINE S == {j \in Unexpired : jobs[j].session = client[p].session /\ ~Finished(j)}
<1>1. /\ S \subseteq Unexpired /\ \A j \in S : ~Finished(j)
      /\ CancelAll(S) /\ UNCHANGED <<held, worker>>
  BY DEF DeleteCancelsJobs
<1> HIDE DEF S
<1>2. /\ DOMAIN jobs' \subseteq Job /\ jobs' \in [DOMAIN jobs' -> JobRecord]
      /\ aborted' \subseteq Job /\ RecordsConsistent' /\ Lifecycle'
  BY <1>1, CancelAllInv
<1>3. TypeOK' /\ Requested'
  BY <1>2 DEF DeleteCancelsJobs, Moves, At, IInv, TypeOK, Requested, HeldBy
<1> QED  BY <1>2, <1>3 DEF IInv

\* A job is cancelled by its owner.
LEMMA CancelInv == ASSUME IInv, NEW j \in Job, Cancel(j) PROVE IInv'
<1>1. /\ DOMAIN jobs' \subseteq Job /\ jobs' \in [DOMAIN jobs' -> JobRecord]
      /\ aborted' \subseteq Job /\ RecordsConsistent' /\ Lifecycle'
  BY CancelAllInv DEF Cancel
<1>2. TypeOK' /\ Requested'
  BY <1>1 DEF Cancel, IInv, TypeOK, Requested, HeldBy
<1> QED  BY <1>1, <1>2 DEF IInv

\* A result is stored unless the job was cancelled or purged; the worker leaves either way.
LEMMA FinishInv == ASSUME IInv, NEW j \in Job, Finish(j) PROVE IInv'
<1> DEFINE status == IF worker[j] = "succeeding" THEN "Succeeded" ELSE "Failed"
<1> USE DEF IInv
<1>1. CASE j \in DOMAIN jobs /\ jobs[j].status # "Cancelled"
  <2>1. jobs' = [jobs EXCEPT ![j] = Ended(jobs[j], status)]
    BY <1>1 DEF Finish
  <2>2. /\ jobs'[j] \in JobRecord /\ jobs'[j].session = jobs[j].session
        /\ jobs'[j].status = status /\ (jobs'[j].artifact <=> status = "Succeeded")
        /\ ~jobs'[j].handle /\ jobs'[j].left # None
    BY <1>1, <2>1, EndedRecord, JobsAssumption DEF TypeOK, Terminal
  <2>3. DOMAIN jobs' = DOMAIN jobs /\ \A i \in DOMAIN jobs : i # j => jobs'[i] = jobs[i]
    BY <2>1
  <2> HIDE DEF status
  <2>4. jobs' \in [DOMAIN jobs' -> JobRecord]
    BY <1>1, <2>1, <2>2 DEF TypeOK
  <2>5. status \in {"Succeeded", "Failed"}
    BY DEF status
  <2>6. TypeOK'
    BY <2>3, <2>4 DEF TypeOK, Finish, Goes
  <2>7. RecordsConsistent'
    BY <2>2, <2>3, <2>5 DEF RecordsConsistent, Finished, Terminal
  <2>8. Lifecycle' /\ Requested'
    BY <2>2, <2>3, <2>5 DEF TypeOK, Lifecycle, RecordFits, Requested, Finished, Terminal, HeldBy,
                            Finish, Goes
  <2> QED  BY <2>6, <2>7, <2>8
<1>2. CASE ~(j \in DOMAIN jobs /\ jobs[j].status # "Cancelled")
  BY <1>2 DEF TypeOK, RecordsConsistent, Lifecycle, RecordFits, Requested, Finished, Terminal,
              HeldBy, Finish, Goes
<1> QED  BY <1>1, <1>2

-----------------------------------------------------------------------------
(* The steps that touch a record as a whole or not at all *)

USE JobsAssumption
  DEF IInv, TypeOK, RecordsConsistent, Lifecycle, Requested, RecordFits, Finished, HeldBy,
      JobRecord, Status, Terminal, Free, At, Moves, Done, Goes

\* A session is opened.
LEMMA OpenSessionInv == ASSUME IInv, NEW s \in Session, OpenSession(s) PROVE IInv'
<1>1. TypeOK' /\ RecordsConsistent'
  BY DEF OpenSession, Registry!Open
<1>2. Lifecycle'
  BY DEF OpenSession, Registry!Open
<1>3. Requested'
  BY DEF OpenSession, Registry!Open
<1> QED  BY <1>1, <1>2, <1>3

\* A session nobody holds expires.
LEMMA ExpireSessionInv == ASSUME IInv, NEW s \in Session, ExpireSession(s) PROVE IInv'
<1>1. TypeOK' /\ RecordsConsistent'
  BY DEF ExpireSession, Registry!Drain
<1>2. Lifecycle'
  BY DEF ExpireSession, Registry!Drain
<1>3. Requested'
  BY DEF ExpireSession, Registry!Drain
<1> QED  BY <1>1, <1>2, <1>3

\* Terminal jobs whose retention is over are purged.
LEMMA SweepInv == ASSUME IInv, Sweep PROVE IInv'
<1>1. TypeOK' /\ RecordsConsistent'
  BY DEF Sweep, Purged, Unexpired, Restrict
<1>2. Lifecycle'
  BY DEF Sweep, Purged, Unexpired, Restrict
<1>3. Requested'
  BY DEF Sweep, Purged, Unexpired, Restrict
<1> QED  BY <1>1, <1>2, <1>3

\* A request gets a fresh job id.
LEMMA ExportBeginInv ==
  ASSUME IInv, NEW p \in Client, NEW s \in Session, NEW j \in Job, ExportBegin(p, s, j)
  PROVE  IInv'
<1>1. TypeOK' /\ RecordsConsistent'
  BY DEF ExportBegin
<1>2. Lifecycle'
  BY DEF ExportBegin
<1>3. Requested'
  BY DEF ExportBegin
<1> QED  BY <1>1, <1>2, <1>3

\* The request takes the hold that its job will have.
LEMMA ExportHoldInv == ASSUME IInv, NEW p \in Client, ExportHold(p) PROVE IInv'
<1>1. TypeOK' /\ RecordsConsistent'
  BY DEF ExportHold, Registry!Join
<1>2. Lifecycle'
  BY DEF ExportHold, Registry!Join
<1>3. Requested'
  BY DEF ExportHold, Registry!Join
<1> QED  BY <1>1, <1>2, <1>3

\* The session is gone: the request ends.
LEMMA ExportRefusedInv == ASSUME IInv, NEW p \in Client, ExportRefused(p) PROVE IInv'
<1>1. TypeOK' /\ RecordsConsistent'
  BY DEF ExportRefused
<1>2. Lifecycle'
  BY DEF ExportRefused
<1>3. Requested'
  BY DEF ExportRefused
<1> QED  BY <1>1, <1>2, <1>3

\* The job enters the table with the hold of its request.
LEMMA InsertInv == ASSUME IInv, NEW p \in Client, Insert(p) PROVE IInv'
<1>1. TypeOK' /\ RecordsConsistent'
  BY DEF Insert, Unexpired
<1>2. Lifecycle'
  BY DEF Insert, Unexpired
<1>3. Requested'
  BY DEF Insert, Unexpired
<1> QED  BY <1>1, <1>2, <1>3

\* There is no room: the request keeps its hold until it drops it.
LEMMA InsertRejectedInv == ASSUME IInv, NEW p \in Client, InsertRejected(p) PROVE IInv'
<1>1. TypeOK' /\ RecordsConsistent'
  BY DEF InsertRejected, Purged, Unexpired, Restrict
<1>2. Lifecycle'
  BY DEF InsertRejected, Purged, Unexpired, Restrict
<1>3. Requested'
  BY DEF InsertRejected, Purged, Unexpired, Restrict
<1> QED  BY <1>1, <1>2, <1>3

\* The hold of a job that was never inserted is dropped; no other job's hold is.
LEMMA DropHoldInv == ASSUME IInv, NEW p \in Client, DropHold(p) PROVE IInv'
<1>1. TypeOK' /\ RecordsConsistent'
  BY DEF DropHold, Registry!Leave
<1>2. Lifecycle'
  BY DEF DropHold, Registry!Leave
<1>3. Requested'
  BY DEF DropHold, Registry!Leave
<1> QED  BY <1>1, <1>2, <1>3

\* delete_session closes the connection.
LEMMA DeleteDisconnectsInv == ASSUME IInv, NEW p \in Client, DeleteDisconnects(p) PROVE IInv'
<1>1. TypeOK' /\ RecordsConsistent'
  BY DEF DeleteDisconnects, Registry!Closed
<1>2. Lifecycle'
  BY DEF DeleteDisconnects, Registry!Closed
<1>3. Requested'
  BY DEF DeleteDisconnects, Registry!Closed
<1> QED  BY <1>1, <1>2, <1>3

\* delete_session removes the session, whoever holds it.
LEMMA DeleteBeginInv ==
  ASSUME IInv, NEW p \in Client, NEW s \in Session, DeleteBegin(p, s)
  PROVE  IInv'
<1>1. TypeOK' /\ RecordsConsistent'
  BY DEF DeleteBegin, Registry!Close
<1>2. Lifecycle'
  BY DEF DeleteBegin, Registry!Close
<1>3. Requested'
  BY DEF DeleteBegin, Registry!Close
<1> QED  BY <1>1, <1>2, <1>3

\* The worker starts, unless its job was cancelled before.
LEMMA StartInv == ASSUME IInv, NEW j \in Job, Start(j) PROVE IInv'
<1>1. TypeOK' /\ RecordsConsistent'
  BY DEF Start
<1>2. Lifecycle'
  BY DEF Start
<1>3. Requested'
  BY DEF Start
<1> QED  BY <1>1, <1>2, <1>3

\* The worker sends a command, or finds no connection.
LEMMA CallInv == ASSUME IInv, NEW j \in Job, Call(j) PROVE IInv'
<1>1. TypeOK' /\ RecordsConsistent'
  BY DEF Call
<1>2. Lifecycle'
  BY DEF Call
<1>3. Requested'
  BY DEF Call
<1> QED  BY <1>1, <1>2, <1>3

\* gvmd answers.
LEMMA AnswerInv == ASSUME IInv, NEW j \in Job, Answer(j) PROVE IInv'
<1>1. TypeOK' /\ RecordsConsistent'
  BY DEF Answer
<1>2. Lifecycle'
  BY DEF Answer
<1>3. Requested'
  BY DEF Answer
<1> QED  BY <1>1, <1>2, <1>3

\* Only workers of terminal jobs are aborted.
LEMMA AbortInv == ASSUME IInv, NEW j \in Job, Abort(j) PROVE IInv'
<1>1. TypeOK' /\ RecordsConsistent'
  BY DEF Abort
<1>2. Lifecycle'
  BY DEF Abort
<1>3. Requested'
  BY DEF Abort
<1> QED  BY <1>1, <1>2, <1>3

\* The worker gives up its hold: its job is terminal by then.
LEMMA LeaveInv == ASSUME IInv, NEW j \in Job, Leave(j) PROVE IInv'
<1>1. TypeOK' /\ RecordsConsistent'
  BY DEF Leave, Registry!Leave
<1>2. Lifecycle'
  BY DEF Leave, Registry!Leave
<1>3. Requested'
  BY DEF Leave, Registry!Leave
<1> QED  BY <1>1, <1>2, <1>3

-----------------------------------------------------------------------------
(* Theorems *)

HIDE JobsAssumption
  DEF IInv, TypeOK, RecordsConsistent, Lifecycle, Requested, RecordFits, Finished, HeldBy,
      JobRecord, Status, Terminal, Free, At, Moves, Done, Goes

\* Nothing has been exported yet.
LEMMA InitInv == Init => IInv
BY DEF Init, Registry!Init, IInv, TypeOK, RecordsConsistent, Lifecycle, Requested, Free

\* Every step of requests, workers, sessions and the reaper preserves the invariant.
LEMMA NextInv == IInv /\ [Next]_vars => IInv'
<1> SUFFICES ASSUME IInv, [Next]_vars PROVE IInv'
  OBVIOUS
<1>1. ASSUME NEW s \in Session, OpenSession(s) \/ ExpireSession(s) PROVE IInv'
  BY <1>1, OpenSessionInv, ExpireSessionInv
<1>2. ASSUME Tick \/ Sweep PROVE IInv'
  BY <1>2, TickInv, SweepInv
<1>3. ASSUME NEW p \in Client, Arrives(p) PROVE IInv'
  BY <1>3, DeleteBeginInv, ExportBeginInv DEF Arrives
<1>4. ASSUME NEW p \in Client, Exports(p) \/ Deletes(p) PROVE IInv'
  BY <1>4, ExportHoldInv, ExportRefusedInv, InsertInv, InsertRejectedInv, DropHoldInv,
     SetAbortHandleInv, DeleteCancelsJobsInv, DeleteDisconnectsInv DEF Exports, Deletes
<1>5. ASSUME NEW j \in Job, Cancel(j) \/ Works(j) \/ Answer(j) PROVE IInv'
  BY <1>5, CancelInv, StartInv, CallInv, FinishInv, AbortInv, LeaveInv, AnswerInv DEF Works
<1>6. CASE UNCHANGED vars
  BY <1>6 DEF vars, IInv, TypeOK, RecordsConsistent, Lifecycle, Requested, RecordFits, Finished,
              HeldBy
<1> QED  BY <1>1, <1>2, <1>3, <1>4, <1>5, <1>6 DEF Next

\* The invariant holds throughout.
LEMMA InvHolds == Spec => []IInv
BY InitInv, NextInv, PTL DEF Spec

\* Type correctness of the job model for every instance.
THEOREM TypeCorrect == Spec => []TypeOK
<1>1. IInv => TypeOK
  BY DEF IInv
<1> QED  BY <1>1, InvHolds, PTL

\* Record of a job: a result exactly for success, a time to be purged exactly for
\* terminal jobs, no handle for a job that is over, however requests, workers and
\* the reaper interleave.
THEOREM RecordsStayConsistent == Spec => []RecordsConsistent
<1>1. IInv => RecordsConsistent
  BY DEF IInv
<1> QED  BY <1>1, InvHolds, PTL

\* run_report_export_job keeps its SessionHold until its job is terminal: from
\* before it is queued, an unfinished job holds its session and no other.
THEOREM UnfinishedJobsHold == Spec => []UnfinishedJobHolds
<1>1. IInv => UnfinishedJobHolds
  BY DEF IInv, TypeOK, Lifecycle, RecordFits, UnfinishedJobHolds
<1> QED  BY <1>1, InvHolds, PTL

-----------------------------------------------------------------------------
(* The bound of the table *)

\* Only insert_job adds a job, and it counts what is left after purging.
LEMMA BoundStep == TypeOK /\ JobsBounded /\ [Next]_vars => JobsBounded'
<1> SUFFICES ASSUME TypeOK, JobsBounded, [Next]_vars PROVE JobsBounded'
  OBVIOUS
<1>1. IsFiniteSet(DOMAIN jobs) /\ Cardinality(DOMAIN jobs) \in Nat
  BY FS_Subset, FS_CardinalityType, JobsAssumption DEF TypeOK
<1>2. ASSUME DOMAIN jobs' \subseteq DOMAIN jobs PROVE JobsBounded'
  <2>1. Cardinality(DOMAIN jobs') <= Cardinality(DOMAIN jobs) /\ IsFiniteSet(DOMAIN jobs')
    BY <1>1, <1>2, FS_Subset
  <2>2. Cardinality(DOMAIN jobs') \in Nat
    BY <2>1, FS_CardinalityType
  <2> QED  BY <1>1, <2>1, <2>2, JobsAssumption DEF JobsBounded
<1>3. ASSUME NEW p \in Client, Insert(p) PROVE JobsBounded'
  <2>1. Cardinality(Unexpired) < MaxJobs /\ DOMAIN jobs' = Unexpired \cup {client[p].job}
    BY <1>3 DEF Insert
  <2>2. IsFiniteSet(Unexpired)
    BY <1>1, FS_Subset DEF Unexpired
  <2>3. /\ Cardinality(DOMAIN jobs') \in {Cardinality(Unexpired), Cardinality(Unexpired) + 1}
        /\ Cardinality(Unexpired) \in Nat
    BY <2>1, <2>2, FS_AddElement, FS_CardinalityType
  <2> QED  BY <2>1, <2>3, JobsAssumption DEF JobsBounded
<1>4. ASSUME NEW p \in Client, Exports(p), ~Insert(p) PROVE DOMAIN jobs' \subseteq DOMAIN jobs
  BY <1>4 DEF Exports, ExportHold, ExportRefused, InsertRejected, DropHold, SetAbortHandle,
              Purged, Unexpired, Restrict
<1>5. ASSUME NEW p \in Client, Arrives(p) \/ Deletes(p) PROVE DOMAIN jobs' \subseteq DOMAIN jobs
  BY <1>5 DEF Arrives, DeleteBegin, ExportBegin, Deletes, DeleteCancelsJobs, DeleteDisconnects,
              CancelAll, Unexpired
<1>6. ASSUME NEW j \in Job, Cancel(j) \/ Works(j) \/ Answer(j)
      PROVE  DOMAIN jobs' \subseteq DOMAIN jobs
  BY <1>6 DEF Cancel, CancelAll, Unexpired, Works, Start, Call, Finish, Abort, Leave, Answer
<1>7. ASSUME NEW s \in Session, OpenSession(s) \/ ExpireSession(s)
      PROVE  DOMAIN jobs' \subseteq DOMAIN jobs
  BY <1>7 DEF OpenSession, ExpireSession
<1>8. ASSUME Tick \/ Sweep PROVE DOMAIN jobs' \subseteq DOMAIN jobs
  BY <1>8 DEF Tick, Sweep, Purged, Unexpired, Restrict
<1>9. CASE UNCHANGED vars
  BY <1>2, <1>9 DEF vars
<1> QED  BY <1>2, <1>3, <1>4, <1>5, <1>6, <1>7, <1>8, <1>9 DEF Next

\* insert_job never retains more than max_jobs_total jobs, whoever inserts when.
THEOREM TableBounded == Spec => []JobsBounded
<1>1. Init => JobsBounded
  BY FS_EmptySet, JobsAssumption DEF Init, JobsBounded
<1> QED  BY <1>1, BoundStep, TypeCorrect, PTL DEF Spec

-----------------------------------------------------------------------------
(* What a step may never do *)

\* What TerminalIsFinal says of a step.
Final ==
    \A j \in DOMAIN jobs :
       IF j \in DOMAIN jobs'
       THEN Finished(j) => jobs'[j].status = jobs[j].status
       ELSE Finished(j) /\ jobs[j].left = 0

\* A record is removed by purging alone, and written by a worker only if the job
\* is unfinished or Cancelled, which Start and Finish look at.
LEMMA FinalStep == IInv /\ [Next]_vars => Final
<1> SUFFICES ASSUME IInv, [Next]_vars PROVE Final
  OBVIOUS
<1> USE DEF Final
<1>0. \A j \in DOMAIN jobs \ Unexpired : Finished(j) /\ jobs[j].left = 0
  BY JobsAssumption DEF Unexpired, IInv, RecordsConsistent
<1>1. ASSUME UNCHANGED jobs PROVE Final
  BY <1>1
<1>2. ASSUME DOMAIN jobs' \cap DOMAIN jobs = Unexpired, \A j \in Unexpired : jobs'[j] = jobs[j]
      PROVE  Final
  BY <1>0, <1>2
<1>3. ASSUME NEW S, \A j \in S : ~Finished(j), CancelAll(S) PROVE Final
  BY <1>0, <1>3 DEF CancelAll, Unexpired
<1>4. ASSUME Tick PROVE Final
  BY <1>4 DEF Tick, IInv, TypeOK, JobRecord
<1>5. ASSUME Sweep PROVE Final
  BY <1>2, <1>5 DEF Sweep, Purged, Restrict, Unexpired
<1>6. ASSUME NEW p \in Client, Insert(p) PROVE Final
  <2>1. At(p, "insert") => client[p].job \notin DOMAIN jobs
    BY DEF At, IInv, Lifecycle, Requested
  <2> QED  BY <1>2, <1>6, <2>1 DEF Insert, Unexpired
<1>7. ASSUME NEW p \in Client, InsertRejected(p) PROVE Final
  BY <1>2, <1>7 DEF InsertRejected, Purged, Restrict, Unexpired
<1>8. ASSUME NEW p \in Client, SetAbortHandle(p) PROVE Final
  BY <1>8 DEF SetAbortHandle, IInv, TypeOK, JobRecord
<1>9. ASSUME NEW p \in Client,
             Arrives(p) \/ ExportHold(p) \/ ExportRefused(p) \/ DropHold(p) \/ DeleteDisconnects(p)
      PROVE  Final
  BY <1>1, <1>9 DEF Arrives, DeleteBegin, ExportBegin, ExportHold, ExportRefused, DropHold,
                    DeleteDisconnects
<1>10. ASSUME NEW p \in Client, DeleteCancelsJobs(p) PROVE Final
  BY <1>3, <1>10 DEF DeleteCancelsJobs
<1>11. ASSUME NEW j \in Job, Cancel(j) PROVE Final
  BY <1>3, <1>11 DEF Cancel
<1>12. ASSUME NEW j \in Job, Start(j) PROVE Final
  BY <1>12 DEF Start, Goes, IInv, TypeOK, JobRecord, Lifecycle, RecordFits, Finished, Terminal
<1>13. ASSUME NEW j \in Job, Finish(j) PROVE Final
  BY <1>13 DEF Finish, Goes, IInv, TypeOK, Lifecycle, RecordFits, Finished, Terminal
<1>14. ASSUME NEW j \in Job, Call(j) \/ Abort(j) \/ Leave(j) \/ Answer(j) PROVE Final
  BY <1>1, <1>14 DEF Call, Abort, Leave, Answer
<1>15. ASSUME NEW s \in Session, OpenSession(s) \/ ExpireSession(s) PROVE Final
  BY <1>1, <1>15 DEF OpenSession, ExpireSession
<1>16. CASE UNCHANGED vars
  BY <1>1, <1>16 DEF vars
<1> QED  BY <1>4, <1>5, <1>6, <1>7, <1>8, <1>9, <1>10, <1>11, <1>12, <1>13, <1>14, <1>15, <1>16
         DEF Next, Exports, Deletes, Works

\* mark_job_running, mark_job_succeeded and mark_job_failed never overwrite a
\* terminal status, and a job leaves the table only when its retention is over.
THEOREM TerminalStatusIsFinal == Spec => TerminalIsFinal
<1>1. IInv /\ [Next]_vars => Final
  BY FinalStep
<1> QED  BY <1>1, InvHolds, PTL DEF Spec, TerminalIsFinal, Final

\* report-exports.yaml: "A running export keeps the creating session active":
\* a session with an unfinished job leaves the registry by delete_session alone.
ExportKeepsSession ==
    [][\A j \in DOMAIN jobs :
          LET s == jobs[j].session IN
          ~Finished(j) /\ s \in live /\ s \notin live' => \E p \in Client : DeleteBegin(p, s)]_vars

\* Idle expiry never takes the session of an export that is queued or running.
THEOREM ExportsKeepSessions == Spec => ExportKeepsSession
<1> DEFINE Kept == \A j \in DOMAIN jobs :
                     LET s == jobs[j].session IN
                     ~Finished(j) /\ s \in live /\ s \notin live'
                        => \E p \in Client : DeleteBegin(p, s)
<1>1. IInv /\ [Next]_vars => Kept
  <2> SUFFICES ASSUME IInv, [Next]_vars, NEW j \in DOMAIN jobs, NEW s, s = jobs[j].session,
                      ~Finished(j), s \in live, s \notin live'
               PROVE  \E p \in Client : DeleteBegin(p, s)
    OBVIOUS
  <2>1. s \in Session /\ j \in Job /\ j \in held[s]
    <3>1. HeldBy(j) = {s} /\ j \in Job
      BY DEF IInv, TypeOK, Lifecycle, RecordFits
    <3> QED  BY <3>1 DEF HeldBy
  <2>2. ASSUME NEW t \in Session, OpenSession(t) PROVE FALSE
    BY <2>2 DEF OpenSession, Registry!Open
  <2>3. ASSUME NEW t \in Session, ExpireSession(t) PROVE FALSE
    BY <2>1, <2>3 DEF ExpireSession, Registry!Drain
  <2>4. ASSUME NEW p \in Client, NEW t \in Session, DeleteBegin(p, t) PROVE t = s
    BY <2>4 DEF DeleteBegin, Registry!Close
  <2>5. ASSUME \/ Tick \/ Sweep
               \/ \E p \in Client : \/ \E t \in Session, i \in Job : ExportBegin(p, t, i)
                                    \/ Exports(p) \/ Deletes(p)
               \/ \E i \in Job : Cancel(i) \/ Works(i) \/ Answer(i)
               \/ UNCHANGED vars
        PROVE  live' = live
    BY <2>5 DEF Tick, Sweep, ExportBegin, Exports, ExportHold, ExportRefused, Insert,
                InsertRejected, DropHold, SetAbortHandle, Deletes, DeleteCancelsJobs,
                DeleteDisconnects, Cancel, Works, Start, Call, Finish, Abort, Leave, Answer,
                Registry!Join, Registry!Leave, Registry!Closed, vars
  <2> QED  BY <2>2, <2>3, <2>4, <2>5 DEF Next, Arrives
<1> QED  BY <1>1, InvHolds, PTL DEF Spec, ExportKeepsSession
=============================================================================
