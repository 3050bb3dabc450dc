---------------------------- MODULE RateLimiter ----------------------------
(***************************************************************************)
(* Fixed-window rate limiting of the REST surface: one table of buckets    *)
(* under one mutex, checked twice per request, for the whole gateway and   *)
(* for the request's subject, by one reading of the clock that may be      *)
(* stale when the lock is taken.                                           *)
(***************************************************************************)
EXTENDS Integers, FiniteSets, Functions

CONSTANTS
    Thread,        \* tasks inside security_middleware
    Subject,       \* rate_limit_subject of a request
    Global,        \* the key "global"
    NoLimit,       \* a limit of None
    Window,        \* window_secs
    GlobalLimit,   \* global_per_window
    SubjectLimit,  \* subject_per_window
    MaxBuckets,    \* MAX_RATE_LIMIT_BUCKETS
    MaxLatency,    \* longest time between reading the clock and the second check
    MaxTime        \* bound: the last tick of the clock

Key == Subject \cup {Global}

ASSUME RateLimiterAssumption ==
    /\ Global \notin Subject
    /\ NoLimit \notin Nat
    /\ GlobalLimit \in Nat \cup {NoLimit} /\ SubjectLimit \in Nat \cup {NoLimit}
    /\ Window \in Nat /\ MaxLatency \in Nat /\ MaxTime \in Nat
    /\ MaxBuckets \in Nat \ {0}

VARIABLES
    clock,    \* the wall clock, in seconds
    buckets,  \* RateLimitState::buckets: where each key's window started, and its count
    pruned,   \* RateLimitState::last_pruned_at
    thread    \* the check each request is at, its subject and its reading of the clock

vars == <<clock, buckets, pruned, thread>>

Bucket == [start : Nat, count : Nat]

Idle == [at |-> "idle", key |-> Global, now |-> 0]

Init ==
    /\ clock = 0 /\ pruned = 0
    /\ buckets = [k \in {} |-> 0]
    /\ thread = [p \in Thread |-> Idle]

Tick ==
    /\ clock < MaxTime
    /\ \A p \in Thread : thread[p].at # "idle" => clock - thread[p].now < MaxLatency
    /\ clock' = clock + 1
    /\ UNCHANGED <<buckets, pruned, thread>>

-----------------------------------------------------------------------------
(* The table *)

SaturatingSub(m, n) == IF m >= n THEN m - n ELSE 0

\* A window lasts at least a second.
WindowSecs == IF Window = 0 THEN 1 ELSE Window

\* Mutant: a reading before the start of the window wraps around, as u64 does.
OverWrapping(b, n) == n < b.start \/ n - b.start >= WindowSecs

\* The window of a bucket is over.
Over(b, n) == SaturatingSub(n, b.start) >= WindowSecs

Full(T) == Cardinality(DOMAIN T) >= MaxBuckets

\* Expired buckets are pruned once a second, and when a new key needs room.
Prunes(k, n) ==
    \/ SaturatingSub(n, pruned) >= 1
    \/ k \notin DOMAIN buckets /\ Full(buckets)

\* The table a check works on.
Table(k, n) ==
    IF Prunes(k, n)
    THEN Restrict(buckets, {x \in DOMAIN buckets : ~Over(buckets[x], n)})
    ELSE buckets

\* Mutant: the window that begins anew is dated to the end of the one before.
CurrentBackdated(T, k, n) ==
    IF k \notin DOMAIN T \/ Over(T[k], n) THEN [start |-> n - WindowSecs, count |-> 0] ELSE T[k]

\* The bucket of a key by a reading of the clock: a window that is over begins anew.
Current(T, k, n) ==
    IF k \notin DOMAIN T \/ Over(T[k], n) THEN [start |-> n, count |-> 0] ELSE T[k]

\* Mutant: a key is refused only when the table has more buckets than it may.
NoRoomOffByOne(T, k) == k \notin DOMAIN T /\ Cardinality(DOMAIN T) > MaxBuckets

NoRoom(T, k) == k \notin DOMAIN T /\ Full(T)

\* Mutant: the time that is left is rounded down to the last full second.
RetryAfterShort(b, n) == SaturatingSub(WindowSecs, SaturatingSub(n, b.start) + 1)

RetryAfter(b, n) ==
    LET left == SaturatingSub(WindowSecs, SaturatingSub(n, b.start))
    IN  IF left = 0 THEN 1 ELSE left

-----------------------------------------------------------------------------
(* check_key *)

Exhausted(k, limit, n) ==
    LET T == Table(k, n) IN ~NoRoom(T, k) /\ Current(T, k, n).count >= limit

\* The key has used its window up, or there is no room for its bucket.
CheckRejects(k, limit, n) ==
    LET T == Table(k, n) IN
    IF limit = 0
    THEN UNCHANGED <<buckets, pruned>>
    ELSE /\ NoRoom(T, k) \/ Exhausted(k, limit, n)
         /\ buckets' = T
         /\ pruned' = IF Prunes(k, n) THEN n ELSE pruned

CheckPasses(k, limit, n) ==
    LET T == Table(k, n)
        b == Current(T, k, n) IN
    /\ limit # 0 /\ ~NoRoom(T, k) /\ b.count < limit
    /\ buckets' = [x \in DOMAIN T \cup {k} |->
                       IF x = k THEN [b EXCEPT !.count = @ + 1] ELSE T[x]]
    /\ pruned' = IF Prunes(k, n) THEN n ELSE pruned

-----------------------------------------------------------------------------
(* check_request *)

Goes(p, place, k, n) == thread' = [thread EXCEPT ![p] = [at |-> place, key |-> k, now |-> n]]
Answers(p) == thread' = [thread EXCEPT ![p] = Idle]

ChecksSubject(p, k, n) == IF SubjectLimit = NoLimit THEN Answers(p) ELSE Goes(p, "subject", k, n)

Arrive(p, k) ==
    /\ thread[p].at = "idle"
    /\ IF GlobalLimit = NoLimit
       THEN ChecksSubject(p, k, clock)
       ELSE Goes(p, "global", k, clock)
    /\ UNCHANGED <<clock, buckets, pruned>>

\* The global budget is charged before the subject's is looked at.
PassGlobal(p) ==
    /\ thread[p].at = "global"
    /\ CheckPasses(Global, GlobalLimit, thread[p].now)
    /\ ChecksSubject(p, thread[p].key, thread[p].now)
    /\ UNCHANGED clock

RejectGlobal(p) ==
    /\ thread[p].at = "global"
    /\ CheckRejects(Global, GlobalLimit, thread[p].now)
    /\ Answers(p)
    /\ UNCHANGED clock

PassSubject(p) ==
    /\ thread[p].at = "subject"
    /\ CheckPasses(thread[p].key, SubjectLimit, thread[p].now)
    /\ Answers(p)
    /\ UNCHANGED clock

RejectSubject(p) ==
    /\ thread[p].at = "subject"
    /\ CheckRejects(thread[p].key, SubjectLimit, thread[p].now)
    /\ Answers(p)
    /\ UNCHANGED clock

Next ==
    \/ Tick
    \/ \E p \in Thread :
          \/ \E k \in Subject : Arrive(p, k)
          \/ PassGlobal(p) \/ RejectGlobal(p) \/ PassSubject(p) \/ RejectSubject(p)

Spec == Init /\ [][Next]_vars

-----------------------------------------------------------------------------
(* Properties *)

LimitOf(k) == IF k = Global THEN GlobalLimit ELSE SubjectLimit

TypeOK ==
    /\ clock \in Nat /\ pruned \in Nat
    /\ DOMAIN buckets \subseteq Key
    /\ buckets \in [DOMAIN buckets -> Bucket]
    /\ thread \in [Thread -> [at : {"idle", "global", "subject"}, key : Key, now : Nat]]

\* The table never has more than MAX_RATE_LIMIT_BUCKETS buckets, whatever the
\* subjects and however stale the readings that prune it.
BucketsBounded == Cardinality(DOMAIN buckets) <= MaxBuckets

\* A budget lasts for a window: a bucket is dropped or begins anew only when
\* its window is over by the clock itself, not just by some reading of it, and
\* within the window its count only grows, up to the limit.
BudgetLastsWindow ==
    [][\A k \in DOMAIN buckets :
          clock < buckets[k].start + WindowSecs
              => /\ k \in DOMAIN buckets' /\ buckets'[k].start = buckets[k].start
                 /\ buckets'[k].count \in buckets[k].count .. LimitOf(k)]_vars

\* Whoever is turned away because its budget is used up and waits as long as
\* Retry-After says finds its window over, however stale the reading that the
\* answer was computed from; and it is never told to wait longer than a window.
RetryAfterSuffices ==
    \A p \in Thread :
        LET k == IF thread[p].at = "global" THEN Global ELSE thread[p].key
            n == thread[p].now
            b == Current(Table(k, n), k, n)
        IN  thread[p].at # "idle" /\ LimitOf(k) # 0 /\ Exhausted(k, LimitOf(k), n)
                => /\ clock + RetryAfter(b, n) >= b.start + WindowSecs
                   /\ RetryAfter(b, n) \in 1 .. WindowSecs
=============================================================================
