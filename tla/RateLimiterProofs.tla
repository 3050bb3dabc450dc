------------------------- MODULE RateLimiterProofs -------------------------
(***************************************************************************)
(* Theorems about RateLimiter, for any number of requests, subjects and    *)
(* buckets, any window and limits, and readings of the clock of any age.   *)
(*                                                                         *)
(* The argument is that no reading is ahead of the clock (Readings): by a  *)
(* reading that lags behind, a window can only seem younger than it is, so *)
(* that neither pruning nor a fresh start can cut it short.  Counts stay   *)
(* within the limit they are checked against (Counts), which has to be the *)
(* limit of that key: a subject is never charged as the key "global".      *)
(***************************************************************************)
EXTENDS RateLimiter, TLAPS, FiniteSetTheorems

-----------------------------------------------------------------------------
(* The inductive invariant *)

\* Nothing is dated later than the clock.
Readings ==
    /\ pruned <= clock
    /\ \A p \in Thread : thread[p].now <= clock
    /\ \A k \in DOMAIN buckets : buckets[k].start <= clock

\* A check is made only if there is a limit, and of the key the limit is for.
Checks ==
    \A p \in Thread :
        /\ thread[p].at = "global" => GlobalLimit \in Nat
        /\ thread[p].at = "subject" => SubjectLimit \in Nat
        /\ thread[p].at # "idle" => thread[p].key \in Subject

Counts ==
    \A k \in DOMAIN buckets : LimitOf(k) \in Nat /\ buckets[k].count <= LimitOf(k)

IInv == TypeOK /\ Readings /\ Checks /\ Counts

-----------------------------------------------------------------------------
(* The operators *)

\* A window lasts at least a second, and so does the advice to wait.
LEMMA WindowPositive == WindowSecs \in Nat \ {0}
BY RateLimiterAssumption DEF WindowSecs

\* What a bucket's window being over means.
LEMMA OverMeans ==
  ASSUME NEW b \in Bucket, NEW n \in Nat
  PROVE  Over(b, n) <=> n >= b.start + WindowSecs
BY WindowPositive DEF Over, SaturatingSub, Bucket

\* The table a check works on is a part of the buckets, with every bucket whose
\* window is not over by the reading.
LEMMA TableMeans ==
  ASSUME TypeOK, NEW k \in Key, NEW n \in Nat
  PROVE  /\ DOMAIN Table(k, n) \subseteq DOMAIN buckets
         /\ Table(k, n) \in [DOMAIN Table(k, n) -> Bucket]
         /\ \A x \in DOMAIN Table(k, n) : Table(k, n)[x] = buckets[x]
         /\ \A x \in DOMAIN buckets :
               n < buckets[x].start + WindowSecs => x \in DOMAIN Table(k, n)
<1>1. CASE Prunes(k, n)
  <2> DEFINE D == {x \in DOMAIN buckets : ~Over(buckets[x], n)}
  <2>1. Table(k, n) = [x \in D |-> buckets[x]]
    BY <1>1 DEF Table, Restrict
  <2>2. \A x \in DOMAIN buckets : buckets[x] \in Bucket /\ buckets[x].start \in Nat
    BY DEF TypeOK, Bucket
  <2>3. \A x \in DOMAIN buckets : n < buckets[x].start + WindowSecs => x \in D
    BY <2>2, OverMeans, WindowPositive
  <2> HIDE DEF D
  <2>4. D \subseteq DOMAIN buckets
    BY DEF D
  <2> QED  BY <2>1, <2>2, <2>3, <2>4
<1>2. CASE ~Prunes(k, n)
  BY <1>2 DEF Table, TypeOK
<1> QED  BY <1>1, <1>2

\* The bucket of a key is the one in the table or a fresh one.
LEMMA CurrentMeans ==
  ASSUME TypeOK, NEW k \in Key, NEW n \in Nat
  PROVE  LET T == Table(k, n)
             b == Current(T, k, n)
         IN  /\ b \in Bucket
             /\ \/ /\ k \in DOMAIN buckets /\ k \in DOMAIN T /\ b = buckets[k]
                   /\ n < b.start + WindowSecs
                \/ /\ b = [start |-> n, count |-> 0]
                   /\ k \in DOMAIN buckets => n >= buckets[k].start + WindowSecs
<1> DEFINE T == Table(k, n)
<1>1. /\ DOMAIN T \subseteq DOMAIN buckets
      /\ \A x \in DOMAIN T : T[x] = buckets[x] /\ T[x] \in Bucket
      /\ \A x \in DOMAIN buckets : n < buckets[x].start + WindowSecs => x \in DOMAIN T
  BY TableMeans
<1> HIDE DEF T
<1>2. [start |-> n, count |-> 0] \in Bucket
  BY DEF Bucket
<1>3. \A x \in DOMAIN buckets : buckets[x].start \in Nat
  BY DEF TypeOK, Bucket
<1>4. CASE k \in DOMAIN T /\ ~Over(T[k], n)
  BY <1>1, <1>3, <1>4, OverMeans, WindowPositive DEF Current, T
<1>5. CASE ~(k \in DOMAIN T /\ ~Over(T[k], n))
  <2>1. k \in DOMAIN buckets => n >= buckets[k].start + WindowSecs
    BY <1>1, <1>3, <1>5, OverMeans, WindowPositive
  <2> QED  BY <1>2, <1>5, <2>1 DEF Current, T
<1> QED  BY <1>4, <1>5

-----------------------------------------------------------------------------
(* A check *)

\* A rejected check leaves a part of the table.
LEMMA RejectKeeps ==
  ASSUME TypeOK, NEW k \in Key, NEW n \in Nat, NEW limit \in Nat, CheckRejects(k, limit, n)
  PROVE  /\ DOMAIN buckets' \subseteq DOMAIN buckets
         /\ buckets' \in [DOMAIN buckets' -> Bucket]
         /\ \A x \in DOMAIN buckets' : buckets'[x] = buckets[x]
         /\ \A x \in DOMAIN buckets :
               n < buckets[x].start + WindowSecs => x \in DOMAIN buckets'
         /\ pruned' \in {pruned, n}
<1>1. CASE limit = 0
  BY <1>1 DEF CheckRejects, TypeOK
<1>2. CASE limit # 0
  <2>1. buckets' = Table(k, n) /\ pruned' \in {pruned, n}
    BY <1>2 DEF CheckRejects
  <2> QED  BY <2>1, TableMeans
<1> QED  BY <1>1, <1>2

\* A check that passes charges one bucket within its limit.
LEMMA PassCharges ==
  ASSUME TypeOK, NEW k \in Key, NEW n \in Nat, NEW limit \in Nat, CheckPasses(k, limit, n)
  PROVE  /\ DOMAIN buckets' \subseteq DOMAIN buckets \cup {k} /\ k \in DOMAIN buckets'
         /\ buckets' \in [DOMAIN buckets' -> Bucket]
         /\ \A x \in DOMAIN buckets' \ {k} : x \in DOMAIN buckets /\ buckets'[x] = buckets[x]
         /\ \A x \in DOMAIN buckets :
               n < buckets[x].start + WindowSecs => x \in DOMAIN buckets'
         /\ buckets'[k].count <= limit
         /\ \/ /\ k \in DOMAIN buckets /\ buckets'[k].start = buckets[k].start
               /\ buckets'[k].count = buckets[k].count + 1
            \/ /\ buckets'[k].start = n
               /\ k \in DOMAIN buckets => n >= buckets[k].start + WindowSecs
         /\ pruned' \in {pruned, n}
<1> DEFINE T == Table(k, n)
           b == Current(T, k, n)
<1>1. /\ b.count < limit
      /\ buckets' = [x \in DOMAIN T \cup {k} |-> IF x = k THEN [b EXCEPT !.count = @ + 1] ELSE T[x]]
      /\ pruned' \in {pruned, n}
  BY DEF CheckPasses
<1>2. /\ DOMAIN T \subseteq DOMAIN buckets /\ T \in [DOMAIN T -> Bucket]
      /\ \A x \in DOMAIN T : T[x] = buckets[x]
      /\ \A x \in DOMAIN buckets : n < buckets[x].start + WindowSecs => x \in DOMAIN T
  BY TableMeans
<1>3. /\ b \in Bucket
      /\ \/ k \in DOMAIN buckets /\ b = buckets[k]
         \/ b.start = n /\ (k \in DOMAIN buckets => n >= buckets[k].start + WindowSecs)
  BY CurrentMeans
<1> HIDE DEF T, b
<1>4. /\ [b EXCEPT !.count = @ + 1] \in Bucket /\ [b EXCEPT !.count = @ + 1].start = b.start
      /\ [b EXCEPT !.count = @ + 1].count = b.count + 1 /\ b.count \in Nat
  BY <1>3 DEF Bucket
<1>5. DOMAIN buckets' = DOMAIN T \cup {k} /\ buckets'[k] = [b EXCEPT !.count = @ + 1]
  BY <1>1
<1>6. \A x \in DOMAIN T \ {k} : buckets'[x] = T[x]
  BY <1>1
<1>7. buckets' \in [DOMAIN buckets' -> Bucket]
  BY <1>1, <1>2, <1>4
<1>8. buckets'[k].count <= limit
  <2>1. buckets'[k].count = b.count + 1
    BY <1>4, <1>5
  <2> QED  BY <1>1, <1>4, <2>1
<1> QED  BY <1>1, <1>2, <1>3, <1>4, <1>5, <1>6, <1>7, <1>8
-----------------------------------------------------------------------------
(* The steps *)

\* The request at a check, which key it checks and against which limit.
Checking(p, place, k, limit) ==
    /\ p \in Thread /\ thread[p].at = place
    /\ \/ place = "global" /\ k = Global /\ limit = GlobalLimit
       \/ place = "subject" /\ k = thread[p].key /\ limit = SubjectLimit

\* The key of a check is charged against its own limit.
LEMMA CheckingMeans ==
  ASSUME IInv, NEW p, NEW place, NEW k, NEW limit, Checking(p, place, k, limit)
  PROVE  /\ k \in Key /\ limit \in Nat /\ LimitOf(k) = limit
         /\ thread[p].now \in Nat /\ thread[p].now <= clock
BY RateLimiterAssumption DEF Checking, IInv, TypeOK, Readings, Checks, Key, LimitOf

\* After a check the request is done or goes on to the check of its subject.
LEMMA ThreadSteps ==
  ASSUME IInv, NEW p \in Thread, NEW k \in Subject, NEW n \in Nat, n <= clock,
         \/ Answers(p)
         \/ ChecksSubject(p, k, n)
         \/ Goes(p, "global", k, n) /\ GlobalLimit # NoLimit
  PROVE  /\ thread' \in [Thread -> [at : {"idle", "global", "subject"}, key : Key, now : Nat]]
         /\ \A q \in Thread : /\ thread'[q].now <= clock
                              /\ thread'[q].at = "global" => GlobalLimit \in Nat
                              /\ thread'[q].at = "subject" => SubjectLimit \in Nat
                              /\ thread'[q].at # "idle" => thread'[q].key \in Subject
<1> USE RateLimiterAssumption DEF IInv, TypeOK, Readings, Checks, Key
<1>1. CASE Answers(p)
  BY <1>1 DEF Answers, Idle
<1>2. CASE Goes(p, "global", k, n) /\ GlobalLimit # NoLimit
  BY <1>2 DEF Goes
<1>3. CASE Goes(p, "subject", k, n) /\ SubjectLimit # NoLimit
  BY <1>3 DEF Goes
<1> QED  BY <1>1, <1>2, <1>3 DEF ChecksSubject

\* A check that is rejected preserves the invariant, ...
LEMMA RejectInv ==
  ASSUME IInv, NEW p, NEW place, NEW k, NEW limit, Checking(p, place, k, limit),
         CheckRejects(k, limit, thread[p].now), Answers(p), UNCHANGED clock
  PROVE  IInv'
<1> DEFINE n == thread[p].now
<1>1. /\ k \in Key /\ limit \in Nat /\ n \in Nat /\ n <= clock
      /\ p \in Thread /\ thread[p].key \in Subject
  BY CheckingMeans DEF Checking, IInv, Checks
<1>2. /\ DOMAIN buckets' \subseteq DOMAIN buckets /\ buckets' \in [DOMAIN buckets' -> Bucket]
      /\ \A x \in DOMAIN buckets' : buckets'[x] = buckets[x]
      /\ pruned' \in {pruned, n}
  BY <1>1, RejectKeeps DEF IInv
<1>3. /\ thread' \in [Thread -> [at : {"idle", "global", "subject"}, key : Key, now : Nat]]
      /\ \A q \in Thread : /\ thread'[q].now <= clock
                           /\ thread'[q].at = "global" => GlobalLimit \in Nat
                           /\ thread'[q].at = "subject" => SubjectLimit \in Nat
                           /\ thread'[q].at # "idle" => thread'[q].key \in Subject
  BY <1>1, ThreadSteps
<1>4. TypeOK'
  BY <1>1, <1>2, <1>3 DEF IInv, TypeOK
<1>5. Readings' /\ Checks' /\ Counts'
  BY <1>1, <1>2, <1>3 DEF IInv, Readings, Checks, Counts, LimitOf
<1> QED  BY <1>4, <1>5 DEF IInv

\* ... and so does one that passes.
LEMMA PassInv ==
  ASSUME IInv, NEW p, NEW place, NEW k, NEW limit, Checking(p, place, k, limit),
         CheckPasses(k, limit, thread[p].now), UNCHANGED clock,
         Answers(p) \/ ChecksSubject(p, thread[p].key, thread[p].now)
  PROVE  IInv'
<1> DEFINE n == thread[p].now
<1>1. /\ k \in Key /\ limit \in Nat /\ LimitOf(k) = limit /\ n \in Nat /\ n <= clock
      /\ p \in Thread /\ thread[p].key \in Subject
  BY CheckingMeans DEF Checking, IInv, Checks
<1>2. /\ DOMAIN buckets' \subseteq DOMAIN buckets \cup {k}
      /\ buckets' \in [DOMAIN buckets' -> Bucket]
      /\ \A x \in DOMAIN buckets' \ {k} : x \in DOMAIN buckets /\ buckets'[x] = buckets[x]
      /\ buckets'[k].count <= limit
      /\ \/ k \in DOMAIN buckets /\ buckets'[k].start = buckets[k].start
         \/ buckets'[k].start = n
      /\ pruned' \in {pruned, n}
  BY <1>1, PassCharges DEF IInv
<1>3. /\ thread' \in [Thread -> [at : {"idle", "global", "subject"}, key : Key, now : Nat]]
      /\ \A q \in Thread : /\ thread'[q].now <= clock
                           /\ thread'[q].at = "global" => GlobalLimit \in Nat
                           /\ thread'[q].at = "subject" => SubjectLimit \in Nat
                           /\ thread'[q].at # "idle" => thread'[q].key \in Subject
  BY <1>1, ThreadSteps
<1>4. TypeOK'
  BY <1>1, <1>2, <1>3 DEF IInv, TypeOK
<1>5. Readings' /\ Checks'
  BY <1>1, <1>2, <1>3 DEF IInv, Readings, Checks
<1>6. Counts'
  BY <1>1, <1>2 DEF IInv, Counts, LimitOf
<1> QED  BY <1>4, <1>5, <1>6 DEF IInv

\* A step is the clock's, an arrival, or a check.
LEMMA StepIsCheck ==
  ASSUME NEW p \in Thread
  PROVE  /\ RejectGlobal(p) => Checking(p, "global", Global, GlobalLimit)
         /\ PassGlobal(p) => Checking(p, "global", Global, GlobalLimit)
         /\ RejectSubject(p) => Checking(p, "subject", thread[p].key, SubjectLimit)
         /\ PassSubject(p) => Checking(p, "subject", thread[p].key, SubjectLimit)
BY DEF Checking, RejectGlobal, PassGlobal, RejectSubject, PassSubject

\* The table is empty at first.
LEMMA InitInv == Init => IInv
BY RateLimiterAssumption DEF Init, IInv, TypeOK, Readings, Checks, Counts, Idle, Key

\* Every step preserves the invariant.
LEMMA NextInv == IInv /\ [Next]_vars => IInv'
<1> SUFFICES ASSUME IInv, [Next]_vars PROVE IInv'
  OBVIOUS
<1>1. ASSUME Tick PROVE IInv'
  BY <1>1 DEF Tick, IInv, TypeOK, Readings, Checks, Counts, LimitOf, Bucket
<1>2. ASSUME NEW p \in Thread, NEW k \in Subject, Arrive(p, k) PROVE IInv'
  <2>1. clock \in Nat /\ clock <= clock /\ UNCHANGED <<clock, buckets, pruned>>
    BY <1>2 DEF Arrive, IInv, TypeOK
  <2>2. /\ thread' \in [Thread -> [at : {"idle", "global", "subject"}, key : Key, now : Nat]]
        /\ \A q \in Thread : /\ thread'[q].now <= clock
                             /\ thread'[q].at = "global" => GlobalLimit \in Nat
                             /\ thread'[q].at = "subject" => SubjectLimit \in Nat
                             /\ thread'[q].at # "idle" => thread'[q].key \in Subject
    BY <1>2, <2>1, ThreadSteps DEF Arrive
  <2> QED  BY <2>1, <2>2 DEF IInv, TypeOK, Readings, Checks, Counts, LimitOf
<1>3. ASSUME NEW p \in Thread, RejectGlobal(p) \/ RejectSubject(p) PROVE IInv'
  BY <1>3, StepIsCheck, RejectInv DEF RejectGlobal, RejectSubject
<1>4. ASSUME NEW p \in Thread, PassGlobal(p) \/ PassSubject(p) PROVE IInv'
  BY <1>4, StepIsCheck, PassInv DEF PassGlobal, PassSubject
<1>5. CASE UNCHANGED vars
  BY <1>5 DEF vars, IInv, TypeOK, Readings, Checks, Counts, LimitOf
<1> QED  BY <1>1, <1>2, <1>3, <1>4, <1>5 DEF Next

\* The invariant holds throughout.
LEMMA InvHolds == Spec => []IInv
BY InitInv, NextInv, PTL DEF Spec

-----------------------------------------------------------------------------
(* Theorems *)

\* Type correctness of the rate limiter for every instance.
THEOREM TypeCorrect == Spec => []TypeOK
<1>1. IInv => TypeOK
  BY DEF IInv
<1> QED  BY <1>1, InvHolds, PTL

\* The Retry-After of check_key suffices and is at most a window, however stale
\* the reading it was computed from.
THEOREM RetryAfterIsEnough == Spec => []RetryAfterSuffices
<1>1. IInv => RetryAfterSuffices
  <2> SUFFICES ASSUME IInv, NEW p \in Thread,
                      NEW k, k = IF thread[p].at = "global" THEN Global ELSE thread[p].key,
                      NEW n, n = thread[p].now,
                      NEW b, b = Current(Table(k, n), k, n),
                      thread[p].at # "idle", LimitOf(k) # 0, Exhausted(k, LimitOf(k), n)
               PROVE  /\ clock + RetryAfter(b, n) >= b.start + WindowSecs
                      /\ RetryAfter(b, n) \in 1 .. WindowSecs
    BY DEF RetryAfterSuffices
  <2>1. k \in Key /\ n \in Nat /\ n <= clock /\ clock \in Nat /\ LimitOf(k) \in Nat
    BY RateLimiterAssumption DEF IInv, TypeOK, Readings, Checks, Key, LimitOf
  <2>2. b.count >= LimitOf(k) /\ b \in Bucket
    BY <2>1, CurrentMeans DEF Exhausted, IInv
  <2>3. k \in DOMAIN buckets /\ b = buckets[k] /\ n < b.start + WindowSecs
    <3>1. b # [start |-> n, count |-> 0]
      BY <2>1, <2>2
    <3> QED  BY <2>1, <3>1, CurrentMeans DEF IInv
  <2>4. b.start \in Nat /\ b.start <= clock
    BY <2>2, <2>3 DEF IInv, Readings, Bucket
  <2> QED  BY <2>1, <2>3, <2>4, WindowPositive DEF RetryAfter, SaturatingSub
<1> QED  BY <1>1, InvHolds, PTL

\* A bucket is dropped or begins anew only when its window is over by the clock.
THEOREM BudgetsLastTheirWindow == Spec => BudgetLastsWindow
<1> DEFINE Lasts == \A k \in DOMAIN buckets :
                      clock < buckets[k].start + WindowSecs
                        => /\ k \in DOMAIN buckets' /\ buckets'[k].start = buckets[k].start
                           /\ buckets'[k].count \in buckets[k].count .. LimitOf(k)
<1>1. IInv /\ [Next]_vars => Lasts
  <2> SUFFICES ASSUME IInv, [Next]_vars, NEW x \in DOMAIN buckets,
                      clock < buckets[x].start + WindowSecs
               PROVE  /\ x \in DOMAIN buckets' /\ buckets'[x].start = buckets[x].start
                      /\ buckets'[x].count \in buckets[x].count .. LimitOf(x)
    OBVIOUS
  <2>0. /\ buckets[x].start \in Nat /\ buckets[x].count \in Nat /\ clock \in Nat
        /\ LimitOf(x) \in Nat /\ buckets[x].count <= LimitOf(x) /\ WindowSecs \in Nat
    BY WindowPositive DEF IInv, TypeOK, Counts, Bucket
  <2>1. ASSUME x \in DOMAIN buckets', buckets'[x] = buckets[x]
        PROVE  /\ x \in DOMAIN buckets' /\ buckets'[x].start = buckets[x].start
               /\ buckets'[x].count \in buckets[x].count .. LimitOf(x)
    BY <2>0, <2>1
  <2>2. ASSUME NEW p, NEW place, NEW k, NEW limit, Checking(p, place, k, limit),
               CheckRejects(k, limit, thread[p].now)
        PROVE  x \in DOMAIN buckets' /\ buckets'[x] = buckets[x]
    <3>1. k \in Key /\ limit \in Nat /\ thread[p].now \in Nat /\ thread[p].now <= clock
      BY <2>2, CheckingMeans
    <3>2. thread[p].now < buckets[x].start + WindowSecs
      BY <2>0, <3>1
    <3> QED  BY <2>2, <3>1, <3>2, RejectKeeps DEF IInv
  <2>3. ASSUME NEW p, NEW place, NEW k, NEW limit, Checking(p, place, k, limit),
               CheckPasses(k, limit, thread[p].now)
        PROVE  /\ x \in DOMAIN buckets' /\ buckets'[x].start = buckets[x].start
               /\ buckets'[x].count \in buckets[x].count .. LimitOf(x)
    <3>1. /\ k \in Key /\ limit \in Nat /\ LimitOf(k) = limit
          /\ thread[p].now \in Nat /\ thread[p].now <= clock
      BY <2>3, CheckingMeans
    <3>2. thread[p].now < buckets[x].start + WindowSecs
      BY <2>0, <3>1
    <3>3. CASE x # k
      BY <2>1, <2>3, <3>1, <3>2, <3>3, PassCharges DEF IInv
    <3>4. CASE x = k
      <4>1. /\ k \in DOMAIN buckets' /\ buckets'[k].count <= limit
            /\ \/ /\ buckets'[k].start = buckets[k].start
                  /\ buckets'[k].count = buckets[k].count + 1
               \/ thread[p].now >= buckets[k].start + WindowSecs
        BY <2>3, <3>1, <3>4, PassCharges DEF IInv
      <4> QED  BY <2>0, <3>1, <3>2, <3>4, <4>1
    <3> QED  BY <3>3, <3>4
  <2>4. ASSUME NEW p \in Thread, RejectGlobal(p) \/ RejectSubject(p)
        PROVE  x \in DOMAIN buckets' /\ buckets'[x] = buckets[x]
    BY <2>2, <2>4, StepIsCheck DEF RejectGlobal, RejectSubject
  <2>5. ASSUME NEW p \in Thread, PassGlobal(p) \/ PassSubject(p)
        PROVE  /\ x \in DOMAIN buckets' /\ buckets'[x].start = buckets[x].start
               /\ buckets'[x].count \in buckets[x].count .. LimitOf(x)
    BY <2>3, <2>5, StepIsCheck DEF PassGlobal, PassSubject
  <2>6. ASSUME Tick \/ UNCHANGED vars \/ \E p \in Thread, k \in Subject : Arrive(p, k)
        PROVE  buckets' = buckets
    BY <2>6 DEF Tick, vars, Arrive
  <2> QED  BY <2>1, <2>4, <2>5, <2>6 DEF Next
<1> QED  BY <1>1, InvHolds, PTL DEF Spec, BudgetLastsWindow

-----------------------------------------------------------------------------
(* The bound of the table *)

\* What is finite and within the bound.
Bounded == IsFiniteSet(DOMAIN buckets) /\ BucketsBounded

\* A key that is not in the table is charged only if there is room for it after
\* pruning.
LEMMA BoundStep == IInv /\ Bounded /\ [Next]_vars => Bounded'
<1> SUFFICES ASSUME IInv, Bounded, [Next]_vars PROVE Bounded'
  OBVIOUS
<1>1. ASSUME DOMAIN buckets' \subseteq DOMAIN buckets PROVE Bounded'
  <2>1. /\ IsFiniteSet(DOMAIN buckets')
        /\ Cardinality(DOMAIN buckets') <= Cardinality(DOMAIN buckets)
    BY <1>1, FS_Subset DEF Bounded
  <2>2. Cardinality(DOMAIN buckets') \in Nat /\ Cardinality(DOMAIN buckets) \in Nat
    BY <2>1, FS_CardinalityType DEF Bounded
  <2> QED  BY <2>1, <2>2, RateLimiterAssumption DEF Bounded, BucketsBounded
<1>2. ASSUME NEW p, NEW place, NEW k, NEW limit, Checking(p, place, k, limit),
             CheckRejects(k, limit, thread[p].now)
      PROVE  Bounded'
  BY <1>1, <1>2, CheckingMeans, RejectKeeps DEF IInv
<1>3. ASSUME NEW p, NEW place, NEW k, NEW limit, Checking(p, place, k, limit),
             CheckPasses(k, limit, thread[p].now)
      PROVE  Bounded'
  <2> DEFINE T == Table(k, thread[p].now)
  <2>1. DOMAIN T \subseteq DOMAIN buckets
    BY <1>3, CheckingMeans, TableMeans DEF IInv
  <2>2. DOMAIN buckets' = DOMAIN T \cup {k} /\ ~NoRoom(T, k)
    BY <1>3 DEF CheckPasses
  <2> HIDE DEF T
  <2>3. IsFiniteSet(DOMAIN T) /\ Cardinality(DOMAIN T) \in Nat
    BY <2>1, FS_Subset, FS_CardinalityType DEF Bounded
  <2>4. CASE k \in DOMAIN T
    BY <1>1, <2>1, <2>2, <2>4
  <2>5. CASE k \notin DOMAIN T
    <3>1. ~(Cardinality(DOMAIN T) >= MaxBuckets)
      BY <2>2, <2>5 DEF NoRoom, Full
    <3>2. IsFiniteSet(DOMAIN buckets') /\ Cardinality(DOMAIN buckets') = Cardinality(DOMAIN T) + 1
      BY <2>2, <2>3, <2>5, FS_AddElement
    <3> QED  BY <2>3, <3>1, <3>2, RateLimiterAssumption DEF Bounded, BucketsBounded
  <2> QED  BY <2>4, <2>5
<1>4. ASSUME NEW p \in Thread, RejectGlobal(p) \/ RejectSubject(p) PROVE Bounded'
  BY <1>2, <1>4, StepIsCheck DEF RejectGlobal, RejectSubject
<1>5. ASSUME NEW p \in Thread, PassGlobal(p) \/ PassSubject(p) PROVE Bounded'
  BY <1>3, <1>5, StepIsCheck DEF PassGlobal, PassSubject
<1>6. ASSUME Tick \/ UNCHANGED vars \/ \E p \in Thread, k \in Subject : Arrive(p, k)
      PROVE  Bounded'
  BY <1>1, <1>6 DEF Tick, vars, Arrive
<1> QED  BY <1>4, <1>5, <1>6 DEF Next

\* check_key keeps the table within MAX_RATE_LIMIT_BUCKETS, whatever the subjects
\* and however stale the readings that prune it.
THEOREM TableBounded == Spec => []BucketsBounded
<1>1. Init => Bounded
  <2> SUFFICES ASSUME Init PROVE Bounded
    OBVIOUS
  <2>1. DOMAIN buckets = {}
    BY DEF Init
  <2> QED  BY <2>1, FS_EmptySet, RateLimiterAssumption DEF Bounded, BucketsBounded
<1>2. Bounded => BucketsBounded
  BY DEF Bounded
<1> QED  BY <1>1, <1>2, BoundStep, InvHolds, PTL DEF Spec
=============================================================================
