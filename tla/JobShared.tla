----------------------------- MODULE JobShared -----------------------------
(***************************************************************************)
(* What the analysis jobs of one API process share while they run          *)
(* (_run_job_inner of api/main.py): the data pools of the DataCollector    *)
(* (tradingagents/graph/data_collector.py), counted by reference.  The     *)
(* jobs are coroutines of one event loop; a pool is fetched on a thread,   *)
(* which goes on when its job is cancelled.                                *)
(***************************************************************************)
EXTENDS Naturals, FiniteSets

CONSTANTS
    SharedJobs,
    PoolKeys,      \* make_cache_key: ticker and trade date
    KeyOf,         \* the key of a job
    DryRuns,       \* jobs that end without having taken a reference
    MaxTries       \* TA_ANALYSIS_JOB_MAX_ATTEMPTS

ASSUME SharedAssumption ==
    /\ IsFiniteSet(SharedJobs) /\ {"none", "free"} \intersect SharedJobs = {}
    /\ KeyOf \in [SharedJobs -> PoolKeys] /\ MaxTries \in Nat

VARIABLES
    sj,        \* what a job's coroutine does
    tries,     \* attempts begun
    fetch,     \* what the thread of a job's collect() does
    keyLock,   \* who holds the lock of a key: a job or "free"
    pool,      \* _cache: the job whose thread fetched the pool, or "none"
    refs,      \* _refcounts
    stolen,    \* history: keys evicted by a job that had no reference
    leaked     \* history: keys referenced twice by a job, or fetched after its end

sharedVars == <<sj, tries, fetch, keyLock, pool, refs, stolen, leaked>>

Inside(j) == sj[j] \in {"trying", "reading"}

-----------------------------------------------------------------------------
\* A job comes to its attempts; a dry run is done there and then.
EnterJob(j) ==
    /\ sj[j] = "new"
    /\ sj' = [sj EXCEPT ![j] = IF j \in DryRuns THEN "ending" ELSE "entered"]
    /\ UNCHANGED <<tries, fetch, keyLock, pool, refs, stolen, leaked>>

\* Each attempt takes a reference, and has the pool collected on a thread.
Attempt(j) ==
    /\ sj[j] = "entered" /\ tries[j] < MaxTries /\ fetch[j] \in {"none", "back", "missing"}
    /\ tries' = [tries EXCEPT ![j] = @ + 1]
    /\ refs' = [refs EXCEPT ![KeyOf[j]] = @ + 1]
    /\ leaked' = IF tries[j] > 0 THEN leaked \union {KeyOf[j]} ELSE leaked
    /\ sj' = [sj EXCEPT ![j] = "trying"]
    /\ fetch' = [fetch EXCEPT ![j] = "want"]
    /\ UNCHANGED <<keyLock, pool, stolen>>

\* Without the lock of the key, as after a deletion of _locks[key] (mutant of LockKey).
LockKeyAnew(j) ==
    /\ fetch[j] = "want"
    /\ keyLock' = [keyLock EXCEPT ![KeyOf[j]] = j]
    /\ fetch' = [fetch EXCEPT ![j] = IF pool[KeyOf[j]] = "none" THEN "fetching" ELSE "have"]
    /\ UNCHANGED <<sj, tries, pool, refs, stolen, leaked>>

\* collect(), under the lock of the key
LockKey(j) ==
    /\ fetch[j] = "want" /\ keyLock[KeyOf[j]] = "free"
    /\ keyLock' = [keyLock EXCEPT ![KeyOf[j]] = j]
    /\ fetch' = [fetch EXCEPT ![j] = IF pool[KeyOf[j]] = "none" THEN "fetching" ELSE "have"]
    /\ UNCHANGED <<sj, tries, pool, refs, stolen, leaked>>

\* _fetch_all returns
Store(j) ==
    /\ fetch[j] = "fetching"
    /\ pool' = [pool EXCEPT ![KeyOf[j]] = j]
    /\ leaked' = IF Inside(j) THEN leaked ELSE leaked \union {KeyOf[j]}
    /\ fetch' = [fetch EXCEPT ![j] = "have"]
    /\ UNCHANGED <<sj, tries, keyLock, refs, stolen>>

\* The lock is released; then the pool is read again, and is missing (a KeyError)
\* when it was evicted in between.
Unlock(j) ==
    /\ fetch[j] = "have" /\ keyLock[KeyOf[j]] = j
    /\ keyLock' = [keyLock EXCEPT ![KeyOf[j]] = "free"]
    /\ UNCHANGED <<sj, tries, fetch, pool, refs, stolen, leaked>>
Return(j) ==
    /\ fetch[j] = "have" /\ keyLock[KeyOf[j]] # j
    /\ fetch' = [fetch EXCEPT ![j] = IF pool[KeyOf[j]] = "none" THEN "missing" ELSE "back"]
    /\ UNCHANGED <<sj, tries, keyLock, pool, refs, stolen, leaked>>

\* The pool is read by the agents, or the attempt fails.
Collected(j) ==
    /\ sj[j] = "trying" /\ fetch[j] \in {"back", "missing"}
    /\ sj' = [sj EXCEPT ![j] = IF fetch[j] = "missing" THEN "failed" ELSE "reading"]
    /\ UNCHANGED <<tries, fetch, keyLock, pool, refs, stolen, leaked>>

\* An attempt fails and the next one begins, or the job is given up.
FailAttempt(j) ==
    /\ sj[j] \in {"reading", "failed"}
    /\ sj' = [sj EXCEPT ![j] = IF tries[j] < MaxTries THEN "entered" ELSE "ending"]
    /\ UNCHANGED <<tries, fetch, keyLock, pool, refs, stolen, leaked>>

\* The analysis is finished; or the job is cancelled, the thread goes on.
LeaveJob(j) ==
    /\ sj[j] \in {"entered", "trying", "reading"} /\ tries[j] > 0
    /\ sj' = [sj EXCEPT ![j] = "ending"]
    /\ UNCHANGED <<tries, fetch, keyLock, pool, refs, stolen, leaked>>

\* Mutant of Evicted: a count that is not there counts as 0 and is kept.
EvictedBelow(k) ==
    /\ pool' = IF refs[k] <= 1 THEN [pool EXCEPT ![k] = "none"] ELSE pool
    /\ refs' = [refs EXCEPT ![k] = @ - 1]

\* evict: the last reference takes the pool along; without one the count is taken
\* to be one.
Evicted(k) ==
    /\ pool' = [pool EXCEPT ![k] = IF refs[k] <= 1 THEN "none" ELSE @]
    /\ refs' = [refs EXCEPT ![k] = IF @ > 0 THEN @ - 1 ELSE 0]

\* finally: the pool is evicted, whether or not a reference was taken.
Finally(j) ==
    /\ sj[j] = "ending"
    /\ sj' = [sj EXCEPT ![j] = "over"]
    /\ Evicted(KeyOf[j])
    /\ stolen' = IF tries[j] = 0 THEN stolen \union {KeyOf[j]} ELSE stolen
    /\ UNCHANGED <<tries, fetch, keyLock, leaked>>

-----------------------------------------------------------------------------
SharedInit ==
    /\ sj = [j \in SharedJobs |-> "new"] /\ tries = [j \in SharedJobs |-> 0]
    /\ fetch = [j \in SharedJobs |-> "none"]
    /\ keyLock = [k \in PoolKeys |-> "free"]
    /\ pool = [k \in PoolKeys |-> "none"] /\ refs = [k \in PoolKeys |-> 0]
    /\ stolen = {} /\ leaked = {}

FetchStep(j) == LockKey(j) \/ Store(j) \/ Unlock(j) \/ Return(j)
SharedNext == \E j \in SharedJobs :
    \/ EnterJob(j) \/ Attempt(j) \/ FetchStep(j) \/ Collected(j)
    \/ FailAttempt(j) \/ LeaveJob(j) \/ Finally(j)

SharedSpec == SharedInit /\ [][SharedNext]_sharedVars

-----------------------------------------------------------------------------
\* The type of every variable.
SharedTypeOK ==
    /\ sj \in [SharedJobs -> {"new", "entered", "trying", "reading", "failed", "ending", "over"}]
    /\ tries \in [SharedJobs -> 0 .. MaxTries]
    /\ fetch \in [SharedJobs -> {"none", "want", "fetching", "have", "back", "missing"}]
    /\ keyLock \in [PoolKeys -> SharedJobs \union {"free"}]
    /\ pool \in [PoolKeys -> SharedJobs \union {"none"}]
    /\ refs \in [PoolKeys -> Nat]

\* The pool of a job stays until the job is over, whatever other jobs on the same
\* key do, unless one of them ended without ever having taken a reference.
PoolStays ==
    \A j \in SharedJobs : (sj[j] = "reading" /\ KeyOf[j] \notin stolen) => pool[KeyOf[j]] # "none"

\* A pool is fetched by one thread at a time, though jobs are cancelled while
\* their threads fetch, and pools are evicted while others wait for the lock.
FetchedOnce ==
    \A j, k \in SharedJobs :
        (fetch[j] = "fetching" /\ fetch[k] = "fetching" /\ KeyOf[j] = KeyOf[k]) => j = k

\* No pool outlives the jobs on its key and is read, stale, by a job of a later
\* hour, unless a job was retried, which counts it twice, or was over before its
\* thread had fetched.
PoolsGo ==
    \A k \in PoolKeys \ leaked :
        (\A j \in SharedJobs : KeyOf[j] = k => sj[j] \in {"new", "over"})
            => pool[k] = "none" /\ refs[k] = 0

\* The data pools serve their jobs: each stays while a job reads it, is fetched by
\* one thread at a time, and goes with the last job on its key.
PoolsServe == PoolStays /\ FetchedOnce /\ PoolsGo
=============================================================================
