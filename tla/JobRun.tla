------------------------------- MODULE JobRun -------------------------------
(***************************************************************************)
(* One full analysis job in one API process: its runs (_run_job and        *)
(* _run_job_inner of api/main.py), the lease on its row, its report and    *)
(* the credits reserved for it, through attempts, cancellation, timeout,   *)
(* crash, restart and resume.                                              *)
(*                                                                         *)
(* A run is two tasks: the outer one waits for the inner one, up to the    *)
(* timeout.  What the inner task does between two awaits is one step of    *)
(* the event loop.  It leaves its database work to pool threads it awaits; *)
(* a thread is not stopped when the task that awaits it is cancelled.      *)
(* The analysis itself is a step that yields a result or raises.  Dry runs, *)
(* which have neither report nor credits, are left out.                    *)
(***************************************************************************)
EXTENDS Naturals

CONSTANTS
    Runs,         \* the runs the job can have, the first and its resumes
    NoRun,        \* "no run"
    MaxAttempts,  \* _analysis_job_max_attempts()
    MaxCrashes    \* bound: crashes of the process

ASSUME RunsAssumption == NoRun \notin Runs
ASSUME LimitsAssumption == MaxAttempts \in Nat \ {0} /\ MaxCrashes \in Nat

VARIABLES
    query,     \* the request has a query: the run returns after one result
    status,    \* AnalysisJobDB.status, and the JobStore's
    leased,    \* lease_until is in the future
    report,    \* ReportDB.status
    ledger,    \* number of reserve, commit and refund transactions of the job
    flag,      \* credit_reserved in the JobStore
    up,        \* "down", "booting" until the reconcile pass, then "serving"
    outer,     \* program counter of a run's outer task
    inner,     \* program counter of its inner task
    thread,    \* database work of the run a pool thread has in hand
    attempt,   \* attempt_num
    erred,     \* runs whose last_analysis_exc is set
    inners,    \* _running_analysis_inner_tasks: the run registered for the job
    first,     \* the submission or the dispatcher has yet to start the job
    crashes,   \* crashes so far
    timedout,  \* history: the runs whose outer task gave up waiting
    unbooked,  \* history: the outer task or the inner one left before the
               \* reservation was noted in the JobStore
    overlap    \* history: a run was started while another one was not over, or
               \* had yet to start

runVars == <<outer, inner, thread, attempt, erred, inners>>
vars == <<query, status, leased, report, ledger, flag, up, outer, inner, thread,
          attempt, erred, inners, first, crashes, timedout, unbooked, overlap>>
envVars == <<query, up, first, crashes, overlap>>

Active   == {"pending", "running", "resuming"}
Terminal == {"completed", "failed"}

\* What a pool thread still has to do.
Work == {"merge", "lookup", "debit", "init", "save", "record"}

\* Program counters at which the inner task awaits something it can be cancelled in.
Awaiting == {"merge", "reserve", "init", "analyse", "save", "record"}
StartUp == {"merge", "reserve", "init"}      \* before the attempt loop
InnerLive(r) == inner[r] \in Awaiting \union {"leave", "unwind", "trip"}

Move(r, pc, work) ==
    /\ inner' = [inner EXCEPT ![r] = pc]
    /\ thread' = [thread EXCEPT ![r] = work]

\* mark_report_failed: without a row there is nothing to mark.  (A failure of its
\* own is swallowed by every caller, and left out.)
MarkReport == report' = IF report = "none" THEN "none" ELSE "failed"

-----------------------------------------------------------------------------
(* Pool threads.                                                           *)

Did(r, next) == thread' = [thread EXCEPT ![r] = next]

\* merge_request_payload
ThreadMerge(r) ==
    /\ thread[r] = "merge" /\ Did(r, "none")
    /\ leased' = TRUE
    /\ UNCHANGED <<envVars, status, report, ledger, flag, outer, inner, attempt, erred, inners, timedout, unbooked>>

\* Mutant of ThreadLookup: the earlier reservation goes unnoticed.
LookupMisses(r) ==
    /\ thread[r] = "lookup" /\ Did(r, "debit")
    /\ UNCHANGED <<envVars, status, leased, report, ledger, flag, outer, inner, attempt, erred, inners, timedout, unbooked>>

\* reserve_for_analysis: _already_reserved, then the balance and the debit
ThreadLookup(r) ==
    /\ thread[r] = "lookup"
    /\ Did(r, IF ledger.reserve > 0 THEN "none" ELSE "debit")
    /\ UNCHANGED <<envVars, status, leased, report, ledger, flag, outer, inner, attempt, erred, inners, timedout, unbooked>>

\* The database fails the thread before it commits.
ThreadRaises(r) ==
    /\ thread[r] \in {"merge", "lookup", "debit"} /\ Did(r, "raised")
    /\ UNCHANGED <<envVars, status, leased, report, ledger, flag, outer, inner, attempt, erred, inners, timedout, unbooked>>

ThreadDebit(r) ==
    /\ thread[r] = "debit"
    /\ \/ /\ ledger' = [ledger EXCEPT !.reserve = @ + 1]
          /\ Did(r, "none")
       \/ /\ Did(r, "refused")              \* InsufficientCreditsError
          /\ UNCHANGED ledger
    /\ UNCHANGED <<envVars, status, leased, report, flag, outer, inner, attempt, erred, inners, timedout, unbooked>>

\* init_report, unless there is one, and update_report_partial(status="running"),
\* whose failure is only logged; _build_runtime_config, whose failure is not.
ThreadInit(r) ==
    /\ thread[r] = "init" /\ (Did(r, "none") \/ Did(r, "raised"))
    /\ report' \in {report, "running"}
    /\ UNCHANGED <<envVars, status, leased, ledger, flag, outer, inner, attempt, erred, inners, timedout, unbooked>>

\* create_report
ThreadSave(r) ==
    /\ thread[r] = "save"
    /\ \/ report' = "completed" /\ Did(r, "none")
       \/ Did(r, "unsaved") /\ UNCHANGED report
    /\ UNCHANGED <<envVars, status, leased, ledger, flag, outer, inner, attempt, erred, inners, timedout, unbooked>>

\* mark_report_failed
ThreadRecord(r) ==
    /\ thread[r] = "record" /\ Did(r, "none")
    /\ MarkReport
    /\ UNCHANGED <<envVars, status, leased, ledger, flag, outer, inner, attempt, erred, inners, timedout, unbooked>>

ThreadStep(r) ==
    ThreadMerge(r) \/ ThreadLookup(r) \/ ThreadDebit(r) \/ ThreadRaises(r)
        \/ ThreadInit(r) \/ ThreadSave(r) \/ ThreadRecord(r)

-----------------------------------------------------------------------------
(* The inner task: _run_job_inner.                                         *)

Merged(r) ==
    /\ inner[r] = "merge" /\ thread[r] = "none"
    /\ Move(r, "reserve", "lookup")
    /\ UNCHANGED <<envVars, status, leased, report, ledger, flag, outer, attempt, erred, inners, timedout, unbooked>>

Reserved(r) ==
    /\ inner[r] = "reserve" /\ thread[r] = "none"
    /\ flag' = TRUE
    /\ Move(r, "init", "init")
    /\ UNCHANGED <<envVars, status, leased, report, ledger, outer, attempt, erred, inners, timedout, unbooked>>

Refused(r) ==
    /\ inner[r] = "reserve" /\ thread[r] = "refused"
    /\ status' = "failed"
    /\ Move(r, "leave", "none")
    /\ UNCHANGED <<envVars, leased, report, ledger, flag, outer, attempt, erred, inners, timedout, unbooked>>

Started(r) ==
    /\ inner[r] = "init" /\ thread[r] = "none"
    /\ status' = "running"
    /\ attempt' = [attempt EXCEPT ![r] = 1]
    /\ Move(r, "analyse", "none")
    /\ UNCHANGED <<envVars, leased, report, ledger, flag, outer, erred, inners, timedout, unbooked>>

\* An exception before the attempt loop ends the inner task; nobody sets the status.
SetupRaises(r) ==
    /\ inner[r] \in StartUp /\ thread[r] = "raised"
    /\ Move(r, "leave", "none")
    /\ UNCHANGED <<envVars, status, leased, report, ledger, flag, outer, attempt, erred, inners, timedout, unbooked>>

AttemptYields(r) ==
    /\ inner[r] = "analyse"
    /\ Move(r, "save", "save")
    /\ UNCHANGED <<envVars, status, leased, report, ledger, flag, outer, attempt, erred, inners, timedout, unbooked>>

\* _finalize_technical_analysis_failure: the status first, the report on a thread
GiveUp(r) == status' = "failed" /\ Move(r, "record", "record")

\* Mutant of AttemptFails: the last attempt is tried again.
RetriesOnceMore(r) ==
    /\ inner[r] = "analyse"
    /\ erred' = erred \union {r}
    /\ attempt' = [attempt EXCEPT ![r] = @ + 1]
    /\ attempt[r] <= MaxAttempts
    /\ UNCHANGED <<envVars, status, leased, report, ledger, flag, outer, inner, thread, inners, timedout, unbooked>>

AttemptFails(r) ==
    /\ inner[r] = "analyse"
    /\ erred' = erred \union {r}
    /\ IF attempt[r] < MaxAttempts
       THEN attempt' = [attempt EXCEPT ![r] = @ + 1] /\ UNCHANGED <<status, inner, thread>>
       ELSE GiveUp(r) /\ UNCHANGED attempt
    /\ UNCHANGED <<envVars, leased, report, ledger, flag, outer, inners, timedout, unbooked>>

\* What the attempt amounts to: the report was saved, or could not be (mutant:
\* what became of the report is not looked at).
OutcomeUnseen(r) == "completed"
Outcome(r) == IF thread[r] = "none" THEN "completed" ELSE "failed"
Concludes(r) ==
    /\ inner[r] = "save" /\ thread[r] \in {"none", "unsaved"}
    /\ IF thread[r] = "unsaved" THEN MarkReport ELSE UNCHANGED report
    /\ UNCHANGED <<envVars, leased, ledger, flag, outer, erred, inners, timedout, unbooked>>

\* With a query the run returns with its first result.
Returns(r) ==
    /\ query /\ Concludes(r)
    /\ status' = Outcome(r)
    /\ Move(r, "leave", "none")
    /\ UNCHANGED attempt

\* Without one nothing leaves the loop: the next attempt follows, and after
\* the last one an exception kept from an earlier attempt fails the job.
AttemptsAgain(r) ==
    /\ ~query /\ attempt[r] < MaxAttempts /\ Concludes(r)
    /\ status' = Outcome(r)
    /\ attempt' = [attempt EXCEPT ![r] = @ + 1]
    /\ Move(r, "analyse", "none")

Exhausts(r) ==
    /\ ~query /\ attempt[r] >= MaxAttempts /\ Concludes(r)
    /\ IF r \in erred THEN GiveUp(r) ELSE status' = Outcome(r) /\ Move(r, "leave", "none")
    /\ UNCHANGED attempt

Recorded(r) ==
    /\ inner[r] = "record" /\ thread[r] = "none"
    /\ Move(r, "leave", "none")
    /\ UNCHANGED <<envVars, status, leased, report, ledger, flag, outer, attempt, erred, inners, timedout, unbooked>>

\* The finally block: release_lease, after the end or after a cancellation.  Before
\* the attempt loop it then trips over runtime_env_old_values, not yet assigned: the
\* task ends with that exception, and is not a cancelled one.
Leaves(r) ==
    /\ \/ inner[r] = "leave" /\ inner' = [inner EXCEPT ![r] = "done"]
       \/ inner[r] = "unwind" /\ inner' = [inner EXCEPT ![r] = "cancelled"]
       \/ inner[r] = "trip" /\ inner' = [inner EXCEPT ![r] = "tripped"]
    /\ leased' = FALSE
    /\ UNCHANGED <<envVars, status, report, ledger, flag, outer, thread, attempt, erred, inners, timedout, unbooked>>

InnerStep(r) ==
    Merged(r) \/ Reserved(r) \/ Refused(r) \/ Started(r) \/ SetupRaises(r)
        \/ AttemptYields(r) \/ AttemptFails(r)
        \/ Returns(r) \/ AttemptsAgain(r) \/ Exhausts(r) \/ Recorded(r) \/ Leaves(r)

-----------------------------------------------------------------------------
(* The outer task: _run_job.                                               *)

\* Mutants of Settle: every reserved job is charged; only a completed one is settled.
ChargeAlways(st) ==
    ledger' = IF flag THEN [ledger EXCEPT !.commit = 1] ELSE ledger
ChargeOnly(st) ==
    ledger' = IF flag /\ st = "completed" THEN [ledger EXCEPT !.commit = 1] ELSE ledger

\* _finalize_job_credits: commit_analysis or refund_analysis, each once
Settle(st) ==
    ledger' = IF ~flag THEN ledger
              ELSE IF st = "completed" THEN [ledger EXCEPT !.commit = 1]
              ELSE IF ledger.reserve > 0 THEN [ledger EXCEPT !.refund = 1]
              ELSE ledger

Ends(r) ==
    /\ outer' = [outer EXCEPT ![r] = "done"]
    /\ inners' = IF inners = r THEN NoRun ELSE inners

Finish(r) ==
    LET st == IF inner[r] = "cancelled" THEN "failed" ELSE status IN
    /\ outer[r] = "waiting" /\ inner[r] \in {"done", "cancelled", "tripped"}
    /\ status' = st
    /\ IF inner[r] = "cancelled" THEN MarkReport ELSE UNCHANGED report
    /\ Settle(st)
    /\ Ends(r)
    /\ UNCHANGED <<envVars, leased, flag, inner, thread, attempt, erred, timedout, unbooked>>

\* The reservation is on its way, or still to come, and the JobStore without it.
Unnoted(r) == inner[r] \in {"merge", "reserve"} /\ ~flag

\* Mutant of Timeout: the credits are left to the inner task.
TimeoutOnlyMarks(r) ==
    /\ outer[r] = "waiting" /\ InnerLive(r)
    /\ status' = "failed"
    /\ MarkReport
    /\ Ends(r)
    /\ timedout' = timedout \union {r}
    /\ unbooked' = (unbooked \/ Unnoted(r))
    /\ UNCHANGED <<envVars, leased, ledger, flag, inner, thread, attempt, erred>>

\* The inner task is left running.
Timeout(r) ==
    /\ outer[r] = "waiting" /\ InnerLive(r)
    /\ status' = "failed"
    /\ MarkReport
    /\ Settle("failed")
    /\ Ends(r)
    /\ timedout' = timedout \union {r}
    /\ unbooked' = (unbooked \/ Unnoted(r))
    /\ UNCHANGED <<envVars, leased, flag, inner, thread, attempt, erred>>

-----------------------------------------------------------------------------
(* Starts, resumes and cancellations.                                      *)

Quiet == \A r \in Runs : outer[r] # "waiting" /\ ~InnerLive(r) /\ thread[r] \notin Work

\* Runs are alike: the next one is any that was not used.
Launch(r) ==
    /\ outer[r] = "unused" /\ r = CHOOSE u \in Runs : outer[u] = "unused"
    /\ outer' = [outer EXCEPT ![r] = "waiting"]
    /\ Move(r, "merge", "merge")
    /\ inners' = r
    /\ overlap' = (overlap \/ ~Quiet \/ first')

\* The submission or the dispatcher starts the job, whatever its status is by now.
FirstStart(r) ==
    /\ first /\ first' = FALSE
    /\ Launch(r)
    /\ UNCHANGED <<query, up, crashes, status, leased, report, ledger, flag, attempt, erred, timedout, unbooked>>

\* try_claim_for_resume: within one process the owner does not differ, so that the
\* claim succeeds whether or not the job still runs.  After a restart a valid
\* lease may be another owner's; then the user's request changes nothing.
Claim(r) ==
    /\ status \in Active
    /\ status' = "resuming"
    /\ leased' = TRUE
    /\ Launch(r)

\* resume_analysis_job
ResumeByUser(r) ==
    /\ up # "down" /\ UNCHANGED first
    /\ Claim(r)
    /\ UNCHANGED <<query, up, crashes, report, ledger, flag, attempt, erred, timedout, unbooked>>

\* _cancel_analysis_job_core on an active job
CancelInner ==
    /\ up # "down" /\ status \in Active /\ inners # NoRun
    /\ inner[inners] \in Awaiting
    /\ inner' = [inner EXCEPT ![inners] = IF @ \in StartUp THEN "trip" ELSE "unwind"]
    /\ unbooked' = (unbooked \/ Unnoted(inners))
    /\ UNCHANGED <<envVars, status, leased, report, ledger, flag, outer, thread, attempt, erred, inners, timedout>>

\* (Mutant: a final status does not stop the request.)
CancelsFinished ==
    /\ up # "down" /\ inners = NoRun
    /\ status' = "failed"
    /\ leased' = FALSE
    /\ UNCHANGED <<envVars, report, ledger, flag, runVars, timedout, unbooked>>

CancelFallback ==
    /\ up # "down" /\ status \in Active
    /\ inners # NoRun => inner[inners] \in {"done", "cancelled", "tripped"}
    /\ status' = "failed"
    /\ leased' = FALSE
    /\ UNCHANGED <<envVars, report, ledger, flag, runVars, timedout, unbooked>>

-----------------------------------------------------------------------------
(* Crash and restart.                                                      *)

Crash ==
    /\ up # "down" /\ crashes < MaxCrashes
    /\ up' = "down" /\ crashes' = crashes + 1
    /\ outer' = [r \in Runs |-> IF outer[r] = "waiting" THEN "lost" ELSE outer[r]]
    /\ inner' = [r \in Runs |-> IF InnerLive(r) THEN "lost" ELSE inner[r]]
    /\ thread' = [r \in Runs |-> "none"]
    /\ flag' \in {FALSE, flag}      \* lost with the process, or kept in Redis
    /\ inners' = NoRun /\ first' = FALSE
    /\ UNCHANGED <<query, status, leased, report, ledger, attempt, erred, timedout, unbooked, overlap>>

Boot ==
    /\ up = "down" /\ up' = "booting"
    /\ UNCHANGED <<query, status, leased, report, ledger, flag, runVars, first, crashes, timedout, unbooked, overlap>>

\* The reconcile pass, once per start: list_jobs_to_reclaim and the claim.
Reconcile ==
    /\ up = "booting" /\ up' = "serving" /\ UNCHANGED first
    /\ IF status \in Active /\ ~leased
       THEN \E r \in Runs : Claim(r)
       ELSE UNCHANGED <<status, leased, outer, inner, thread, inners, overlap>>
    /\ UNCHANGED <<query, report, ledger, flag, attempt, erred, crashes, timedout, unbooked>>

\* No keepalive renews the lease of a job without a live inner task.
LeaseLapse ==
    /\ leased /\ \A r \in Runs : ~InnerLive(r)
    /\ leased' = FALSE
    /\ UNCHANGED <<envVars, status, report, ledger, flag, runVars, timedout, unbooked>>

-----------------------------------------------------------------------------
Init ==
    /\ query \in BOOLEAN
    /\ status = "pending" /\ leased = TRUE /\ report = "none"
    /\ ledger = [reserve |-> 0, commit |-> 0, refund |-> 0]
    /\ flag = FALSE /\ up = "serving"
    /\ outer = [r \in Runs |-> "unused"] /\ inner = [r \in Runs |-> "unused"]
    /\ thread = [r \in Runs |-> "none"] /\ attempt = [r \in Runs |-> 0]
    /\ erred = {} /\ inners = NoRun /\ first = TRUE /\ crashes = 0
    /\ timedout = {} /\ unbooked = FALSE /\ overlap = FALSE

Next ==
    \/ \E r \in Runs : ThreadStep(r) \/ InnerStep(r) \/ Finish(r) \/ Timeout(r)
    \/ \E r \in Runs : FirstStart(r) \/ ResumeByUser(r)
    \/ CancelInner \/ CancelFallback
    \/ Crash \/ Boot \/ Reconcile \/ LeaseLapse

Spec == Init /\ [][Next]_vars

\* The event loop and the pool serve every task they have; an analysis ends.
FairSpec ==
    /\ Spec
    /\ \A r \in Runs : WF_vars(ThreadStep(r)) /\ WF_vars(InnerStep(r)) /\ WF_vars(Finish(r))

-----------------------------------------------------------------------------
(* What is true of a job.                                                  *)

\* The type of every variable.
TypeOK ==
    /\ query \in BOOLEAN /\ leased \in BOOLEAN /\ flag \in BOOLEAN
    /\ first \in BOOLEAN /\ unbooked \in BOOLEAN /\ overlap \in BOOLEAN
    /\ status \in Active \union Terminal
    /\ report \in {"none", "running", "completed", "failed"}
    /\ ledger \in [reserve: Nat, commit: Nat, refund: Nat]
    /\ up \in {"down", "booting", "serving"}
    /\ outer \in [Runs -> {"unused", "waiting", "done", "lost"}]
    /\ inner \in [Runs -> Awaiting \union {"unused", "leave", "unwind", "trip", "done", "cancelled", "tripped", "lost"}]
    /\ thread \in [Runs -> Work \union {"none", "raised", "refused", "unsaved"}]
    /\ attempt \in [Runs -> 0 .. MaxAttempts]
    /\ erred \subseteq Runs /\ timedout \subseteq Runs
    /\ inners \in Runs \union {NoRun}
    /\ crashes \in Nat

Orderly == timedout = {} /\ ~overlap

\* A job that says "completed" has its report written: no attempt, no thread a
\* cancellation left behind and no resumed run makes the two disagree, as long
\* as no run timed out and no job was resumed while it ran.
CompletedHasReport == Orderly /\ status = "completed" => report = "completed"

Settled == Quiet /\ crashes = 0 /\ ~unbooked /\ ledger.reserve > 0

\* A run that ends before its analysis began leaves the job active, though refunded.
Begun == \A r \in Runs : inner[r] \in {"done", "tripped"} => attempt[r] > 0

\* When the dust has settled, a reserved job was charged if it completed and
\* refunded otherwise, never both, unless the process crashed, a run was left
\* before it noted its reservation, ended before the analysis began, timed out
\* or overlapped another one.
ChargeMatchesOutcome ==
    (Settled /\ Orderly /\ Begun) =>
        IF status = "completed" THEN ledger.commit = 1 /\ ledger.refund = 0
                                ELSE ledger.commit = 0 /\ ledger.refund = 1

\* Whatever timed out or overlapped, no reservation is forgotten.
NoneForgotten == Settled => ledger.commit + ledger.refund > 0

\* The credits of a job are taken once, also when a crash cuts its run off and
\* the run that resumes it reserves again; only overlapping runs may pay twice.
DebitedOnce == ~overlap => ledger.reserve <= 1

\* A job with a query keeps its outcome: once the analysis has begun, no later
\* step of a run, cancellation, crash or restart changes a final status, unless
\* a run timed out or overlapped another one.
OutcomeFinal ==
    [][query /\ Orderly' /\ status \in Terminal /\ (\E r \in Runs : attempt[r] > 0)
        => status' = status]_vars

\* Credits once reserved are eventually committed or refunded, unless the process
\* crashed or a run was left before it noted its reservation.
ReserveSettles ==
    (ledger.reserve > 0) ~> (ledger.commit + ledger.refund > 0 \/ crashes > 0 \/ unbooked)

\* credits_service.py:1, "reserve -> commit or refund per analysis job".
CommitOrRefund == ~(ledger.commit > 0 /\ ledger.refund > 0)

\* _cancel_analysis_job_core answers "cancel_requested" and its endpoint says that
\* job.failed follows (main.py:4479): a job whose run was cancelled has failed when
\* that run is over.
CancelFails == \A r \in Runs : outer[r] = "done" /\ inner[r] = "tripped" => status \in Terminal
=============================================================================
