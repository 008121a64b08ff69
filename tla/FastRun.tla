------------------------------- MODULE FastRun -------------------------------
(***************************************************************************)
(* Fast analyses of one symbol by one user                                 *)
(* (api/services/fast_analysis_service.py): the job, the fast-analysis     *)
(* row, the report and the credit transactions a run leaves behind, and    *)
(* the progress that pool threads write into the row's snapshot meanwhile. *)
(* A run is a coroutine: what it does between two awaits is one step, but  *)
(* each of its writes is a commit of its own, at which an exception or a   *)
(* crash can cut the step short.  Waiting in the queue is TaskQueue's.     *)
(***************************************************************************)
EXTENDS Naturals, FiniteSets

CONSTANTS
    FastJobs, FastRuns,
    Flushers,       \* threads of _PROGRESS_EXECUTOR (2)
    MaxFastCrashes, \* bound
    MaxFlushes      \* bound: flushes that are submitted

ASSUME FastAssumption == MaxFastCrashes \in Nat /\ MaxFlushes \in Nat

VARIABLES
    fast,     \* per job: job status, fast-analysis status, report status, ledger
    snap,     \* snapshot_json: its stage, and whether it has the sources
    buffer,   \* _PROGRESS_BUFFER: the stage, or "none"
    frun,     \* runs: their job and where they are
    flusher,  \* the flush a thread has in hand: job and copied stage
    flushes,  \* flushes submitted and not taken, per job; bounded in all
    fcrashes,
    twice,    \* history: jobs that were run while another run of theirs was inside
    cut       \* history: jobs with a run cut short by a crash or by a failure
              \* of the failure handling, or ended by the user

fastVars == <<fast, snap, buffer, frun, flusher, flushes, fcrashes, twice, cut>>

\* _find_existing_fast_job
ActiveFast == {j \in FastJobs : fast[j].job \in {"queued", "pending", "running"}}
IdleRuns == {r \in FastRuns : frun[r].pc = "idle"}
InRun(j) == {r \in FastRuns : frun[r].job = j /\ frun[r].pc \in {"new", "collecting", "thinking"}}

\* The row of a fast analysis, by its status; what it holds of the snapshot is snap.
FastRows == {"none", "running", "done", "failed"}

NoFast == [job |-> "none", row |-> "none", report |-> "none", ledger |-> {}]

Run(j) ==
    \E r \in IdleRuns :
        /\ r = CHOOSE u \in IdleRuns : TRUE
        /\ frun' = [frun EXCEPT ![r] = [job |-> j, pc |-> "new"]]
        /\ twice' = IF InRun(j) # {} THEN twice \union {j} ELSE twice

-----------------------------------------------------------------------------
\* _persist_fast_job_row; then the run is started, the job queued, or the queue
\* is full.
CreateFast(j) ==
    /\ ActiveFast = {} /\ fast[j] = NoFast
    /\ \E way \in {"pending", "queued", "failed"} :
         /\ fast' = [fast EXCEPT ![j] = [job |-> way, row |-> IF way = "failed" THEN "failed" ELSE "running",
                            report |-> IF way = "failed" THEN "failed" ELSE "pending", ledger |-> {}]]
         /\ snap' = [snap EXCEPT ![j] = [stage |-> IF way = "failed" THEN "rejected" ELSE "queued",
                                         sources |-> FALSE]]
         /\ IF way = "pending" THEN Run(j) ELSE UNCHANGED <<frun, twice>>
    /\ UNCHANGED <<buffer, flusher, flushes, fcrashes, cut>>

\* There is an active job: it is returned with its status, and the endpoint runs
\* whatever is returned as "pending".
AgainFast(j) ==
    /\ fast[j].job = "pending" /\ Run(j)
    /\ UNCHANGED <<fast, snap, buffer, flusher, flushes, fcrashes, cut>>

\* _dispatch_next_queued_job_for_user, for a fast job
DispatchFast(j) ==
    /\ fast[j].job = "queued" /\ Run(j)
    /\ fast' = [fast EXCEPT ![j].job = "pending"]
    /\ UNCHANGED <<snap, buffer, flusher, flushes, fcrashes, cut>>

-----------------------------------------------------------------------------
(* The run.                                                                *)

\* _mutate_progress and _schedule_flush
Progress(j, stage) ==
    /\ buffer' = [buffer EXCEPT ![j] = stage]
    /\ \/ flushes' = flushes
       \/ /\ flushes[j] + 1 <= MaxFlushes
          /\ flushes' = [flushes EXCEPT ![j] = @ + 1]

\* The reservation is idempotent; a refused or failed one is only logged.
BeginFast(r) ==
    LET j == frun[r].job IN
    /\ frun[r].pc = "new"
    /\ frun' = [frun EXCEPT ![r].pc = "collecting"]
    /\ \E paid \in BOOLEAN :
         fast' = [fast EXCEPT ![j].job = "running",
                              ![j].ledger = IF paid THEN @ \union {"reserve"} ELSE @]
    /\ Progress(j, "collecting")
    /\ UNCHANGED <<snap, flusher, fcrashes, twice, cut>>

\* The snapshot is there, the features are extracted, the model is asked.
Reason(r) ==
    /\ frun[r].pc = "collecting"
    /\ frun' = [frun EXCEPT ![r].pc = "thinking"]
    /\ Progress(frun[r].job, "reasoning")
    /\ UNCHANGED <<fast, snap, flusher, fcrashes, twice, cut>>

\* The commits of a success, up to the k-th: the rows; the charge; the report.
Completed(x, k) ==
    [x EXCEPT !.row    = IF k >= 1 THEN "done" ELSE @,
              !.job    = IF k >= 1 THEN "completed" ELSE @,
              !.ledger = IF k >= 2 THEN @ \union {"commit"} ELSE @,
              !.report = IF k >= 3 THEN "completed" ELSE @]

\* The commits of _finalize_failure: the rows; the refund of what was reserved,
\* also of what was charged; the report.
Failed(x, k) ==
    [x EXCEPT !.row    = IF k >= 1 THEN "failed" ELSE @,
              !.job    = IF k >= 1 THEN "failed" ELSE @,
              !.ledger = IF k >= 2 /\ "reserve" \in @ THEN @ \union {"refund"} ELSE @,
              !.report = IF k >= 3 THEN "failed" ELSE @]

\* The snapshot goes with the rows; it has sources once it was collected.
Final(r, k, stage) == [snap EXCEPT ![frun[r].job] =
    IF k = 0 THEN @ ELSE [stage |-> stage, sources |-> frun[r].pc = "thinking"]]

Leave(r, x, stage) ==
    LET j == frun[r].job IN
    /\ fast' = [fast EXCEPT ![j] = x]
    /\ snap' = Final(r, 3, stage)
    /\ buffer' = [buffer EXCEPT ![j] = "none"]
    /\ frun' = [frun EXCEPT ![r].pc = "over"]
    /\ UNCHANGED <<flushes, fcrashes, twice>>

\* Mutant of RowFree: _FAST_SNAPSHOT_JSON_LOCK is not taken.
RowAnyway(j) == TRUE

\* The snapshot lock is free: no thread is about to write the row.
RowFree(j) == \A t \in Flushers : flusher[t].pc = "writing" => flusher[t].job # j

\* An answer, or the fallback the analyst returns when the model fails.
FinishFast(r) ==
    /\ frun[r].pc = "thinking" /\ RowFree(frun[r].job)
    /\ Leave(r, Completed(fast[frun[r].job], 3), "completed")
    /\ UNCHANGED <<flusher, cut>>

\* No snapshot, no features, no answer in time; or an exception at one of the
\* commits of the success.
FailFast(r) ==
    /\ frun[r].pc \in {"collecting", "thinking"} /\ RowFree(frun[r].job)
    /\ \E k \in IF frun[r].pc = "thinking" THEN 0 .. 2 ELSE {0} :
         Leave(r, Failed(Completed(fast[frun[r].job], k), 3), "failed")
    /\ UNCHANGED <<flusher, cut>>

\* An exception in _finalize_failure itself, which drops what was not committed
\* and leaves the buffer behind.
FailAgain(r) ==
    LET j == frun[r].job IN
    /\ frun[r].pc \in {"collecting", "thinking"}
    /\ RowFree(j)
    /\ \E k \in 0 .. 2 : /\ fast' = [fast EXCEPT ![j] = Failed(@, k)]
                        /\ snap' = Final(r, k, "failed")
    /\ frun' = [frun EXCEPT ![r].pc = "over"]
    /\ cut' = cut \union {j}
    /\ UNCHANGED <<buffer, flusher, flushes, fcrashes, twice>>

-----------------------------------------------------------------------------
(* _flush_progress_db: the progress is copied first, then the row is read  *)
(* and written under the snapshot lock.                                    *)

TakeFlush(t, j) ==
    /\ flusher[t].pc = "free" /\ flushes[j] > 0
    /\ flushes' = [flushes EXCEPT ![j] = @ - 1]
    /\ flusher' = IF buffer[j] = "none" THEN flusher
                  ELSE [flusher EXCEPT ![t] = [pc |-> "copied", job |-> j, stage |-> buffer[j], sources |-> FALSE]]
    /\ UNCHANGED <<fast, snap, buffer, frun, fcrashes, twice, cut>>

\* The row is read.
ReadRow(t) ==
    /\ flusher[t].pc = "copied" /\ RowFree(flusher[t].job)
    /\ flusher' = [flusher EXCEPT ![t].pc = "writing", ![t].sources = snap[flusher[t].job].sources]
    /\ UNCHANGED <<fast, snap, buffer, frun, flushes, fcrashes, twice, cut>>

WriteRow(t) ==
    /\ flusher[t].pc = "writing"
    /\ snap' = [snap EXCEPT ![flusher[t].job] = [stage |-> flusher[t].stage, sources |-> flusher[t].sources]]
    /\ flusher' = [flusher EXCEPT ![t].pc = "free"]
    /\ UNCHANGED <<fast, buffer, frun, flushes, fcrashes, twice, cut>>

-----------------------------------------------------------------------------
\* A fast job is in no map of running tasks: a cancel only writes the rows.
CancelFast(j) ==
    /\ fast[j].job \in {"pending", "running"}
    /\ fast' = [fast EXCEPT ![j].job = "failed"]
    /\ cut' = cut \union {j}
    /\ UNCHANGED <<snap, buffer, frun, flusher, flushes, fcrashes, twice>>

\* The process dies, perhaps between two commits of a run's last step.
CrashFast ==
    /\ fcrashes < MaxFastCrashes /\ fcrashes' = fcrashes + 1
    /\ \/ UNCHANGED <<fast, snap>>
       \/ \E r \in FastRuns, k \in 1 .. 2 :
            /\ frun[r].pc = "thinking"
            /\ fast' = [fast EXCEPT ![frun[r].job] = Completed(@, k)]
            /\ snap' = Final(r, k, "completed")
    /\ cut' = cut \union {frun[r].job : r \in {u \in FastRuns : frun[u].pc \in {"new", "collecting", "thinking"}}}
    /\ frun' = [r \in FastRuns |-> IF frun[r].pc = "idle" THEN frun[r] ELSE [frun[r] EXCEPT !.pc = "over"]]
    /\ buffer' = [j \in FastJobs |-> "none"]
    /\ flusher' = [t \in Flushers |-> [flusher[t] EXCEPT !.pc = "free"]]
    /\ flushes' = [j \in FastJobs |-> 0]
    /\ UNCHANGED twice

-----------------------------------------------------------------------------
FastInit ==
    /\ fast = [j \in FastJobs |-> NoFast]
    /\ snap = [j \in FastJobs |-> [stage |-> "none", sources |-> FALSE]]
    /\ buffer = [j \in FastJobs |-> "none"]
    /\ frun = [r \in FastRuns |-> [job |-> CHOOSE j \in FastJobs : TRUE, pc |-> "idle"]]
    /\ flusher = [t \in Flushers |-> [pc |-> "free", job |-> CHOOSE j \in FastJobs : TRUE,
                                      stage |-> "none", sources |-> FALSE]]
    /\ flushes = [j \in FastJobs |-> 0]
    /\ fcrashes = 0 /\ twice = {} /\ cut = {}

FastNext ==
    \/ \E j \in FastJobs : CreateFast(j) \/ AgainFast(j) \/ DispatchFast(j) \/ CancelFast(j)
    \/ \E r \in FastRuns : BeginFast(r) \/ Reason(r) \/ FinishFast(r) \/ FailFast(r) \/ FailAgain(r)
    \/ \E t \in Flushers : (\E j \in FastJobs : TakeFlush(t, j)) \/ ReadRow(t) \/ WriteRow(t)
    \/ CrashFast

FastSpec == FastInit /\ [][FastNext]_fastVars

-----------------------------------------------------------------------------
\* The type of every variable.
FastTypeOK ==
    /\ \A j \in FastJobs :
         /\ fast[j].job \in {"none", "queued", "pending", "running", "completed", "failed"}
         /\ fast[j].row \in FastRows
         /\ fast[j].report \in {"none", "pending", "completed", "failed"}
         /\ fast[j].ledger \subseteq {"reserve", "commit", "refund"}
    /\ \A r \in FastRuns : frun[r].pc \in {"idle", "new", "collecting", "thinking", "over"}
    /\ \A t \in Flushers : flusher[t].pc \in {"free", "copied", "writing"}

\* When a job's runs are over, job, fast-analysis row and report tell the same
\* outcome, and a failure has cost nothing: wherever an exception cut the success
\* short, also after the charge, what was reserved is given back.  Only a crash,
\* a cancel and a failing failure handler leave them at odds.
FastOutcomeAgrees ==
    \A j \in FastJobs \ cut :
       (InRun(j) = {} /\ fast[j].job \in {"completed", "failed"}) =>
          /\ fast[j].job = fast[j].report
          /\ fast[j].row = IF fast[j].job = "completed" THEN "done" ELSE "failed"
          /\ fast[j].job = "failed" /\ "reserve" \in fast[j].ledger => "refund" \in fast[j].ledger
          /\ fast[j].job = "completed" /\ j \notin twice => "refund" \notin fast[j].ledger

\* The sources in the snapshot of a finished run are not lost to a progress flush
\* that was under way when it finished, whatever the threads' order (its stage is: the
\* progress is copied before the lock); only a second run of the job drops them.
FinalSnapshotKept ==
    [][\A j \in FastJobs \ twice : snap[j].sources => snap'[j].sources]_fastVars

\* What the store, the rows and the ledger say of a fast analysis is one story, and it
\* is not taken back.
FastTellsOneStory == []FastOutcomeAgrees /\ FinalSnapshotKept
=============================================================================
