----------------------------- MODULE TaskQueue -----------------------------
(***************************************************************************)
(* The per-user task queue of the API process: what api/services/          *)
(* task_queue_service.py keeps in the database, and the handlers of        *)
(* api/main.py, api/routers/tasks.py and fast_analysis_service.py that     *)
(* submit, dispatch, pause, reorder, cancel and run jobs through it.       *)
(*                                                                         *)
(* Every query of the code filters on one user, so the module is the queue *)
(* of one user.  A handler is a process with one step per database         *)
(* statement that another thread can come between: the submission of each  *)
(* job, a set of dispatcher tasks, a set of client requests, the runs.     *)
(* SQLite holds the write lock from the first DML statement to the commit, *)
(* so DELETE, compaction and COMMIT are one step; the SELECTs before them  *)
(* are steps of their own.                                                 *)
(***************************************************************************)
EXTENDS Naturals, FiniteSets

CONSTANTS
    Jobs,         \* the jobs the user submits, each at most once
    FastJobs,     \* those submitted as fast analyses (PRIORITY_HIGH, no keepalive)
    Dispatchers,  \* _dispatch_next_queued_job_for_user tasks alive at a time
    Clients,      \* request threads working on queued rows at a time
    MaxQueue,     \* max_queue_size()
    MaxKicks,     \* bound: dispatcher tasks created and not begun (saturates)
    MaxCrashes,   \* bound: crashes of the API process, and with them reclaims
    NoJob         \* "no job", outside Jobs

ASSUME JobsAssumption == IsFiniteSet(Jobs) /\ NoJob \notin Jobs /\ FastJobs \subseteq Jobs
ASSUME BoundsAssumption == MaxQueue \in Nat \ {0} /\ MaxKicks \in Nat \ {0} /\ MaxCrashes \in Nat

VARIABLES
    status,      \* AnalysisJobDB.status; "none" before the row exists
    rowst,       \* UserTaskQueueDB.queue_status; "none" when there is no row
    ord,         \* sort_order of the row, or the value read for the row to come
    born,        \* rank of the row's created_at; 0 before enqueue_job took it
    lapsed,      \* jobs whose lease ran out or was released
    sub,         \* program counter of the job's submission
    disp,        \* program counter of a dispatcher
    djob,        \* the row a dispatcher picked
    client,      \* program counter of a client request
    cjob,        \* the job it is about
    launched,    \* run tasks created for the job that have not begun
    executing,   \* run tasks of the job that set it running
    kicks,       \* dispatcher tasks created and not begun
    crashes,     \* crashes so far
    starts,      \* history: how often the job was handed to a runner
    direct,      \* history: jobs whose latest start was by their submission, past the queue
    cancelled,   \* history: jobs whose cancellation was acknowledged
    interrupted  \* history: jobs a crash caught in a submission, a dispatch or a
                 \* run, or that were reclaimed after it

dbVars   == <<status, rowst, ord, born, lapsed>>
runVars  == <<launched, executing, starts, direct>>
histVars == <<crashes, cancelled, interrupted>>
vars == <<status, rowst, ord, born, lapsed, sub, disp, djob, client, cjob,
          launched, executing, kicks, crashes, starts, direct, cancelled, interrupted>>

Active   == {"pending", "running", "resuming"}   \* ACTIVE_RUNNING_STATUSES
Waiting  == {"queued", "paused"}
Terminal == {"completed", "failed"}
Statuses == Active \union Waiting \union Terminal \union {"none"}

-----------------------------------------------------------------------------
(* The database as the handlers read it.                                   *)

Rows       == {j \in Jobs : rowst[j] # "none"}
QueuedRows == {j \in Jobs : rowst[j] = "queued"}

\* ORDER BY sort_order, created_at
Before(i, j) == ord[i] < ord[j] \/ (ord[i] = ord[j] /\ born[i] < born[j])

NextOrder == IF Rows = {} THEN 0
             ELSE 1 + (CHOOSE n \in {ord[j] : j \in Rows} : \A k \in Rows : ord[k] <= n)

\* Mutant of Compacted: ranks one too low
CompactedFromBelow(rows) ==
    [j \in Jobs |-> IF j \in rows THEN Cardinality({k \in rows : Before(k, j)}) - 1 ELSE ord[j]]

\* _compact_user_sort_order, once the rows are down to `rows`
Compacted(rows) ==
    [j \in Jobs |-> IF j \in rows THEN Cardinality({k \in rows : Before(k, j)})
                    ELSE IF rowst[j] # "none" THEN 0 ELSE ord[j]]

\* has_active_running_job, and its mutant that overlooks rows still pending
OnlyRunningCounts(j) == \E k \in Jobs \ {j} : status[k] = "running"
HasActiveOther(j) == \E k \in Jobs \ {j} : status[k] \in Active

\* row_blocks_user_task_queue_dispatch: reclaim-eligible rows do not block
\* (mutant: they do)
EveryActiveRowBlocks(j) == status[j] \in Active
Blocks(j) == status[j] \in Active /\ j \notin lapsed

Kick == kicks' = IF kicks < MaxKicks THEN kicks + 1 ELSE kicks

SetStatus(j, s) == status' = [status EXCEPT ![j] = s]

-----------------------------------------------------------------------------
(* Submission of job j: analyze, chat, tasks.submit, create_fast_analysis_job *)

Goto(j, pc) == sub' = [sub EXCEPT ![j] = pc]

\* The job row is committed as "pending" before the queue is looked at.
Submit(j) ==
    /\ sub[j] = "new"
    /\ Goto(j, "upserted")
    /\ SetStatus(j, "pending")
    /\ UNCHANGED <<rowst, ord, born, lapsed, runVars, histVars, disp, djob, client, cjob, kicks>>

CheckActive(j) ==
    /\ sub[j] = "upserted"
    /\ Goto(j, IF HasActiveOther(j) THEN "check_size" ELSE "check_queue")
    /\ UNCHANGED <<dbVars, runVars, histVars, disp, djob, client, cjob, kicks>>

CheckQueue(j) ==
    /\ sub[j] = "check_queue"
    /\ Goto(j, IF Rows # {} THEN "check_size" ELSE "start")
    /\ UNCHANGED <<dbVars, runVars, histVars, disp, djob, client, cjob, kicks>>

\* queue_size() < max_queue_size(), then enqueue_job takes created_at
CheckSize(j) ==
    /\ sub[j] = "check_size"
    /\ Cardinality(Rows) < MaxQueue
    /\ Goto(j, IF j \in FastJobs THEN "insert" ELSE "read_order")
    /\ born' = [born EXCEPT ![j] = 1 + Cardinality({k \in Jobs : born[k] > 0})]
    /\ UNCHANGED <<status, rowst, ord, lapsed, runVars, histVars, disp, djob, client, cjob, kicks>>

Reject(j) ==
    /\ sub[j] = "check_size"
    /\ Cardinality(Rows) >= MaxQueue
    /\ Goto(j, "done")
    /\ SetStatus(j, "failed")
    /\ UNCHANGED <<rowst, ord, born, lapsed, runVars, histVars, disp, djob, client, cjob, kicks>>

ReadOrder(j) ==
    /\ sub[j] = "read_order"
    /\ Goto(j, "insert")
    /\ ord' = [ord EXCEPT ![j] = NextOrder]
    /\ UNCHANGED <<status, rowst, born, lapsed, runVars, histVars, disp, djob, client, cjob, kicks>>

\* PRIORITY_NORMAL goes to the order read before; PRIORITY_HIGH to 0, all
\* other rows one back (its SELECT and its commit are one step here).
Insert(j) ==
    /\ sub[j] = "insert"
    /\ Goto(j, "mark")
    /\ rowst' = [rowst EXCEPT ![j] = "queued"]
    /\ ord' = IF j \in FastJobs
              THEN [k \in Jobs |-> IF k \in Rows THEN ord[k] + 1 ELSE ord[k]]
              ELSE ord
    /\ UNCHANGED <<status, born, lapsed, runVars, histVars, disp, djob, client, cjob, kicks>>

MarkQueued(j) ==
    /\ sub[j] = "mark"
    /\ Goto(j, "post")
    /\ SetStatus(j, "queued")
    /\ UNCHANGED <<rowst, ord, born, lapsed, runVars, histVars, disp, djob, client, cjob, kicks>>

\* Back on the event loop a full analysis writes "queued" once more (_set_job);
\* both kinds then ask for a dispatcher.
PostQueued(j) ==
    /\ sub[j] = "post"
    /\ Goto(j, "done")
    /\ IF j \in FastJobs THEN UNCHANGED status ELSE SetStatus(j, "queued")
    /\ Kick
    /\ UNCHANGED <<rowst, ord, born, lapsed, runVars, histVars, disp, djob, client, cjob>>

StartDirect(j) ==
    /\ sub[j] = "start"
    /\ Goto(j, "done")
    /\ launched' = [launched EXCEPT ![j] = @ + 1]
    /\ starts' = [starts EXCEPT ![j] = @ + 1]
    /\ direct' = direct \union {j}
    /\ UNCHANGED <<dbVars, executing, histVars, disp, djob, client, cjob, kicks>>

SubmitStep(j) ==
    CheckActive(j) \/ CheckQueue(j) \/ CheckSize(j) \/ Reject(j) \/ ReadOrder(j)
        \/ Insert(j) \/ MarkQueued(j) \/ PostQueued(j) \/ StartDirect(j)

-----------------------------------------------------------------------------
(* _dispatch_next_queued_job_for_user and dequeue_next_job                  *)

\* The watchdog asks for a dispatcher while a row is queued.
Watchdog ==
    /\ QueuedRows # {} /\ kicks < MaxKicks
    /\ Kick
    /\ UNCHANGED <<dbVars, sub, runVars, histVars, disp, djob, client, cjob>>

DispatchBlocked(d) ==
    /\ disp[d] = "idle" /\ kicks > 0
    /\ \E j \in Jobs : Blocks(j)
    /\ kicks' = kicks - 1
    /\ UNCHANGED <<dbVars, sub, runVars, histVars, disp, djob, client, cjob>>

DispatchClear(d) ==
    /\ disp[d] = "idle" /\ kicks > 0
    /\ \A j \in Jobs : ~Blocks(j)
    /\ kicks' = kicks - 1
    /\ disp' = [disp EXCEPT ![d] = "clear"]
    /\ UNCHANGED <<dbVars, sub, runVars, histVars, djob, client, cjob>>

FindNothing(d) ==
    /\ disp[d] = "clear"
    /\ QueuedRows = {}
    /\ disp' = [disp EXCEPT ![d] = "idle"]
    /\ UNCHANGED <<dbVars, sub, runVars, histVars, djob, client, cjob, kicks>>

PickNext(d) ==
    /\ disp[d] = "clear"
    /\ \E j \in QueuedRows :
          /\ \A k \in QueuedRows \ {j} : ~Before(k, j)
          /\ djob' = [djob EXCEPT ![d] = j]
    /\ disp' = [disp EXCEPT ![d] = "picked"]
    /\ UNCHANGED <<dbVars, sub, runVars, histVars, client, cjob, kicks>>

\* Mutants of DeleteRow: by sort_order instead of by id; no commit.
DeleteByOrder(d) ==
    LET gone == {j \in Rows : ord[j] = ord[djob[d]]} IN
    /\ disp[d] = "picked"
    /\ disp' = [disp EXCEPT ![d] = "dequeued"]
    /\ rowst' = [j \in Jobs |-> IF j \in gone \union {djob[d]} THEN "none" ELSE rowst[j]]
    /\ ord' = Compacted(Rows \ gone)
    /\ UNCHANGED <<status, born, lapsed, sub, djob, runVars, histVars, client, cjob, kicks>>

DeleteUncommitted(d) ==
    /\ disp[d] = "picked"
    /\ disp' = [disp EXCEPT ![d] = "dequeued"]
    /\ UNCHANGED <<dbVars, sub, djob, runVars, histVars, client, cjob, kicks>>

\* A DELETE that matches no row only warns: the payload is returned all the same.
DeleteRow(d) ==
    /\ disp[d] = "picked"
    /\ disp' = [disp EXCEPT ![d] = "dequeued"]
    /\ rowst' = [rowst EXCEPT ![djob[d]] = "none"]
    /\ ord' = Compacted(Rows \ {djob[d]})
    /\ UNCHANGED <<status, born, lapsed, sub, djob, runVars, histVars, client, cjob, kicks>>

Release(d) ==
    /\ disp' = [disp EXCEPT ![d] = "idle"]
    /\ djob' = [djob EXCEPT ![d] = NoJob]

\* Writing "pending" stamps the row anew, so the grace period runs again.
StartDequeued(d) ==
    /\ disp[d] = "dequeued"
    /\ SetStatus(djob[d], "pending")
    /\ lapsed' = lapsed \ {djob[d]}
    /\ launched' = [launched EXCEPT ![djob[d]] = @ + 1]
    /\ starts' = [starts EXCEPT ![djob[d]] = @ + 1]
    /\ Release(d)
    /\ UNCHANGED <<rowst, ord, born, sub, executing, direct, histVars, client, cjob, kicks>>

\* AnalyzeRequest(**payload) fails: the job is failed at once.
FailDequeued(d) ==
    /\ disp[d] = "dequeued" /\ djob[d] \notin FastJobs
    /\ SetStatus(djob[d], "failed")
    /\ starts' = [starts EXCEPT ![djob[d]] = @ + 1]
    /\ Release(d)
    /\ Kick
    /\ UNCHANGED <<rowst, ord, born, lapsed, sub, launched, executing, direct, histVars, client, cjob>>

DispatchStep(d) ==
    DispatchBlocked(d) \/ DispatchClear(d) \/ FindNothing(d) \/ PickNext(d)
        \/ DeleteRow(d) \/ StartDequeued(d) \/ FailDequeued(d)

-----------------------------------------------------------------------------
(* The run of a job, as far as the queue sees it: _run_job, run_fast_analysis_job *)

\* merge_request_payload renews the lease of a full analysis.
RunBegin(j) ==
    /\ launched[j] > 0
    /\ launched' = [launched EXCEPT ![j] = @ - 1]
    /\ executing' = [executing EXCEPT ![j] = @ + 1]
    /\ SetStatus(j, "running")
    /\ lapsed' = IF j \in FastJobs THEN lapsed ELSE lapsed \ {j}
    /\ UNCHANGED <<rowst, ord, born, sub, starts, direct, histVars, disp, djob, client, cjob, kicks>>

\* A full analysis does not begin.  Not enough credits, or the user's cancel,
\* fails it; an exception before the analysis leaves the status as it is, and its
\* row without a lease (LeaseLapse, at once or after the grace period).
RunRefused(j) ==
    /\ launched[j] > 0 /\ j \notin FastJobs
    /\ launched' = [launched EXCEPT ![j] = @ - 1]
    /\ status' \in {status, [status EXCEPT ![j] = "failed"]}
    /\ Kick
    /\ UNCHANGED <<rowst, ord, born, lapsed, sub, executing, starts, direct, histVars, disp, djob, client, cjob>>

\* Success, failure, cancellation or timeout: the final status, then a dispatcher.
RunEnd(j) ==
    /\ executing[j] > 0
    /\ executing' = [executing EXCEPT ![j] = @ - 1]
    /\ \E s \in Terminal : SetStatus(j, s)
    /\ lapsed' = IF j \in FastJobs THEN lapsed ELSE lapsed \union {j}
    /\ Kick
    /\ UNCHANGED <<rowst, ord, born, sub, launched, starts, direct, histVars, disp, djob, client, cjob>>

\* No keepalive renews the lease: a fast run, or a row nobody works on.
LeaseLapse(j) ==
    /\ status[j] \in Active /\ j \notin lapsed
    /\ launched[j] = 0 /\ sub[j] = "done" /\ \A d \in Dispatchers : djob[d] # j
    /\ executing[j] = 0 \/ j \in FastJobs
    /\ lapsed' = lapsed \union {j}
    /\ UNCHANGED <<status, rowst, ord, born, sub, runVars, histVars, disp, djob, client, cjob, kicks>>

-----------------------------------------------------------------------------
(* The user's requests on queued rows (threads of the pool), and the cancel *)
(* endpoint (one step of the event loop).                                   *)

Serve(c, pc, j) ==
    /\ client' = [client EXCEPT ![c] = pc]
    /\ cjob' = [cjob EXCEPT ![c] = j]

\* Pause and resume commit the queue row first and the job row second.
PauseRow(c, j) ==
    /\ client[c] = "idle" /\ j \in Rows
    /\ rowst' = [rowst EXCEPT ![j] = "paused"]
    /\ Serve(c, "pausing", j)
    /\ UNCHANGED <<status, ord, born, lapsed, sub, runVars, histVars, disp, djob, kicks>>

PauseJob(c) ==
    /\ client[c] = "pausing"
    /\ SetStatus(cjob[c], "paused")
    /\ Serve(c, "idle", NoJob)
    /\ UNCHANGED <<rowst, ord, born, lapsed, sub, runVars, histVars, disp, djob, kicks>>

ResumeRow(c, j) ==
    /\ client[c] = "idle" /\ j \in Rows
    /\ rowst' = [rowst EXCEPT ![j] = "queued"]
    /\ Serve(c, "resuming", j)
    /\ UNCHANGED <<status, ord, born, lapsed, sub, runVars, histVars, disp, djob, kicks>>

ResumeJob(c) ==
    /\ client[c] = "resuming"
    /\ SetStatus(cjob[c], "queued")
    /\ Serve(c, "idle", NoJob)
    /\ Kick
    /\ UNCHANGED <<rowst, ord, born, lapsed, sub, runVars, histVars, disp, djob>>

\* reorder_queue: the ids sent are the rows, in a new order
Reorder ==
    /\ Clients # {} /\ Rows # {}
    /\ \E f \in [Rows -> 0 .. Cardinality(Rows) - 1] :
          /\ \A i, j \in Rows : f[i] = f[j] => i = j
          /\ ord' = [j \in Jobs |-> IF j \in Rows THEN f[j] ELSE ord[j]]
    /\ Kick
    /\ UNCHANGED <<status, rowst, born, lapsed, sub, runVars, histVars, disp, djob, client, cjob>>

\* remove_queued_job on a thread: the row is read first, then deleted
RemoveRead(c, j) ==
    /\ client[c] = "idle" /\ j \in Rows
    /\ Serve(c, "removing", j)
    /\ UNCHANGED <<dbVars, sub, runVars, histVars, disp, djob, kicks>>

RemoveRow(c) ==
    LET j == cjob[c] IN
    /\ client[c] = "removing"
    /\ rowst' = [rowst EXCEPT ![j] = "none"]
    /\ ord' = Compacted(Rows \ {j})
    /\ IF status[j] \in Waiting \union {"pending"} THEN SetStatus(j, "failed") ELSE UNCHANGED status
    /\ cancelled' = cancelled \union {j}
    /\ Serve(c, "idle", NoJob)
    /\ Kick
    /\ UNCHANGED <<born, lapsed, sub, runVars, crashes, interrupted, disp, djob>>

\* _cancel_analysis_job_core on a waiting job
CancelQueued(j) ==
    /\ Clients # {} /\ status[j] \in Waiting /\ j \in Rows
    /\ rowst' = [rowst EXCEPT ![j] = "none"]
    /\ ord' = Compacted(Rows \ {j})
    /\ SetStatus(j, "failed")
    /\ cancelled' = cancelled \union {j}
    /\ Kick
    /\ UNCHANGED <<born, lapsed, sub, runVars, crashes, interrupted, disp, djob, client, cjob>>

\* ... and on an active job no task of this process is registered for; fast runs
\* never are, so that this does not stop them.
CancelFallback(j) ==
    /\ Clients # {} /\ status[j] \in Active
    /\ executing[j] = 0 \/ j \in FastJobs
    /\ SetStatus(j, "failed")
    /\ lapsed' = lapsed \union {j}
    /\ cancelled' = cancelled \union {j}
    /\ Kick
    /\ UNCHANGED <<rowst, ord, born, sub, runVars, crashes, interrupted, disp, djob, client, cjob>>

ClientStep(c) == PauseJob(c) \/ ResumeJob(c) \/ RemoveRow(c)

ClientRequest ==
    \/ \E c \in Clients, j \in Jobs : PauseRow(c, j) \/ ResumeRow(c, j) \/ RemoveRead(c, j)
    \/ \E j \in Jobs : CancelQueued(j) \/ CancelFallback(j)
    \/ Reorder

-----------------------------------------------------------------------------
(* The process dies and starts again: memory is lost, the rows stay.        *)

Idle == {"new", "done"}

Crash ==
    /\ crashes < MaxCrashes
    /\ crashes' = crashes + 1
    /\ interrupted' = interrupted \union {j \in Jobs : sub[j] \notin Idle}
                                  \union {j \in Jobs : launched[j] + executing[j] > 0}
                                  \union {j \in Jobs : \E d \in Dispatchers : djob[d] = j}
    /\ sub' = [j \in Jobs |-> IF sub[j] = "new" THEN "new" ELSE "done"]
    /\ disp' = [d \in Dispatchers |-> "idle"] /\ djob' = [d \in Dispatchers |-> NoJob]
    /\ client' = [c \in Clients |-> "idle"] /\ cjob' = [c \in Clients |-> NoJob]
    /\ launched' = [j \in Jobs |-> 0] /\ executing' = [j \in Jobs |-> 0]
    /\ kicks' = 0 /\ direct' = {}
    /\ UNCHANGED <<dbVars, starts, cancelled>>

\* The reconcile pass of a start, or the resume endpoint, on a row whose lease
\* lapsed with its worker (the resume of a live job belongs to module JobLease).
Reclaim(j) ==
    /\ crashes > 0 /\ status[j] \in Active /\ j \in lapsed
    /\ launched[j] = 0 /\ executing[j] = 0 /\ starts[j] <= crashes
    /\ SetStatus(j, "resuming")
    /\ lapsed' = lapsed \ {j}
    /\ launched' = [launched EXCEPT ![j] = @ + 1]
    /\ starts' = [starts EXCEPT ![j] = @ + 1]
    /\ direct' = direct \ {j} /\ interrupted' = interrupted \union {j}
    /\ UNCHANGED <<rowst, ord, born, sub, executing, crashes, cancelled, disp, djob, client, cjob, kicks>>

-----------------------------------------------------------------------------
Init ==
    /\ status = [j \in Jobs |-> "none"] /\ rowst = [j \in Jobs |-> "none"]
    /\ ord = [j \in Jobs |-> 0] /\ born = [j \in Jobs |-> 0] /\ lapsed = {}
    /\ sub = [j \in Jobs |-> "new"]
    /\ disp = [d \in Dispatchers |-> "idle"] /\ djob = [d \in Dispatchers |-> NoJob]
    /\ client = [c \in Clients |-> "idle"] /\ cjob = [c \in Clients |-> NoJob]
    /\ launched = [j \in Jobs |-> 0] /\ executing = [j \in Jobs |-> 0]
    /\ kicks = 0 /\ crashes = 0
    /\ starts = [j \in Jobs |-> 0]
    /\ direct = {} /\ cancelled = {} /\ interrupted = {}

Next ==
    \/ \E j \in Jobs : Submit(j) \/ SubmitStep(j)
    \/ Watchdog
    \/ \E d \in Dispatchers : DispatchStep(d)
    \/ \E j \in Jobs : RunBegin(j) \/ RunRefused(j) \/ RunEnd(j) \/ LeaseLapse(j)
    \/ \E c \in Clients : ClientStep(c)
    \/ ClientRequest
    \/ Crash
    \/ \E j \in Jobs : Reclaim(j)

Spec == Init /\ [][Next]_vars

\* No actor of the user is fair: requests may stop.  The rest is a loop, a timer
\* or a task of the event loop: the watchdog sleeps and wakes, a run ends by its
\* timeout at the latest, a lease nobody renews runs out.
Fairness ==
    /\ WF_vars(Watchdog)
    /\ \A j \in Jobs : /\ WF_vars(SubmitStep(j))
                       /\ WF_vars(RunBegin(j) \/ RunRefused(j))
                       /\ WF_vars(RunEnd(j))
                       /\ WF_vars(LeaseLapse(j))
    /\ \A d \in Dispatchers : WF_vars(DispatchStep(d))
    /\ \A c \in Clients : WF_vars(ClientStep(c))

FairSpec == Spec /\ Fairness

-----------------------------------------------------------------------------
(* What is true of the queue.                                              *)

SubPCs == {"new", "upserted", "check_queue", "check_size", "read_order",
           "insert", "mark", "post", "start", "done"}

\* The type of every variable.
TypeOK ==
    /\ status \in [Jobs -> Statuses]
    /\ rowst \in [Jobs -> {"none", "queued", "paused"}]
    /\ ord \in [Jobs -> Nat] /\ born \in [Jobs -> Nat]
    /\ lapsed \subseteq Jobs
    /\ sub \in [Jobs -> SubPCs]
    /\ disp \in [Dispatchers -> {"idle", "clear", "picked", "dequeued"}]
    /\ djob \in [Dispatchers -> Jobs \union {NoJob}]
    /\ client \in [Clients -> {"idle", "pausing", "resuming", "removing"}]
    /\ cjob \in [Clients -> Jobs \union {NoJob}]
    /\ launched \in [Jobs -> Nat] /\ executing \in [Jobs -> Nat] /\ starts \in [Jobs -> Nat]
    /\ kicks \in Nat /\ crashes \in Nat
    /\ direct \subseteq Jobs /\ cancelled \subseteq Jobs /\ interrupted \subseteq Jobs

Live(j) == launched[j] + executing[j] > 0
Held(j) == \E d \in Dispatchers : disp[d] = "dequeued" /\ djob[d] = j
StartedDirectly(j) == sub[j] = "start" \/ (j \in direct /\ Live(j))

\* The submissions of one user race without a lock: each commits its job row
\* as pending and then looks for another active row.  Two of them never both
\* start past the queue and are alive together, unless the user cancelled one
\* of the two while it was starting (main.py 1618-1626).
DirectStartExclusion ==
    \A i, j \in Jobs \ cancelled :
        i # j => ~(StartedDirectly(i) /\ StartedDirectly(j))

\* A row of the queue stands for a job that still waits: it has not been given
\* to a runner, and it has not ended unless the user cancelled it or a crash
\* caught its submission between the queue row and the job row.
RowMeansWaiting ==
    \A j \in Rows \ interrupted :
        /\ starts[j] = 0
        /\ j \in cancelled \/ status[j] \in Waiting \union {"pending"}

\* A job that says it waits can be found: it has a queue row or a dispatcher
\* has it in hand, unless it was given to a runner before, was cancelled, or a
\* crash hit the handler that had it.  No interleaving of the submission, the
\* dispatchers and pause or resume strands a job that never ran.
NoJobStranded ==
    \A j \in Jobs \ (cancelled \union interrupted) :
        (status[j] \in Waiting /\ starts[j] = 0) => (j \in Rows \/ Held(j))

\* One dispatcher at a time gives a job to a runner once.
StartedOnce == \A j \in Jobs \ interrupted : starts[j] <= 1

\* Whatever crashes, leases and requests do, a queued row does not stay at
\* the queue for ever: it is dispatched, paused or removed (the reason
\* row_blocks_user_task_queue_dispatch gives for ignoring lapsed rows).
QueueDrains == \A j \in Jobs : (rowst[j] = "queued") ~> (rowst[j] # "queued")

\* A job the queue accepted is eventually given to a runner, or sits paused, or
\* the user cancelled it, or a crash interrupted it.
AcceptedJobSettles ==
    \A j \in Jobs :
        (sub[j] = "post") ~>
            (starts[j] > 0 \/ rowst[j] = "paused" \/ j \in cancelled \union interrupted)

\* The queue moves on: neither the rows in it nor the jobs it accepted wait for ever.
QueueSettles == QueueDrains /\ AcceptedJobSettles

\* The watchdog's docstring, "periodic self-heal for queued tasks that should
\* have been dispatched" (main.py:319): no job that never ran is queued for ever.
QueuedJobsHeal ==
    \A j \in Jobs : (status[j] = "queued" /\ starts[j] = 0) ~> (status[j] # "queued" \/ starts[j] > 0)

\* The comment at main.py:1682: a queued job is taken out and started when no
\* job is running.
NeverTwoRunning == Cardinality({j \in Jobs : Live(j)}) <= 1
=============================================================================
