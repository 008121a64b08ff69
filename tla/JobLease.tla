------------------------------ MODULE JobLease ------------------------------
(***************************************************************************)
(* The lease on the row of one full analysis job, with several API         *)
(* processes on one database (api/services/analysis_job_service.py): the   *)
(* process that runs the job renews it, the reconcile pass of a start and  *)
(* the resume endpoint claim a job whose lease has lapsed, and every run   *)
(* releases it when it is over.  What JobRun says of one process is left   *)
(* out: a run here lives, ends or dies.                                    *)
(***************************************************************************)
EXTENDS Naturals, FiniteSets

CONSTANTS
    Processes,
    Nobody,       \* lease_owner is NULL
    MaxClaims,    \* bound: claims that succeed
    MaxDeaths     \* bound: crashes

ASSUME LeaseAssumption ==
    Nobody \notin Processes /\ MaxClaims \in Nat /\ MaxDeaths \in Nat

VARIABLES
    jobRow,    \* status, whether lease_until is in the future, lease_owner, attempt_count
    live,      \* runs of the job in each process
    alive,     \* processes that are up
    claimer,   \* a claim in hand: "none", "listed" by the reconcile pass, then the
               \* row "read" with a lease in force, or "stale"
    deaths,
    winners,   \* history: processes whose claim of a stale row won since the lease
               \* was last renewed or released
    beaten     \* history: a claim was committed on a row another one had written since
               \* it was read, or on a run its own process had, or on one that had
               \* not yet renewed its lease

leaseVars == <<jobRow, live, alive, claimer, deaths, winners, beaten>>

LiveRuns == {p \in Processes : live[p] > 0}
ClaimStatuses == {"pending", "running", "resuming"}

-----------------------------------------------------------------------------
\* _lease_keepalive, every 45 seconds while the run lives: the renewing process is
\* the owner, whoever was.
RenewLease(p) ==
    /\ live[p] > 0
    /\ jobRow' = [jobRow EXCEPT !.valid = TRUE, !.owner = p]
    /\ winners' = {}
    /\ UNCHANGED <<live, alive, claimer, deaths, beaten>>

\* Fifteen minutes pass without a renewal: no run lives.
LapseLease ==
    /\ jobRow.valid /\ LiveRuns = {}
    /\ jobRow' = [jobRow EXCEPT !.valid = FALSE]
    /\ UNCHANGED <<live, alive, claimer, deaths, winners, beaten>>

\* _run_job_inner sets "running".
SetRunning(p) ==
    /\ live[p] > 0 /\ jobRow.status \in {"pending", "resuming"}
    /\ jobRow' = [jobRow EXCEPT !.status = "running"]
    /\ UNCHANGED <<live, alive, claimer, deaths, winners, beaten>>

\* A run is over: the final status, then release_lease, whoever owns the lease.
EndLease(p) ==
    /\ live[p] > 0
    /\ live' = [live EXCEPT ![p] = @ - 1]
    /\ jobRow' = [jobRow EXCEPT !.status = "done", !.valid = FALSE, !.owner = Nobody]
    /\ winners' = {}
    /\ UNCHANGED <<alive, claimer, deaths, beaten>>

Die(p) ==
    /\ p \in alive /\ deaths < MaxDeaths /\ deaths' = deaths + 1
    /\ alive' = alive \ {p}
    /\ live' = [live EXCEPT ![p] = 0]
    /\ claimer' = [claimer EXCEPT ![p] = "none"]
    /\ UNCHANGED <<jobRow, winners, beaten>>

-----------------------------------------------------------------------------
\* A start, and its reconcile pass: list_jobs_to_reclaim.  A pending row must also
\* be older than the grace, which a lapsed lease of an hour implies.
Reconcile(p) ==
    /\ p \notin alive /\ alive' = alive \union {p}
    /\ claimer' = [claimer EXCEPT ![p] =
          IF jobRow.status \in ClaimStatuses /\ ~jobRow.valid THEN "listed" ELSE "none"]
    /\ UNCHANGED <<jobRow, live, deaths, winners, beaten>>

\* The resume endpoint: any process, any time.
AskResume(p) ==
    /\ p \in alive /\ claimer[p] = "none" /\ jobRow.status # "done"
    /\ claimer' = [claimer EXCEPT ![p] = "listed"]
    /\ UNCHANGED <<jobRow, live, alive, deaths, winners, beaten>>

\* Without the owner of a valid lease being looked at (mutant of Claimable).
ClaimableAlways(p) == jobRow.status \in ClaimStatuses

\* The decision of try_claim_for_resume.
Claimable(p) ==
    /\ jobRow.status \in ClaimStatuses
    /\ ~(jobRow.valid /\ jobRow.owner # Nobody /\ jobRow.owner # p)

\* It reads the row
ReadClaim(p) ==
    /\ claimer[p] = "listed"
    /\ claimer' = [claimer EXCEPT ![p] = IF ~Claimable(p) THEN "none" ELSE IF jobRow.valid THEN "read" ELSE "stale"]
    /\ beaten' = (beaten \/ (Claimable(p) /\ LiveRuns # {} /\ jobRow.owner \in {Nobody, p}))
    /\ UNCHANGED <<jobRow, live, alive, deaths, winners>>

\* and writes it, whatever happened to it in between; then the run is started.
CommitClaim(p) ==
    /\ claimer[p] \in {"read", "stale"} /\ jobRow.attempts < MaxClaims
    /\ jobRow' = [status |-> "resuming", valid |-> TRUE, owner |-> p, attempts |-> jobRow.attempts + 1]
    /\ claimer' = [claimer EXCEPT ![p] = "none"]
    /\ live' = [live EXCEPT ![p] = @ + 1]
    /\ winners' = IF claimer[p] = "stale" THEN winners \union {p} ELSE winners
    /\ beaten' = (beaten \/ \E q \in Processes \ {p} : claimer[q] \in {"read", "stale"})
    /\ UNCHANGED <<alive, deaths>>

-----------------------------------------------------------------------------
\* The job has been submitted: its process runs it, the lease has no owner yet.
LeaseInit ==
    /\ alive = Processes
    /\ \E p \in Processes : live = [q \in Processes |-> IF q = p THEN 1 ELSE 0]
    /\ jobRow = [status |-> "pending", valid |-> TRUE, owner |-> Nobody, attempts |-> 0]
    /\ claimer = [p \in Processes |-> "none"]
    /\ deaths = 0 /\ winners = {} /\ beaten = FALSE

LeaseNext ==
    \/ LapseLease
    \/ \E p \in Processes :
         \/ RenewLease(p) \/ SetRunning(p) \/ EndLease(p) \/ Die(p)
         \/ Reconcile(p) \/ AskResume(p) \/ ReadClaim(p) \/ CommitClaim(p)

LeaseSpec == LeaseInit /\ [][LeaseNext]_leaseVars

-----------------------------------------------------------------------------
\* The type of every variable.
LeaseTypeOK ==
    /\ jobRow \in [status : ClaimStatuses \union {"done"}, valid : BOOLEAN,
                   owner : Processes \union {Nobody}, attempts : 0 .. MaxClaims]
    /\ live \in [Processes -> Nat] /\ alive \subseteq Processes
    /\ claimer \in [Processes -> {"none", "listed", "read", "stale"}]
    /\ deaths \in 0 .. MaxDeaths /\ winners \subseteq Processes /\ beaten \in BOOLEAN

\* The job is run by one process at a time, through crashes, restarts and resumes
\* at any process, as long as no claim was beaten: none committed after another one
\* had read the same row, and none was made by the owner itself or before the first
\* renewal.
OneRunAtATime ==
    ~beaten => \A p, q \in Processes : live[p] > 0 /\ live[q] > 0 => p = q /\ live[p] = 1

\* "Atomically claim a stale job for resume (single winner per expiry window)":
\* between two renewals or releases of the lease one claim wins.
SingleWinner == Cardinality(winners) <= 1
=============================================================================
