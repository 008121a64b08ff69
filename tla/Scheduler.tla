------------------------------ MODULE Scheduler ------------------------------
(***************************************************************************)
(* Stored analyses that run once on each trading day, at night: the loop   *)
(* of scheduler/main.py, the rows of scheduled_service.py, and the trigger *)
(* endpoints with which a user runs a stored analysis by hand in the API   *)
(* process.  The two processes share the rows and the reports only, and    *)
(* each can crash without the other.                                       *)
(*                                                                         *)
(* A day has three parts: the night before 08:00, the hours in which       *)
(* nothing is started, and the evening from 20:00.  A task's trigger time  *)
(* lies in the first or the last.  What a run does inside is JobRun; here  *)
(* it ends well, ends badly or is given up by the timeout and lives on.    *)
(***************************************************************************)
EXTENDS Naturals, FiniteSets

CONSTANTS
    SchedTasks,      \* rows of scheduled_analyses, one per symbol
    SchedRuns,       \* job ids
    NoSchedRun,      \* a row without last_report_id
    Slots,           \* SCHEDULER_CONCURRENCY
    MaxItems,        \* MAX_SCHEDULED_ITEMS
    FailLimit,       \* failures in a row that deactivate a task (3)
    LastDay,         \* bound: the days modelled
    TradingDays,     \* is_cn_trading_day
    MaxEvents        \* bound: edits, runs by hand and crashes, together

ASSUME SchedAssumption ==
    /\ NoSchedRun \notin SchedRuns
    /\ FailLimit \in Nat \ {0} /\ Slots \in Nat \ {0} /\ LastDay \in Nat

VARIABLES
    item,     \* the rows
    day, part,\* the clock in Shanghai
    tick,     \* the tasks a tick has marked and not launched, and its "today"
    run,      \* what became of a job
    schedUp,  \* the scheduler process is up
    spent,    \* edits, runs by hand and crashes so far
    touched   \* history: tasks whose row a run by hand has written

schedVars == <<item, day, part, tick, run, schedUp, spent, touched>>

Parts == {"night", "closed", "evening"}
Reached(trigger) == trigger = "night" \/ part = "evening"

Row == [live: BOOLEAN, active: BOOLEAN, trigger: {"night", "evening"}, date: Nat,
        status: {"none", "running", "success", "failed", "stale"},
        report: SchedRuns \union {NoSchedRun}, fails: Nat]

NewRow(trigger) == [live |-> TRUE, active |-> TRUE, trigger |-> trigger, date |-> 0,
                    status |-> "none", report |-> NoSchedRun, fails |-> 0]

Unused == [task |-> CHOOSE t \in SchedTasks : TRUE, day |-> 0, hand |-> FALSE,
           pc |-> "unused", report |-> "none", made |-> 0, ended |-> 0]
Free == {r \in SchedRuns : run[r].pc = "unused"}
NextRun(r) == r \in Free /\ r = CHOOSE u \in Free : TRUE

\* reports.created_at is UTC: the night belongs to the day before
UtcDay == IF part = "night" THEN day - 1 ELSE day

-----------------------------------------------------------------------------
(* The rows, as the endpoints change them.                                 *)

Event == spent < MaxEvents /\ spent' = spent + 1

Create(t, trigger) ==
    /\ Event /\ item[t].status = "none" /\ ~item[t].live
    /\ Cardinality({u \in SchedTasks : item[u].live}) < MaxItems
    /\ item' = [item EXCEPT ![t] = NewRow(trigger)]
    /\ UNCHANGED <<day, part, tick, run, schedUp, touched>>

\* is_active = True forgets the failures
Enabled(row) == [row EXCEPT !.active = TRUE, !.fails = 0]

\* One row or several; a missing one fails the whole request.
Update(S) ==
    /\ Event /\ S # {} /\ \A t \in S : item[t].live
    /\ \E f \in {"enable", "disable", "night", "evening"} :
         item' = [t \in SchedTasks |->
            IF t \notin S THEN item[t]
            ELSE CASE f = "enable"  -> Enabled(item[t])
                   [] f = "disable" -> [item[t] EXCEPT !.active = FALSE]
                   [] OTHER         -> [item[t] EXCEPT !.trigger = f]]
    /\ UNCHANGED <<day, part, tick, run, schedUp, touched>>

\* A row is deleted whatever its run does.
Delete(S) ==
    /\ Event /\ \E t \in S : item[t].live
    /\ item' = [t \in SchedTasks |->
                  [item[t] EXCEPT !.live = @ /\ t \notin S]]
    /\ UNCHANGED <<day, part, tick, run, schedUp, touched>>

-----------------------------------------------------------------------------
(* The loop.                                                               *)

\* get_pending_tasks
Pending == {t \in SchedTasks : item[t].live /\ item[t].active /\ item[t].date # day
                                 /\ Reached(item[t].trigger)}

\* One tick: every due task is marked in one commit.
MarkDue ==
    /\ schedUp /\ tick.todo = {}
    /\ day \in TradingDays /\ part # "closed" /\ Pending # {}
    /\ Cardinality(Pending) <= Cardinality(Free)        \* bound: job ids
    /\ item' = [t \in SchedTasks |-> IF t \in Pending
                    THEN [item[t] EXCEPT !.date = day, !.status = "running"] ELSE item[t]]
    /\ tick' = [todo |-> Pending, day |-> day]
    /\ UNCHANGED <<day, part, run, schedUp, spent, touched>>

\* The marked tasks are launched one second apart.
LaunchOne(t, r) ==
    /\ schedUp /\ t \in tick.todo /\ NextRun(r)
    /\ tick' = [tick EXCEPT !.todo = @ \ {t}]
    /\ run' = [run EXCEPT ![r] = [task |-> t, day |-> tick.day, hand |-> FALSE,
                                  pc |-> "queued", report |-> "none", made |-> 0, ended |-> 0]]
    /\ UNCHANGED <<item, day, part, schedUp, spent, touched>>

-----------------------------------------------------------------------------
(* A run.                                                                  *)

Holding == {r \in SchedRuns : run[r].pc = "running" /\ ~run[r].hand}

TakeSlot(r) ==
    /\ run[r].pc = "queued" /\ Cardinality(Holding) < Slots
    /\ run' = [run EXCEPT ![r].pc = "running", ![r].report = "running", ![r].made = UtcDay]
    /\ UNCHANGED <<item, day, part, tick, schedUp, spent, touched>>

\* mark_run_success
Succeed(row, r) == [row EXCEPT !.date = run[r].day, !.status = "success", !.report = r, !.fails = 0]

\* mark_run_failed
Fail(row, r) ==
    [row EXCEPT !.date = run[r].day, !.status = "failed", !.fails = @ + 1,
                !.active = @ /\ row.fails + 1 < FailLimit]

\* record_manual_test_result
Record(row, r, good) ==
    IF good THEN [row EXCEPT !.status = "success", !.report = r, !.fails = 0]
            ELSE [row EXCEPT !.status = "failed"]

\* How the row is written when the run is over: a deleted one is not.
Written(r, good) ==
    LET t == run[r].task
        row == item[t] IN
    IF ~row.live THEN item
    ELSE [item EXCEPT ![t] = IF run[r].hand THEN Record(row, r, good)
                             ELSE IF good THEN Succeed(row, r) ELSE Fail(row, r)]

Touch(r) == touched' = IF run[r].hand THEN touched \union {run[r].task} ELSE touched

\* _run_job returns, the slot is released, the row written.
EndRun(r, good) ==
    /\ run[r].pc = "running"
    /\ run' = [run EXCEPT ![r].pc = "over", ![r].ended = day,
                          ![r].report = IF good THEN "completed" ELSE "failed"]
    /\ item' = Written(r, good)
    /\ Touch(r)
    /\ UNCHANGED <<day, part, tick, schedUp, spent>>

\* Mutant of RunTimesOut: nobody writes the row.
TimesOutUnwritten(r) ==
    /\ run[r].pc = "running"
    /\ run' = [run EXCEPT ![r].pc = "left", ![r].ended = day, ![r].report = "failed"]
    /\ Touch(r)
    /\ UNCHANGED <<item, day, part, tick, schedUp, spent>>

\* The outer task gives up; the inner one lives on without a slot.
RunTimesOut(r) ==
    /\ run[r].pc = "running"
    /\ run' = [run EXCEPT ![r].pc = "left", ![r].ended = day, ![r].report = "failed"]
    /\ item' = Written(r, FALSE)
    /\ Touch(r)
    /\ UNCHANGED <<day, part, tick, schedUp, spent>>

\* What was left running saves its report after all, or fails.
LateEnd(r) ==
    /\ run[r].pc = "left"
    /\ \E w \in {"completed", "failed"} :
         run' = [run EXCEPT ![r].pc = "over", ![r].report = w]
    /\ UNCHANGED <<item, day, part, tick, schedUp, spent, touched>>

\* The trigger endpoints, in the API process: no slot, whatever else runs.
TriggerByHand(t, r) ==
    /\ Event /\ item[t].live /\ NextRun(r) /\ Cardinality(Free) > Cardinality(tick.todo)
    /\ run' = [run EXCEPT ![r] = [task |-> t, day |-> day, hand |-> TRUE,
                                  pc |-> "running", report |-> "running", made |-> UtcDay, ended |-> 0]]
    /\ UNCHANGED <<item, day, part, tick, schedUp, touched>>

-----------------------------------------------------------------------------
(* Clock, crashes, restart.                                                *)

PassTime ==
    /\ day <= LastDay
    /\ part' = CASE part = "night" -> "closed" [] part = "closed" -> "evening" [] OTHER -> "night"
    /\ day' = IF part = "evening" THEN day + 1 ELSE day
    /\ UNCHANGED <<item, tick, run, schedUp, spent, touched>>

Lost(hand) == [r \in SchedRuns |->
    IF run[r].hand # hand THEN run[r]
    ELSE CASE run[r].pc \in {"queued", "running"} -> [run[r] EXCEPT !.pc = "lost"]
           [] run[r].pc = "left"                  -> [run[r] EXCEPT !.pc = "over"]
           [] OTHER                               -> run[r]]

SchedCrash ==
    /\ schedUp /\ schedUp' = FALSE /\ Event
    /\ run' = Lost(FALSE)
    /\ tick' = [todo |-> {}, day |-> 0]
    /\ UNCHANGED <<item, day, part, touched>>

ApiCrash ==
    /\ Event /\ run' = Lost(TRUE)
    /\ UNCHANGED <<item, day, part, tick, schedUp, touched>>

\* Has the day's run written its report?  The rows tell only of the last report.
HasReport(row) ==
    /\ row.report # NoSchedRun /\ row.date # 0
    /\ run[row.report].report = "completed" /\ run[row.report].made >= row.date

\* Mutant of Recovered: the day of an interrupted run counts as used.
RecoveredStatus(row) == [row EXCEPT !.status = "stale"]

Recovered(row) == IF HasReport(row) THEN [row EXCEPT !.status = "success"]
                  ELSE [row EXCEPT !.status = "stale", !.date = 0]

\* _recover_stale_tasks, then recover_stale_active_reports, which fails the
\* reports the API process is still writing too.
SchedStart ==
    /\ ~schedUp /\ schedUp' = TRUE
    /\ item' = [t \in SchedTasks |-> IF item[t].live /\ item[t].status = "running"
                                     THEN Recovered(item[t]) ELSE item[t]]
    /\ run' = [r \in SchedRuns |-> IF run[r].report = "running"
                                   THEN [run[r] EXCEPT !.report = "failed"] ELSE run[r]]
    /\ UNCHANGED <<day, part, tick, spent, touched>>

-----------------------------------------------------------------------------
SchedInit ==
    /\ item \in [SchedTasks -> {[NewRow("evening") EXCEPT !.live = FALSE], NewRow("evening"), NewRow("night")}]
    /\ \E t \in SchedTasks : item[t].live
    /\ day = 1 /\ part = "night"
    /\ tick = [todo |-> {}, day |-> 0]
    /\ run = [r \in SchedRuns |-> Unused]
    /\ schedUp = TRUE
    /\ spent = 0
    /\ touched = {}

RunStep(r) == TakeSlot(r) \/ (\E good \in BOOLEAN : EndRun(r, good)) \/ RunTimesOut(r) \/ LateEnd(r)
Launching == \E t \in SchedTasks, r \in SchedRuns : LaunchOne(t, r)

SchedNext ==
    \/ \E t \in SchedTasks, trigger \in {"night", "evening"} : Create(t, trigger)
    \/ \E S \in SUBSET SchedTasks : Update(S) \/ Delete(S)
    \/ MarkDue \/ Launching
    \/ \E r \in SchedRuns : RunStep(r)
    \/ \E t \in SchedTasks, r \in SchedRuns : TriggerByHand(t, r)
    \/ PassTime \/ SchedCrash \/ ApiCrash \/ SchedStart

\* The loop and the pool serve what they have; the process is started again.
SchedFair == /\ WF_schedVars(Launching) /\ WF_schedVars(SchedStart)
             /\ \A r \in SchedRuns : WF_schedVars(RunStep(r))

SchedSpec == SchedInit /\ [][SchedNext]_schedVars /\ SchedFair

-----------------------------------------------------------------------------
\* The type of every variable.
SchedTypeOK ==
    /\ item \in [SchedTasks -> Row]
    /\ day \in Nat \ {0} /\ part \in Parts
    /\ tick.todo \subseteq SchedTasks /\ tick.day \in Nat
    /\ \A r \in SchedRuns :
         /\ run[r].pc \in {"unused", "queued", "running", "left", "over", "lost"}
         /\ run[r].report \in {"none", "running", "completed", "failed"}
    /\ schedUp \in BOOLEAN /\ touched \subseteq SchedTasks

\* The runs the loop launched for a task on a day, but for those a crash cut off.
RunsOf(t, d) == {r \in SchedRuns : /\ run[r].pc \notin {"unused", "lost"} /\ ~run[r].hand
                                   /\ run[r].task = t /\ run[r].day = d}

\* A run of the task of an earlier day lasted into the day.
Overran(t, d) ==
    \E r \in SchedRuns : ~run[r].hand /\ run[r].task = t /\ run[r].day < d /\ run[r].ended >= d

\* A task runs once a day: it is launched a second time only when a run of an
\* earlier day, ending after midnight, wrote its own day back into the row.
OncePerDay ==
    \A t \in SchedTasks, d \in 1 .. LastDay :
       Cardinality(RunsOf(t, d)) > 1 =>
          Overran(t, d)

\* A failing task is not tried for ever: after FailLimit failures in a row it is
\* inactive, whatever edits, runs by hand and restarts came between.
FailingIsOff == \A t \in SchedTasks : item[t].fails >= FailLimit => ~item[t].active

\* A crash costs no task its day: a row that carries today's date, and that no run
\* by hand and no run of an earlier day has written, has a launched run that was
\* not cut off, is about to be launched, or waits for the restart that resets it.
NoDayLost ==
    \A t \in SchedTasks :
       (item[t].live /\ item[t].date = day /\ t \notin touched /\ ~Overran(t, day)) =>
          \/ RunsOf(t, day) # {} \/ t \in tick.todo
          \/ ~schedUp /\ item[t].status = "running"

\* A success in the row is a report that was written, also when it was recovered
\* at a restart or recorded by hand while the scheduler's own run goes on.
SuccessHasReport ==
    \A t \in SchedTasks : item[t].live /\ item[t].status = "success" =>
        item[t].report # NoSchedRun /\ run[item[t].report].report = "completed"

\* No row says "running" for ever: its run ends, is given up, or is reset at the
\* restart after the crash that cut it off.
RunningSettles ==
    \A t \in SchedTasks :
       (item[t].live /\ item[t].status = "running") ~> ~(item[t].live /\ item[t].status = "running")

\* What a row shows of its runs is true: a success has its report, and a task
\* that failed FailLimit times in a row is off.
RowsTellTruth == SuccessHasReport /\ FailingIsOff

\* Every task runs on every day it is due, and once: crashes between the mark and
\* the launch lose no day, restarts and late runs repeat none.
EveryDayOnce == NoDayLost /\ OncePerDay

\* The schedule is kept, and the rows tell the truth about it.
ScheduleKept == RowsTellTruth /\ EveryDayOnce
=============================================================================
