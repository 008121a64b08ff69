---------------------------- MODULE AdminMetrics ----------------------------
(***************************************************************************)
(* The requests the administrator sees counted by day: the middleware      *)
(* buffers them, the buffer goes to the table access_logs, a pass every    *)
(* hour counts the rows of each day into admin_metrics_daily, and old rows *)
(* are deleted when the API starts (api/services/access_log_service.py,    *)
(* api/services/admin_metrics_service.py).  The other keys of the overview *)
(* are counted in the same way from rows nobody deletes.                   *)
(*                                                                         *)
(* Time passes in half days, so that the retention can cut a day in two.   *)
(***************************************************************************)
EXTENDS Naturals, FiniteSets, FiniteSetsExt

CONSTANTS
    LogDays,         \* bound: the days 1..LogDays
    Retention,       \* TA_ACCESS_LOG_RETENTION_DAYS
    MetricsDays,     \* TA_ADMIN_METRICS_MAX_DAYS
    RollDays,        \* days the hourly pass counts
    FirstRollDays,   \* days the pass at the start counts
    FlushAt,         \* length of the buffer that is flushed at once
    Requests,        \* bound: requests
    MaxFailures      \* bound: flushes and passes that fail

ASSUME MetricsAssumption ==
    /\ LogDays \in Nat /\ Retention \in Nat /\ MetricsDays \in Nat
    /\ RollDays \in Nat /\ FirstRollDays \in Nat
    /\ Requests \in Nat /\ MaxFailures \in Nat

VARIABLES
    half,       \* the time, in half days
    apiUp,      \* the API runs
    left,       \* requests still to come
    buffered,   \* _buffer: how many of each half day
    logged,     \* access_logs: how many rows of each half day
    daily,      \* admin_metrics_daily: the count of each day, or Uncounted
    settled,    \* history: the days counted when they were over and nothing of them buffered
    failures    \* failures so far

metricVars == <<half, apiUp, left, buffered, logged, daily, settled, failures>>

Halves == 0..(2 * LogDays + 1)
DayOf(h) == h \div 2
Today == DayOf(half)
AllDays == 0..LogDays
Uncounted == Requests + 1

\* The rows of access_logs and of admin_metrics_daily, by their time.
AccessLogs == [Halves -> 0..Requests]
DailyCounts == [AllDays -> 0..Uncounted]

Nothing == [h \in Halves |-> 0]
Buffered == MapThenSumSet(LAMBDA h : buffered[h], Halves)
RowsOf(d) == logged[2 * d] + logged[2 * d + 1]

MetricsInit ==
    /\ half = 0 /\ apiUp = TRUE /\ left = Requests
    /\ buffered = Nothing /\ logged = Nothing
    /\ daily = [d \in AllDays |-> Uncounted]
    /\ settled = {} /\ failures = 0

-----------------------------------------------------------------------------
\* The batch leaves the buffer before it is written: a failure loses it.
Flush(batch) ==
    /\ buffered' = Nothing
    /\ \/ logged' = [h \in Halves |-> logged[h] + batch[h]] /\ UNCHANGED failures
       \/ /\ failures < MaxFailures /\ failures' = failures + 1
          /\ UNCHANGED logged

\* enqueue, by the middleware.
LogRequest ==
    LET more == [buffered EXCEPT ![half] = @ + 1] IN
    /\ apiUp /\ left > 0
    /\ left' = left - 1
    /\ IF Buffered + 1 >= FlushAt THEN Flush(more)
       ELSE buffered' = more /\ UNCHANGED <<logged, failures>>
    /\ UNCHANGED <<half, apiUp, daily, settled>>

\* flush_loop, every thirty seconds.
FlushLoop ==
    /\ apiUp /\ Buffered > 0
    /\ Flush(buffered)
    /\ UNCHANGED <<half, apiUp, left, daily, settled>>

\* rollup_recent_days: the last n days, the latest first; an error leaves the earlier ones.
Roll(n, rows) ==
    \E m \in 0..n :
        /\ settled' = settled \union {d \in AllDays : /\ d < Today /\ d + m > Today
                                                     /\ buffered[2 * d] + buffered[2 * d + 1] = 0}
        /\ daily' = [d \in AllDays |-> IF d <= Today /\ d + m > Today
                                       THEN rows[2 * d] + rows[2 * d + 1] ELSE daily[d]]
        /\ failures' = failures + (IF m < n THEN 1 ELSE 0)
        /\ failures' <= MaxFailures

HourlyPass ==
    /\ apiUp
    /\ Roll(RollDays, logged)
    /\ UNCHANGED <<half, apiUp, left, buffered, logged>>

\* Mutant of Retained: a day is kept less than the overview goes back.
RetainedShort(rows) ==
    [h \in Halves |-> IF h + 2 * (Retention - 1) < half THEN 0 ELSE rows[h]]

\* retention_cleanup_sync: from this moment back.
Retained(rows) ==
    [h \in Halves |-> IF h + 2 * Retention < half THEN 0 ELSE rows[h]]

\* A stop flushes what is buffered, a crash does not.
ApiStops ==
    /\ apiUp /\ apiUp' = FALSE
    /\ \/ Flush(buffered)
       \/ buffered' = Nothing /\ UNCHANGED <<logged, failures>>
    /\ UNCHANGED <<half, left, daily, settled>>

ApiStarts ==
    /\ ~apiUp /\ apiUp' = TRUE
    /\ logged' = Retained(logged)
    /\ Roll(FirstRollDays, logged')
    /\ UNCHANGED <<half, left, buffered>>

HalfDayPasses ==
    /\ half < Max(Halves) /\ half' = half + 1
    /\ UNCHANGED <<apiUp, left, buffered, logged, daily, settled, failures>>

\* metrics_overview by day, no more than MetricsDays back: of the days that are counted if
\* these are four fifths of the days asked for, else of the rows.
Overview(from, to) ==
    LET first == IF to > from + MetricsDays THEN to - MetricsDays ELSE from
        counted == {d \in first..to : daily[d] # Uncounted}
    IN  IF 5 * Cardinality(counted) >= 4 * Cardinality(first..to)
        THEN [d \in counted |-> daily[d]]
        ELSE [d \in first..to |-> RowsOf(d)]

MetricsNext ==
    LogRequest \/ FlushLoop \/ HourlyPass \/ ApiStops \/ ApiStarts \/ HalfDayPasses

MetricsSpec == MetricsInit /\ [][MetricsNext]_metricVars

-----------------------------------------------------------------------------
MetricsTypeOK ==
    /\ half \in Halves /\ apiUp \in BOOLEAN /\ left \in 0..Requests /\ failures \in 0..MaxFailures
    /\ buffered \in AccessLogs /\ logged \in AccessLogs /\ daily \in DailyCounts
    /\ settled \subseteq AllDays

\* The days the overview shows whole: the retention may cut the earliest it reaches.
Whole(d) == d + MetricsDays > Today

\* What has been counted of a day is not taken back while the overview goes back to it,
\* although old rows are deleted and their days counted again every hour; and once a pass
\* has counted days that are over, the overview says of them what the rows say, whichever
\* of the two it reads.
CountsStand ==
    /\ [][\A d \in AllDays :
             Whole(d)' /\ daily[d] # Uncounted => daily'[d] \in daily[d]..Requests]_metricVars
    /\ [](\A from \in AllDays, to \in AllDays :
             (from <= to /\ from..to \subseteq settled /\ \A d \in from..to : Whole(d))
                => Overview(from, to) = [d \in from..to |-> RowsOf(d)])
=============================================================================
