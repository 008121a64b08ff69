---------------------------- MODULE MCBackground ----------------------------
(***************************************************************************)
(* The work of the background, checked side by side: the scheduler of      *)
(* stored analyses, the market-data loop, the outcomes of the reports, the *)
(* graph of agents an analysis runs, the start of the processes on one     *)
(* database, and the counts of the administrator.  They share no variable; *)
(* a behaviour follows one of them, the others rest.                       *)
(***************************************************************************)
EXTENDS Scheduler, MarketLoop, Outcomes, AnalysisGraph, Startup, AdminMetrics

VARIABLE worker

allVars == <<worker, schedVars, marketVars, outVars, graphVars, startVars, metricVars>>

Scheduling(A) == worker = "scheduler" /\ A /\ UNCHANGED <<worker, marketVars, outVars, graphVars, startVars, metricVars>>
Syncing(A)    == worker = "market" /\ A /\ UNCHANGED <<worker, schedVars, outVars, graphVars, startVars, metricVars>>
Scoring(A)    == worker = "outcomes" /\ A /\ UNCHANGED <<worker, schedVars, marketVars, graphVars, startVars, metricVars>>
Analysing(A)  == worker = "analysis" /\ A /\ UNCHANGED <<worker, schedVars, marketVars, outVars, startVars, metricVars>>
Starting(A)   == worker = "startup" /\ A /\ UNCHANGED <<worker, schedVars, marketVars, outVars, graphVars, metricVars>>
Counting(A)   == worker = "metrics" /\ A /\ UNCHANGED <<worker, schedVars, marketVars, outVars, graphVars, startVars>>

Init ==
    /\ worker \in {"scheduler", "market", "outcomes", "analysis", "startup", "metrics"}
    /\ SchedInit /\ MarketInit /\ OutInit /\ GraphInit /\ StartInit /\ MetricsInit
    /\ worker # "scheduler" => \A t \in SchedTasks : item[t] = NewRow("night")
    /\ worker # "startup" => engine = "sqlite" /\ there = {}

Next ==
    \/ Scheduling(SchedNext) \/ Syncing(MarketNext) \/ Scoring(OutNext)
    \/ Analysing(GraphNext) \/ Starting(StartNext) \/ Counting(MetricsNext)

\* SchedFair, OutFair and that of GraphSpec, each where its worker is followed.
Fairness ==
    /\ WF_allVars(Scheduling(Launching)) /\ WF_allVars(Scheduling(SchedStart))
    /\ \A r \in SchedRuns : WF_allVars(Scheduling(RunStep(r)))
    /\ WF_allVars(Scoring(MarketTurns)) /\ SF_allVars(Scoring(WatchOutcomes(odate)))
    /\ WF_allVars(Analysing(AgentStep))

Spec == Init /\ [][Next]_allVars /\ Fairness

\* The type of every variable of the six workers.
BackgroundTypeOK ==
    SchedTypeOK /\ MarketTypeOK /\ OutTypeOK /\ GraphTypeOK /\ StartTypeOK /\ MetricsTypeOK

\* What the background works at comes to its end: no stored analysis is "running" for
\* ever, no outcome row stays unsettled, no graph of agents goes round without end.
BackgroundSettles == RunningSettles /\ RowsSettle /\ GraphEnds
=============================================================================
