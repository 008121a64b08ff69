------------------------------ MODULE Outcomes ------------------------------
(***************************************************************************)
(* How reports are scored against later prices                             *)
(* (api/services/report_outcome_service.py): a row per report with one     *)
(* window per horizon, evaluated by a watchdog in batches and whenever the *)
(* user lists reports.  A window settles with the close of its target day, *)
(* and every evaluation computes all windows again from the bars it gets.  *)
(* The bars of the current day may be missing yet, and while the market is *)
(* open they hold the price of the moment.  Only trading days are counted. *)
(***************************************************************************)
EXTENDS Naturals, FiniteSets, FiniteSetsExt

CONSTANTS
    ScoredReports,
    FastReports,   \* those of fast analyses
    NoBars,        \* those of a symbol for which no vendor has bars
    EndDay,        \* bound: the days modelled
    BatchLimit,    \* evaluate_due_outcomes(limit), 120
    ReloadLimit    \* TA_REPORT_OUTCOME_RELOAD_LIMIT, 8

ASSUME OutAssumption == EndDay \in Nat \ {0}

VARIABLES
    odate, open,   \* the day and whether the market is open
    written,       \* the reports there are, with their trade date; 0 without
    removed,       \* reports the user has deleted
    score          \* the outcome rows: the windows with a price, when to look again

outVars == <<odate, open, written, removed, score>>

\* _horizons_for_task_kind, in trading days
Horizons(r) == IF r \in FastReports THEN {0, 1} ELSE {1, 2, 3, 5}

\* Half days: a day's session, and what follows its close.
Now == 2 * odate + (IF open THEN 0 ELSE 1)
CloseOf(d) == 2 * d + 1

\* The row of a report: outcomes_json, next_evaluate_after.
OutcomeRows(r) == [there : BOOLEAN, px : SUBSET Horizons(r), next : 0 .. CloseOf(EndDay + 5)]
NoRow == [there |-> FALSE, px |-> {}, next |-> 0]

\* total_windows > settled_count
Unsettled(r) == score[r].there /\ score[r].px # Horizons(r)

\* Mutant of Prices: the windows of both kinds of analyses are looked at.
PricesOfAll(r, base, last) == {h \in 0 .. 5 : base + h <= last}

\* The windows whose target day has a bar, when the bars go up to day last.
Prices(r, base, last) == {h \in Horizons(r) : base + h <= last}

\* The windows that are due and have no bar yet.
Short(r, base, last) == {h \in Horizons(r) : last < base + h /\ base + h <= odate}

\* When to look again: in two hours for a window that is due and has no price,
\* else at the close of the next target day.
NextAfter(r, base, last) ==
    LET ahead == {h \in Horizons(r) : base + h > last} IN
    IF ahead = {} THEN 0 ELSE IF Short(r, base, last) # {} THEN Now ELSE CloseOf(base + Min(ahead))

\* evaluate_report_outcome with the bars up to day last; without a report it
\* returns, without bars it notes an error, and either leaves the row due.
Evaluated(r, row, last) ==
    IF ~row.there \/ r \in removed \/ r \in NoBars THEN row
    ELSE [row EXCEPT !.px = Prices(r, written[r], last),
                           !.next = NextAfter(r, written[r], last)]

\* enqueue_for_report of a new row
Enqueued(r) ==
    [there |-> TRUE, px |-> {}, next |-> CloseOf(written[r] + Min(Horizons(r)))]

\* The vendor has the bars of today, or only those before.
Bars == {odate, odate - 1}

-----------------------------------------------------------------------------
\* A report is completed, for today or an earlier day.  A fast one is enqueued and
\* evaluated with it.  init_report does the same for a full one, but the report is
\* pending then and enqueue_for_report returns.
CompleteReport(r, base, last) ==
    /\ written[r] = 0 /\ r \notin removed
    /\ written' = [written EXCEPT ![r] = base]
    /\ score' = IF r \notin FastReports THEN score
                ELSE [score EXCEPT ![r] =
                       IF r \in NoBars THEN [there |-> TRUE, px |-> {}, next |-> CloseOf(base)]
                       ELSE [there |-> TRUE, px |-> Prices(r, base, last),
                             next |-> NextAfter(r, base, last)]]
    /\ UNCHANGED <<odate, open, removed>>

\* Mutant of DueRows: rows that are settled are evaluated again.
DueRowsAlways(S) == {r \in S : score[r].there /\ score[r].next <= Now}
DueRows(S) == {r \in S : Unsettled(r) /\ score[r].next <= Now}

\* The rows due first, up to a limit.
Batches(S, limit) ==
    {B \in SUBSET S : /\ Cardinality(B) = Min({Cardinality(S), limit})
                      /\ \A b \in B, o \in S \ B : score[b].next <= score[o].next}

\* evaluate_due_outcomes
WatchOutcomes(last) ==
    /\ DueRows(ScoredReports) # {}
    /\ \E B \in Batches(DueRows(ScoredReports), BatchLimit) :
         score' = [r \in ScoredReports |-> IF r \in B THEN Evaluated(r, score[r], last) ELSE score[r]]
    /\ UNCHANGED <<odate, open, written, removed>>

\* _backfill_outcomes_for_reports: the rows that are missing, whenever that is, then
\* a few of those that are due.
ListReports(S, last) ==
    LET missing == {r \in S : written[r] # 0 /\ r \notin removed /\ ~score[r].there} IN
    /\ \E B \in Batches(DueRows(S), ReloadLimit) :
         score' = [r \in ScoredReports |->
            IF r \in missing THEN Evaluated(r, Enqueued(r), last)
            ELSE IF r \in B THEN Evaluated(r, score[r], last) ELSE score[r]]
    /\ UNCHANGED <<odate, open, written, removed>>

\* delete_report leaves the outcome row.
DeleteReport(r) ==
    /\ written[r] # 0 /\ r \notin removed
    /\ removed' = removed \union {r}
    /\ UNCHANGED <<odate, open, written, score>>

MarketTurns ==
    /\ IF open THEN open' = FALSE /\ UNCHANGED odate
       ELSE odate < EndDay /\ open' = TRUE /\ odate' = odate + 1
    /\ UNCHANGED <<written, removed, score>>

OutInit ==
    /\ odate = 1 /\ open = TRUE
    /\ written = [r \in ScoredReports |-> 0] /\ removed = {}
    /\ score = [r \in ScoredReports |-> NoRow]

OutNext ==
    \/ \E r \in ScoredReports, base \in {1, odate}, last \in Bars : CompleteReport(r, base, last)
    \/ \E r \in ScoredReports : DeleteReport(r)
    \/ \E last \in Bars : WatchOutcomes(last)
    \/ \E last \in Bars, S \in SUBSET ScoredReports : ListReports(S, last)
    \/ MarketTurns

\* The watchdog ticks for ever, and again and again the vendor has today's bars.
OutFair == WF_outVars(MarketTurns) /\ SF_outVars(WatchOutcomes(odate))
OutSpec == OutInit /\ [][OutNext]_outVars /\ OutFair

-----------------------------------------------------------------------------
\* The type of every variable.
OutTypeOK ==
    /\ odate \in 1 .. EndDay /\ open \in BOOLEAN
    /\ written \in [ScoredReports -> 0 .. EndDay] /\ removed \subseteq ScoredReports
    /\ \A r \in ScoredReports : score[r] \in OutcomeRows(r)

\* A settled row stays as it is, whatever is listed, deleted or evaluated later.
SettledStays ==
    [][\A r \in ScoredReports : (score[r].there /\ ~Unsettled(r)) => score'[r] = score[r]]_outVars

\* Every row is settled once its days are over, though rows of deleted reports and
\* of symbols without bars stay due for ever and are taken first: they must be
\* fewer than the batch.
RowsSettle ==
    \A r \in ScoredReports \ NoBars :
        (score[r].there /\ written[r] + Max(Horizons(r)) <= EndDay)
            ~> (score[r].px = Horizons(r) \/ r \in removed \/ Cardinality(removed \union NoBars) >= BatchLimit)
=============================================================================
