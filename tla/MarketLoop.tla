----------------------------- MODULE MarketLoop -----------------------------
(***************************************************************************)
(* The market-data loop of the scheduler process                           *)
(* (scheduler/jobs/marketdata_loop.py): every 30 seconds a tick goes       *)
(* through a fixed list of syncs and runs, one after the other on a pool   *)
(* thread, those whose hour has come and that were not done today.  What   *)
(* was done is kept in memory only.  The list is not ordered by hour, an   *)
(* exception ends the tick, and a sync may take so long that the day ends  *)
(* while the tick is under way.                                            *)
(***************************************************************************)
EXTENDS Naturals, Sequences, FiniteSets

CONSTANTS
    Syncs,        \* the syncs configured, a subset of the keys of Plan
    Clock,        \* the hours (hhmm) told apart
    Days,         \* the days modelled, 1 .. n
    TradeDays, Mondays, MidMonth,  \* is_cn_trading_day, weekday() = 0, day in (1, 15)
    MaxRaises, MaxRestarts         \* bounds

ASSUME MarketAssumption ==
    /\ 1 \in Days /\ Days \subseteq Nat
    /\ Clock # {} /\ Clock \subseteq Nat
    /\ MaxRaises \in Nat /\ MaxRestarts \in Nat

VARIABLES
    mday, mhour,  \* the clock in Shanghai
    mpc,          \* place in the plan of the sync on the thread, 0 between ticks
    mtick,        \* "today" and "hhmm" of the tick
    mcal,         \* the day of sh_dt, read in the middle of the tick
    mdone,        \* last_run: keys with the day they carry
    mlast,        \* history: the tick that last went through to its end
    raises, restarts

marketVars == <<mday, mhour, mpc, mtick, mcal, mdone, mlast, raises, restarts>>

\* The syncs in the order of the code, with their hour and their days; "mon" and
\* "mid" ask the calendar again.
Entry(key, at, on) == [key |-> key, at |-> at, on |-> on]
Plan == <<
    Entry("company_basic",    600, "monday"),
    Entry("daily_bar",       1630, "daily"),
    Entry("daily_basic",     1640, "daily"),
    Entry("limit_list",      1540, "daily"),
    Entry("moneyflow",       1710, "daily"),
    Entry("north_money",     1800, "daily"),
    Entry("hsgt_top10",      2130, "daily"),
    Entry("margin_detail",   2100, "daily"),
    Entry("top_list",        1900, "daily"),
    Entry("stk_factor_pro",  2200, "daily"),
    Entry("cyq_perf",        2230, "daily"),
    Entry("financial_report",2300, "mid"),
    Entry("fina_forecast",   2310, "mid"),
    Entry("holdernumber",     630, "mon"),
    Entry("disclosure_am",    930, "daily"),
    Entry("disclosure_pm",   1700, "daily"),
    Entry("macro",           2030, "daily"),
    Entry("log_cleanup",      200, "daily") >>

Place == {i \in 1 .. Len(Plan) : Plan[i].key \in Syncs}

\* From here on the calendar is that of sh_dt.
Reread(i) == \E j \in 1 .. i : Plan[j].on \in {"mid", "mon"}

OnDay(e, d) == CASE e.on = "daily" -> TRUE
                 [] e.on = "mid"   -> d \in MidMonth
                 [] OTHER          -> d \in Mondays

SyncDue(i, t, cal) ==
    /\ Plan[i].at <= t.hour
    /\ OnDay(Plan[i], IF Reread(i) THEN cal ELSE t.day)
    /\ <<Plan[i].key, t.day>> \notin mdone'

\* Mutant of From: the list is taken to be ordered by hour, so that the first
\* sync whose hour has not come ends the tick.
FromOrdered(i, t, cal) ==
    LET late == {j \in Place : j >= i /\ Plan[j].at > t.hour}
        due  == {j \in Place : j >= i /\ SyncDue(j, t, cal) /\ \A k \in late : j < k} IN
    IF due = {} THEN 0 ELSE CHOOSE j \in due : \A k \in due : j <= k

\* The next sync that is due from place i on; 0 when the tick is through.
From(i, t, cal) ==
    LET due == {j \in Place : j >= i /\ SyncDue(j, t, cal)} IN
    IF due = {} THEN 0 ELSE CHOOSE j \in due : \A k \in due : j <= k

\* sh_dt: what the clock says when the tick gets past the first half of the list.
Calendar(i) == IF i > 1 /\ Reread(i - 1) THEN mcal ELSE mday

\* Go on to the next due sync, or end the tick.
GoOn(i, t) ==
    LET cal == Calendar(i)
        j   == From(i, t, cal) IN
    /\ mpc' = j /\ mtick' = t /\ mcal' = cal
    /\ mlast' = IF j = 0 THEN [day |-> t.day, hour |-> t.hour, over |-> mday > t.day] ELSE mlast

MarketTick ==
    /\ mpc = 0 /\ mday \in TradeDays
    /\ mdone' = mdone
    /\ GoOn(1, [day |-> mday, hour |-> mhour])
    /\ UNCHANGED <<mday, mhour, raises, restarts>>

\* The sync returns; it is done for the tick's day whether it wrote rows or an empty
\* answer or a swallowed exception left it none.
SyncReturns ==
    /\ mpc # 0
    /\ mdone' = mdone \union {<<Plan[mpc].key, mtick.day>>}
    /\ GoOn(mpc + 1, mtick)
    /\ UNCHANGED <<mday, mhour, raises, restarts>>

\* An exception of the upsert, or of the vendor where it is not swallowed, ends the
\* tick; the sync is due again at the next one.
SyncRaises ==
    /\ mpc # 0 /\ raises < MaxRaises /\ raises' = raises + 1
    /\ mpc' = 0
    /\ UNCHANGED <<mday, mhour, mtick, mcal, mdone, mlast, restarts>>

\* Time passes between ticks and while a sync runs.
Later ==
    \/ /\ \E h \in Clock : h > mhour /\ mhour' = h /\ \A k \in Clock : k > mhour => h <= k
       /\ UNCHANGED mday
    \/ /\ \A h \in Clock : h <= mhour
       /\ mday + 1 \in Days /\ mday' = mday + 1
       /\ mhour' = CHOOSE h \in Clock : \A k \in Clock : h <= k
TimePasses == Later /\ UNCHANGED <<mpc, mtick, mcal, mdone, mlast, raises, restarts>>

MarketRestart ==
    /\ restarts < MaxRestarts /\ restarts' = restarts + 1
    /\ mpc' = 0 /\ mdone' = {}
    /\ mlast' = [day |-> 0, hour |-> 0, over |-> FALSE]
    /\ UNCHANGED <<mday, mhour, mtick, mcal, raises>>

MarketInit ==
    /\ mday = 1 /\ mhour = CHOOSE h \in Clock : \A k \in Clock : h <= k
    /\ mpc = 0 /\ mtick = [day |-> 0, hour |-> 0] /\ mcal = 0
    /\ mdone = {}
    /\ mlast = [day |-> 0, hour |-> 0, over |-> FALSE]
    /\ raises = 0 /\ restarts = 0

MarketNext == MarketTick \/ SyncReturns \/ SyncRaises \/ TimePasses \/ MarketRestart
MarketSpec == MarketInit /\ [][MarketNext]_marketVars

-----------------------------------------------------------------------------
\* The type of every variable.
MarketTypeOK ==
    /\ mday \in Days /\ mhour \in Clock /\ mpc \in Place \union {0}
    /\ mdone \subseteq Syncs \X Days
    /\ raises \in 0 .. MaxRaises /\ restarts \in 0 .. MaxRestarts

\* A tick that went through to its end has left nothing undone that was due at
\* its hour, though the list is not ordered by hour and earlier ticks may have
\* ended early; only a tick that ran past midnight asks the calendar of the
\* next day for the monthly and weekly syncs.
TickLeavesNothing ==
    (mpc = 0 /\ mlast.day # 0 /\ ~mlast.over) =>
        \A i \in Place : (Plan[i].at <= mlast.hour /\ OnDay(Plan[i], mlast.day))
                            => <<Plan[i].key, mlast.day>> \in mdone
=============================================================================
