---------------------------- MODULE MarketStore ----------------------------
(***************************************************************************)
(* What the market-data loop stores and what the agents are answered from  *)
(* it (scheduler/jobs/marketdata_loop.py, api/services/                    *)
(* market_data_service.py, tradingagents/dataflows/local_first.py).  A     *)
(* sync asks the vendor for a window of days that ends with the day of its *)
(* tick and upserts what it got, so that a day that was missed, published  *)
(* late or restated is brought by a later sync as long as the window       *)
(* reaches back to it.  One feed is followed at a time.  Its units are     *)
(* what a call of the vendor is about: a symbol, a kind of report, a       *)
(* table; a row is the day it is about and a version of its content.       *)
(***************************************************************************)
EXTENDS Naturals, FiniteSets

CONSTANTS
    Feeds,          \* the feeds told apart, a subset of DOMAIN FeedTable
    Dialects,       \* the databases told apart
    FeedUnits,      \* 1 .. n, in the order in which a sync goes through them
    LastFeedDay,    \* the days are 1 .. LastFeedDay
    FeedTradeDays,  \* is_cn_trading_day
    LocalLimit,     \* .limit(120) of a local query
    MaxTroubles     \* bound on failed calls, late or restated rows and restarts

ASSUME StoreAssumption ==
    /\ Feeds \subseteq {"company_basic", "daily_bar", "north_money", "financial_report",
                       "disclosure", "macro", "daily_basic", "limit_list", "moneyflow",
                       "margin_detail", "hsgt_top10", "top_list", "stk_factor_pro", "cyq_perf",
                       "fina_forecast", "holdernumber"}
    /\ LastFeedDay \in Nat \ {0} /\ FeedTradeDays \subseteq 1 .. LastFeedDay
    /\ LocalLimit \in Nat /\ MaxTroubles \in Nat

VARIABLES
    feed, dialect,  \* what is followed
    fday,           \* the day in Shanghai
    vendor,         \* vendor[u][d]: the version of the row the vendor has, 0 for none
    fdate,          \* trade_date of the sync under way
    left,           \* units it has yet to ask for
    batch,          \* rows in hand: per unit asked for and not yet stored
    doubled,        \* an answer in hand names a key twice
    fdone,          \* last_run: the last day whose sync returned
    table,          \* the stored rows
    since,          \* history: the first sync that brought the row since it last changed
    behind,         \* history: rows that changed after they were asked for
    refused,        \* history: why batches were refused
    troubles

storeVars == <<feed, dialect, fday, vendor, fdate, left, batch, doubled, fdone, table, since,
               behind, refused, troubles>>

FeedDays == 1 .. LastFeedDay
Whole == LastFeedDay   \* a look-back that reaches every day

-----------------------------------------------------------------------------
\* The primary keys of the tables.
MarketDataDailyBarDB == {"symbol", "trade_date"}
MarketDataNorthMoneyDB == {"trade_date", "symbol"}
MarketDataCompanyBasicDB == {"symbol"}
MarketDataFinancialReportDB == {"symbol", "period_end", "report_type"}
MarketDataDisclosureDB == {"id"}
MarketDataMacroIndicatorDB == {"series_id", "period"}
MarketDataDailyBasicDB == {"symbol", "trade_date"}
MarketDataLimitListDB == {"symbol", "trade_date"}
MarketDataMoneyflowDB == {"symbol", "trade_date"}
MarketDataMarginDetailDB == {"symbol", "trade_date"}
MarketDataTopListDB == {"trade_date", "symbol", "rank"}
MarketDataHsgtTop10DB == {"trade_date", "symbol"}
MarketDataStkFactorProDB == {"symbol", "trade_date"}
MarketDataCyqPerfDB == {"symbol", "trade_date"}
MarketDataFinaIndicatorDB == {"symbol", "end_date"}
MarketDataHolderNumberDB == {"symbol", "end_date"}

\* The columns an upsert names as the key of its rows.
CompanyBasicKey == {"symbol"}
DailyBarKey == {"symbol", "trade_date"}
NorthMoneyKey == {"trade_date", "symbol"}
FinancialReportKey == {"symbol", "period_end", "report_type"}
DisclosureKey == {"id"}
MacroIndicatorKey == {"series_id", "period"}
DailyBasicKey == {"symbol", "trade_date"}
LimitListKey == {"symbol", "trade_date"}
MoneyflowKey == {"symbol", "trade_date"}
MarginDetailKey == {"symbol", "trade_date"}
TopListKey == {"trade_date", "symbol", "rank"}
HsgtTop10Key == {"trade_date", "symbol"}
StkFactorProKey == {"symbol", "trade_date"}
CyqPerfKey == {"symbol", "trade_date"}
FinaIndicatorKey == {"symbol", "end_date"}
HolderNumberKey == {"symbol", "end_date"}

\* A sync: what its units are, how many days before the tick's it asks for, whether an
\* exception of the vendor is swallowed and leaves the unit out, and both keys.
Sync(of, back, swallows, key, primary) ==
    [of |-> of, back |-> back, swallows |-> swallows, key |-> key, primary |-> primary]

CompanyBasic == Sync("market", Whole, FALSE, CompanyBasicKey, MarketDataCompanyBasicDB)
DailyBar == Sync("symbol", 7, TRUE, DailyBarKey, MarketDataDailyBarDB)
NorthMoney == Sync("market", 5, FALSE, NorthMoneyKey, MarketDataNorthMoneyDB)
FinancialReport == Sync("type", Whole, FALSE, FinancialReportKey, MarketDataFinancialReportDB)
Disclosure == Sync("head", 1, TRUE, DisclosureKey, MarketDataDisclosureDB)
Macro == Sync("series", Whole, TRUE, MacroIndicatorKey, MarketDataMacroIndicatorDB)
DailyBasic == Sync("symbol", 7, TRUE, DailyBasicKey, MarketDataDailyBasicDB)
LimitList == Sync("market", 0, TRUE, LimitListKey, MarketDataLimitListDB)
MoneyflowMarket == Sync("symbol", 5, TRUE, MoneyflowKey, MarketDataMoneyflowDB)
MarginDetail == Sync("symbol", 5, TRUE, MarginDetailKey, MarketDataMarginDetailDB)
HsgtTop10 == Sync("head", 5, TRUE, HsgtTop10Key, MarketDataHsgtTop10DB)
TopList == Sync("head", 30, TRUE, TopListKey, MarketDataTopListDB)
StkFactorPro == Sync("symbol", 7, TRUE, StkFactorProKey, MarketDataStkFactorProDB)
CyqPerf == Sync("symbol", 7, TRUE, CyqPerfKey, MarketDataCyqPerfDB)
FinaForecastExpress == Sync("table", Whole, TRUE, FinaIndicatorKey, MarketDataFinaIndicatorDB)
HolderNumber == Sync("head", Whole, TRUE, HolderNumberKey, MarketDataHolderNumberDB)

FeedTable ==
    [company_basic |-> CompanyBasic, daily_bar |-> DailyBar, north_money |-> NorthMoney,
     financial_report |-> FinancialReport, disclosure |-> Disclosure, macro |-> Macro,
     daily_basic |-> DailyBasic, limit_list |-> LimitList, moneyflow |-> MoneyflowMarket,
     margin_detail |-> MarginDetail, hsgt_top10 |-> HsgtTop10, top_list |-> TopList,
     stk_factor_pro |-> StkFactorPro, cyq_perf |-> CyqPerf,
     fina_forecast |-> FinaForecastExpress, holdernumber |-> HolderNumber]

TheFeed == FeedTable[feed]

\* Units: the head of the universe where the sync takes only the first symbols of it.
Asked == IF TheFeed.of = "head" THEN {1} \intersect FeedUnits ELSE FeedUnits

\* The symbols are read from the vendor first.
NeedsUniverse == TheFeed.of \in {"symbol", "head", "table"}

\* Every report type and every table of a sync is committed by itself.
CommitsEach == TheFeed.of \in {"type", "table"}

First(S) == {u \in S : \A v \in S : u <= v}

-----------------------------------------------------------------------------
\* The vendor.

Trouble == troubles < MaxTroubles /\ troubles' = troubles + 1

\* A row is published or restated; a batch in hand no longer shows it.
Changed(C) ==
    /\ vendor' = [u \in FeedUnits |-> [d \in FeedDays |->
                     IF <<u, d>> \in C THEN vendor[u][d] + 1 ELSE vendor[u][d]]]
    /\ since'  = [u \in FeedUnits |-> [d \in FeedDays |->
                     IF <<u, d>> \in C THEN 0 ELSE since[u][d]]]
    /\ behind' = behind \union {c \in C : c[1] \in DOMAIN batch}

\* The next day begins, with the rows of it.  The vendor may be late with one unit; or the
\* ticks of the whole day may have failed, or the sync lasts until the next day.
NextFeedDay(late) ==
    /\ fday < LastFeedDay /\ fday' = fday + 1
    /\ Changed(IF fday + 1 \in FeedTradeDays THEN (FeedUnits \ late) \X {fday + 1} ELSE {})
    /\ \/ late = {} /\ (fday \in FeedTradeDays => fdone = fday) /\ UNCHANGED troubles
       \/ late = {} /\ fday \in FeedTradeDays /\ fdone # fday /\ Trouble
       \/ Cardinality(late) = 1 /\ fday + 1 \in FeedTradeDays /\ Trouble
    /\ UNCHANGED <<feed, dialect, fdate, left, batch, doubled, fdone, table, refused>>

\* A late row comes.
PublishLate(u, d) ==
    /\ d \in FeedTradeDays /\ d <= fday /\ vendor[u][d] = 0
    /\ Changed({<<u, d>>})
    /\ UNCHANGED <<feed, dialect, fday, fdate, left, batch, doubled, fdone, table, refused, troubles>>

\* The vendor restates rows: one, or, when a share goes ex-rights, all adjusted bars.
Restate(u, D) ==
    /\ D # {} /\ \A d \in D : vendor[u][d] = 1
    /\ Trouble /\ Changed({u} \X D)
    /\ UNCHANGED <<feed, dialect, fday, fdate, left, batch, doubled, fdone, table, refused>>

-----------------------------------------------------------------------------
\* The sync.

\* Mutant of Window: the first day of the window is left out.
WindowShort(f, date) == {d \in FeedDays : d <= date /\ date < d + f.back}

\* The days a call asks for.
Window(f, date) == {d \in FeedDays : d <= date /\ date <= d + f.back}

\* The tick starts the sync, unless that of today returned; without a universe it
\* stores nothing and counts as done.
StartSync ==
    /\ left = {} /\ DOMAIN batch = {}
    /\ fday \in FeedTradeDays /\ fdone # fday
    /\ \/ left' = Asked /\ fdate' = fday /\ UNCHANGED <<fdone, troubles>>
       \/ NeedsUniverse /\ Trouble /\ fdone' = fday /\ UNCHANGED <<left, fdate>>
    /\ UNCHANGED <<feed, dialect, fday, vendor, batch, doubled, table, since, behind, refused>>

\* The answers for the units U, without those whose call failed.
Answers(U, failed) ==
    [u \in U |-> [d \in FeedDays |->
        IF u \notin failed /\ d \in Window(TheFeed, fdate) THEN vendor[u][d] ELSE 0]]

NoBatch == [u \in {} |-> [d \in FeedDays |-> 0]]

\* The units asked for before the next commit: all, but for the report types.
AskedNow == IF TheFeed.of = "type" THEN First(left) ELSE left

\* The vendor is asked; the exceptions that are swallowed leave their units out (one
\* call brings the rows of the whole market), any other ends the tick.
CallVendor(failed) ==
    /\ left # {} /\ (TheFeed.of = "type" => DOMAIN batch = {})
    /\ failed \subseteq AskedNow
    /\ TheFeed.of = "market" => failed \in {{}, AskedNow}
    /\ IF failed = {} THEN UNCHANGED troubles ELSE Trouble
    /\ IF failed = {} \/ TheFeed.swallows
       THEN /\ batch' = Answers(AskedNow, failed)
            /\ left' = left \ AskedNow
            /\ behind' = {<<u, d>> : u \in failed, d \in FeedDays}
       ELSE left' = {} /\ batch' = NoBatch /\ behind' = {}
    /\ doubled' = FALSE
    /\ UNCHANGED <<feed, dialect, fday, vendor, fdate, fdone, table, since, refused>>

\* An answer may name a key twice, which only Postgres minds.
AnswerDoubled ==
    /\ dialect = "postgresql" /\ DOMAIN batch # {} /\ ~doubled /\ doubled' = TRUE
    /\ "rank" \notin TheFeed.primary
    /\ Trouble
    /\ UNCHANGED <<feed, dialect, fday, vendor, fdate, left, batch, fdone, table, since, behind, refused>>

\* The columns that tell the rows of two units, or of two days, apart.
UnitColumns == {"symbol", "report_type", "series_id", "id"}
DayColumns == {"trade_date", "period_end", "period", "end_date", "id"}

\* Rows one of which replaces the other: each kind of "table" is a table of its own.
SameKey(x, y) ==
    /\ (TheFeed.of = "table" \/ TheFeed.primary \intersect UnitColumns # {}) => x.unit = y.unit
    /\ TheFeed.primary \intersect DayColumns # {} => x.day = y.day
    /\ "rank" \in TheFeed.primary => x.rank = y.rank

\* The rows in hand of the units U; the rank of a row is its place in the answer.
Answered(u) == {d \in FeedDays : batch[u][d] # 0}
InHand(U) ==
    UNION {{[unit |-> u, day |-> d, ver |-> batch[u][d],
             rank |-> Cardinality({e \in Answered(u) : e <= d})] : d \in Answered(u)} : u \in U}

\* Postgres wants the key of the upsert to be one of the table and refuses a statement that
\* meets a row twice; the way taken for SQLite asks the table for an attribute it does not
\* have; MySQL goes by the primary key, whatever key the upsert names.
Refuses(U) ==
    CASE InHand(U) = {} -> "no"
      [] dialect = "sqlite" -> "sqlite"
      [] dialect = "postgresql" /\ TheFeed.key # TheFeed.primary -> "unmatched"
      [] dialect = "postgresql" /\ doubled -> "doubled"
      [] OTHER -> "no"

\* INSERT ... ON CONFLICT DO UPDATE, row by row.
Stored(U) ==
    LET rows == InHand(U) IN
    /\ table' = {x \in table : \A y \in rows : ~SameKey(x, y)}
                \union {x \in rows : \A y \in rows : SameKey(x, y) => y.day <= x.day}
    /\ since' = [u \in FeedUnits |-> [d \in FeedDays |->
                    IF u \in U /\ <<u, d>> \notin behind /\ since[u][d] < d
                    THEN fdate ELSE since[u][d]]]

\* The units one commit holds.
StoredNow == IF CommitsEach THEN First(DOMAIN batch) ELSE DOMAIN batch

Without(U) == [u \in (DOMAIN batch) \ U |-> batch[u]]

\* bulk_upsert: the batch is committed, or refused as a whole with an exception that ends
\* the tick.
bulk_upsert ==
    /\ DOMAIN batch # {} /\ (TheFeed.of = "type" \/ left = {})
    /\ IF Refuses(StoredNow) = "no"
       THEN /\ Stored(StoredNow)
            /\ batch' = Without(StoredNow)
            /\ fdone' = IF left = {} /\ DOMAIN batch = StoredNow THEN fdate ELSE fdone
            /\ UNCHANGED <<left, refused>>
       ELSE /\ refused' = refused \union {Refuses(StoredNow)}
            /\ left' = {} /\ batch' = NoBatch
            /\ UNCHANGED <<table, since, fdone>>
    /\ doubled' = (doubled /\ DOMAIN batch' # {})
    /\ behind' = {c \in behind : c[1] \in DOMAIN batch'}
    /\ UNCHANGED <<feed, dialect, fday, vendor, fdate, troubles>>

\* The process restarts: what it had in hand and last_run are lost.
StoreRestart ==
    /\ Trouble
    /\ left' = {} /\ batch' = NoBatch /\ doubled' = FALSE /\ behind' = {} /\ fdone' = 0
    /\ UNCHANGED <<feed, dialect, fday, vendor, fdate, table, since, refused>>

StoreInit ==
    /\ feed \in Feeds /\ dialect \in Dialects
    /\ fday = 1 /\ fdate = 0 /\ left = {} /\ batch = NoBatch /\ doubled = FALSE /\ fdone = 0
    /\ vendor = [u \in FeedUnits |-> [d \in FeedDays |-> IF d = 1 THEN 1 ELSE 0]]
    /\ table = {}
    /\ since = [u \in FeedUnits |-> [d \in FeedDays |-> 0]]
    /\ behind = {} /\ refused = {} /\ troubles = 0

StoreNext ==
    \/ \E late \in SUBSET FeedUnits : NextFeedDay(late)
    \/ \E u \in FeedUnits, d \in FeedDays : PublishLate(u, d) \/ Restate(u, {d})
    \/ \E u \in FeedUnits : feed = "daily_bar" /\ Restate(u, {d \in FeedDays : vendor[u][d] # 0})
    \/ StartSync
    \/ \E failed \in SUBSET FeedUnits : CallVendor(failed)
    \/ AnswerDoubled \/ bulk_upsert \/ StoreRestart

StoreSpec == StoreInit /\ [][StoreNext]_storeVars

-----------------------------------------------------------------------------
\* The local answers of the agents' data tools.

LocalTables == {"daily_bar", "daily_basic", "moneyflow", "margin_detail", "hsgt_top10",
                "top_list", "stk_factor_pro", "cyq_perf", "fina_forecast", "holdernumber"}

Bigger(m, n) == IF m < n THEN n ELSE m

\* _estimate_expected_rows: five trading days a week.
Expected(a, b) == Bigger(1, ((b - a + 1) * 5) \div 7)

\* The rows of the range, oldest first.
InRange(u, a, b) == {x \in table : x.unit = u /\ x.day \in a .. b}

\* _local_get_stock_data: {} where the vendor is asked instead.
LocalBars(u, a, b) ==
    LET rows == InRange(u, a, b) IN
    IF Cardinality(rows) < Bigger(1, (Expected(a, b) * 8) \div 10) THEN {} ELSE rows

Older(x, y) == x.day < y.day \/ (x.day = y.day /\ x.rank < y.rank)

\* _local_query_table: any row will do, and no more than the oldest 120.
LocalRows(u, a, b) ==
    LET rows == InRange(u, a, b) IN
    {x \in rows : Cardinality({y \in rows : Older(y, x)}) < LocalLimit}

\* route_with_local_first: the answer from the tables, {} when there is none.
LocalAnswer(u, a, b) ==
    CASE feed \notin LocalTables -> {}
      [] feed = "daily_bar" -> LocalBars(u, a, b)
      [] OTHER -> LocalRows(u, a, b)

-----------------------------------------------------------------------------
\* The type of every variable.
StoreTypeOK ==
    /\ feed \in Feeds /\ dialect \in Dialects
    /\ fday \in FeedDays /\ fdate \in 0 .. LastFeedDay /\ fdone \in 0 .. LastFeedDay
    /\ left \subseteq FeedUnits /\ DOMAIN batch \subseteq FeedUnits
    /\ doubled \in BOOLEAN /\ refused \subseteq {"sqlite", "doubled", "unmatched"}
    /\ troubles \in 0 .. MaxTroubles

\* A sync whose window holds the day has stored what it was answered after the row
\* had last changed; of a company only the last row is kept.
Due(u, d) ==
    /\ vendor[u][d] # 0 /\ since[u][d] \in d .. d + TheFeed.back
    /\ feed = "company_basic" => \A e \in FeedDays : vendor[u][e] # 0 => e <= d

\* Whatever calls failed, came late or were repeated before, and whatever stopped the
\* process: a row a later sync could still bring is stored as the vendor has it, and
\* the agents that are answered from the tables are given it, in whatever range they
\* ask for.  What stays behind is a row that changed after it left the window of the
\* feed (for limit_list that is every row of a day whose call failed).  No batch is
\* refused because the upsert and its table disagree on the key.
StoreCatchesUp ==
    /\ "unmatched" \notin refused
    /\ \A u \in FeedUnits :
        /\ \A d \in FeedDays :
              Due(u, d) => \E x \in table : x.unit = u /\ x.day = d /\ x.ver = vendor[u][d]
        /\ \A a \in FeedDays : \A b \in a .. LastFeedDay :
              LET answer == LocalAnswer(u, a, b) IN
              answer # {} => \A d \in a .. b :
                  Due(u, d) => \E x \in answer : x.day = d /\ x.ver = vendor[u][d]
=============================================================================
