------------------------------- MODULE Vendors -------------------------------
(***************************************************************************)
(* The methods of the data providers                                       *)
(* (tradingagents/dataflows/providers): each asks one source or several,   *)
(* and has its own idea of what an answer without rows, and a failed call, *)
(* are worth: the next source, the next vendor, an empty table, or a       *)
(* sentence that is taken for the vendor's answer.  DataPool follows the   *)
(* tasks of an analysis along these methods, FastSnapshot the sources of a *)
(* fast analysis.                                                          *)
(***************************************************************************)
EXTENDS Naturals, Sequences

\* A source, by what the method makes of rows, of an answer without rows and of a failed
\* call: rows, text and frame end the method; keep, skip and next go on (skip leaves out
\* the next source); raises goes to the next vendor.
Source(rows, empty, fails) == [rows |-> rows, empty |-> empty, fails |-> fails]

\* A method: its sources in order, and what it comes to when none ended it and no rows
\* were kept.
Method(sources, spent) == [sources |-> sources, spent |-> spent]

Unoffered == Method(<<>>, "raises")
SwitchedOff == Method(<<>>, "frame")
OneCall == Method(<<Source("rows", "frame", "raises")>>, "raises")

\* A table as a text (_format_csv, _format_df_markdown and the texts of get_lhb_detail).
Said(result) == IF result = "frame" THEN "text" ELSE result
Markdown(m) ==
    Method([i \in DOMAIN m.sources |-> [answer \in {"rows", "empty", "fails"} |-> Said(m.sources[i][answer])]],
           Said(m.spent))

\* Tushare.  The day's bar of rt_daily and the adjustment factors are left out when they fail.
TsBarFrame == Method(<<Source("keep", "frame", "raises")>> \o [i \in 1 .. 2 |-> Source("next", "next", "next")],
                     "raises")
TsFundamentals == Method(<<Source("rows", "text", "raises")>>, "raises")
TsStatement == Method(<<Source("rows", "text", "raises")>>, "raises")
TsWindow == OneCall
TsReport == OneCall
TsMins == OneCall
TsAuctionLeg == OneCall
TsAuction == Method(<<Source("rows", "frame", "next"), Source("rows", "frame", "raises")>>, "raises")
TsFactor(on) == IF "factor" \in on THEN OneCall ELSE SwitchedOff
TsOrderqueue(on) ==
    IF "l2" \in on THEN Method([i \in 1 .. 4 |-> Source("rows", "frame", "next")], "raises")
    ELSE SwitchedOff
\* The calendar, then the list of each day, two of them here.
TsTopList == Method(<<Source("next", "frame", "frame")>> \o [i \in 1 .. 2 |-> Source("keep", "next", "next")],
                    "frame")
TsZtPool == Method(<<Source("rows", "text", "raises")>>, "raises")
TsBoardFlow == Method([i \in 1 .. 3 |-> Source("rows", "text", "next")], "text")

\* AkShare.
\* AkBars: two sources for funds, Eastmoney twice, Sina, Tencent.
AkBars(on) ==
    Method((IF "etf" \in on THEN [i \in 1 .. 2 |-> Source("rows", "next", "next")] ELSE <<>>)
               \o [i \in 1 .. 4 |-> Source("rows", "text", "next")], "raises")
AkFundamentals == Method(<<Source("skip", "next", "next"), Source("keep", "next", "next"),
                           Source("keep", "next", "next")>>, "raises")
AkStatement == Method(<<Source("rows", "next", "next"), Source("rows", "next", "next")>>, "raises")
\* Mutant of AkNews: a failed call is told as news.
AkNewsSwallows == Method(<<Source("rows", "text", "text")>>, "raises")
AkNews == Method(<<Source("rows", "text", "raises")>>, "raises")
AkGlobalNews == Method([i \in 1 .. 4 |-> Source("rows", "next", "raises")], "text")
AkInsider == Method(<<Source("rows", "next", "next"), Source("rows", "text", "next")>>, "raises")
AkBoardFlow == Method(<<Source("rows", "text", "text")>>, "text")
AkIndividualFlow == Method(<<Source("rows", "text", "text")>>, "text")
AkLhb == Method(<<Source("rows", "text", "text")>>, "text")
AkZtPool == Method(<<Source("rows", "text", "text")>>, "text")
AkHotStocks == Method(<<Source("rows", "text", "text")>>, "text")

\* BaoStock: the login and the query raise; only bars are offered.
BsBars == Method(<<Source("rows", "text", "raises")>>, "raises")

\* Yahoo: all but the bars turn a failure into a sentence.
YfBars == Method(<<Source("rows", "text", "raises")>>, "raises")
YfStatement == Method(<<Source("rows", "text", "text")>>, "text")
YfNews == Method(<<Source("rows", "text", "text")>>, "text")
YfGlobalNews == Method(<<Source("rows", "text", "text")>>, "text")

\* Alpha Vantage: the answer is passed on as it is, a limit that is reached raises.
AvAny == Method(<<Source("rows", "text", "raises")>>, "raises")

Statements == {"balance_sheet", "cashflow", "income_statement"}
News == {"news", "global_news", "insider_transactions"}

\* TASK_TO_METHOD, for each vendor.
Tushare(k, on) ==
    CASE k = "stock_data" -> Markdown(TsBarFrame)
      [] k = "fundamentals" -> TsFundamentals
      [] k \in Statements -> TsStatement
      [] k \in {"daily_basic_window", "individual_money_flow_detail", "margin_detail_window",
                "hsgt_top10_window"} -> Markdown(TsWindow)
      [] k = "individual_moneyflow_df_window" -> TsWindow
      [] k \in {"fina_indicator", "forecast", "express", "holdernumber_series"} -> Markdown(TsReport)
      [] k = "fina_indicator_df" -> TsReport
      [] k = "opening_auction" -> Markdown(TsAuction)
      [] k \in {"opening_auction_o", "opening_auction_c"} -> TsAuctionLeg
      [] k \in {"top_list_history", "lhb"} -> Markdown(TsTopList)
      [] k = "top_list_df_window" -> TsTopList
      [] k \in {"stk_factor_pro_window", "cyq_perf_window", "cyq_chips_recent"} -> Markdown(TsFactor(on))
      [] k = "l2_orderqueue_recent" -> Markdown(TsOrderqueue(on))
      [] k = "zt_pool" -> TsZtPool
      [] k = "fund_flow_board" -> TsBoardFlow
      [] k = "stk_mins_intraday" -> TsMins
      [] OTHER -> Unoffered

Akshare(k, on) ==
    CASE k = "stock_data" -> AkBars(on)
      [] k = "fundamentals" -> AkFundamentals
      [] k \in Statements -> AkStatement
      [] k = "news" -> AkNews
      [] k = "global_news" -> AkGlobalNews
      [] k = "insider_transactions" -> AkInsider
      [] k = "fund_flow_board" -> AkBoardFlow
      [] k = "fund_flow_individual" -> AkIndividualFlow
      [] k = "lhb" -> AkLhb
      [] k = "zt_pool" -> AkZtPool
      [] k = "hot_stocks" -> AkHotStocks
      [] OTHER -> Unoffered

Yahoo(k) ==
    CASE k = "stock_data" -> YfBars
      [] k \in Statements \union {"fundamentals", "insider_transactions"} -> YfStatement
      [] k = "news" -> YfNews
      [] k = "global_news" -> YfGlobalNews
      [] OTHER -> Unoffered

Offer(v, k, on) ==
    CASE v = "cn_tushare" -> Tushare(k, on)
      [] v = "cn_akshare" -> Akshare(k, on)
      [] v = "cn_baostock" -> IF k = "stock_data" THEN BsBars ELSE Unoffered
      [] v = "yfinance" -> Yahoo(k)
      [] v = "alpha_vantage" -> IF k \in Statements \union News \union {"stock_data", "fundamentals"}
                                THEN AvAny ELSE Unoffered

\* _resolve_vendor_chain: the vendors configured for the task's category, then the rest.
FallbackChain(k) ==
    IF k \in News THEN <<"cn_akshare", "cn_baostock", "yfinance", "cn_tushare", "alpha_vantage">>
    ELSE <<"cn_tushare", "cn_akshare", "cn_baostock", "yfinance", "alpha_vantage">>
=============================================================================
