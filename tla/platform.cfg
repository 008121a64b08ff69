SPECIFICATION Spec
INVARIANTS PlatformTypeOK  CachesHonest PoolTellsTruth SnapshotFounded
PROPERTIES PlatformAnswers StockMapHonest
CHECK_DEADLOCK FALSE
CONSTANTS
  Feeds = {"company_basic", "daily_bar", "financial_report", "top_list", "fina_forecast"}
  Dialects = {"postgresql", "mysql", "sqlite"}
  FeedUnits = {1, 2}
  LastFeedDay = 9
  FeedTradeDays = {1, 2, 4, 8, 9}
  LocalLimit = 120
  MaxTroubles = 2
  CachesFollowed = {"kline", "rt", "quotes", "auction", "events", "intraday", "insight"}
  Callers = {p1, p2}
  NoCaller = none
  CallTime = 5
  MaxAsked = 3
  Batches = {{"stock_data"}, {"fundamentals"}, {"individual_moneyflow_df_window", "fund_flow_board", "top_list_df_window"}, {"opening_auction", "opening_auction_o"}, {"fina_indicator_df", "income_statement", "cashflow", "daily_basic_window"}, {"hot_stocks", "news"}, {"global_news"}, {"insider_transactions"}, {"lhb", "zt_pool"}, {"top_list_history"}, {"l2_orderqueue_recent"}, {"stk_factor_pro_window", "stk_mins_intraday"}, {"fina_indicator", "fund_flow_individual"}}
  ProviderSets = {{"cn_tushare", "cn_akshare", "cn_baostock", "yfinance", "alpha_vantage"}, {"cn_akshare", "cn_baostock"}}
  SwitchSets = {{"factor"}, {"l2", "auction_oc", "translator", "etf"}}
  Snapshots = {f1, f2}
  SourceSets = {{"rt_k", "basic"}, {"top_list"}, {"factor"}, {"auction"}, {"industry_flow"}, {"index_pulse"}, {"kline_60d"}}
  Threads = 1
  FactorSwitch = {"factor"}
  Askers = {w1, w2, w3}
  InApi = {w1, w2}
  LastMapDay = 3
  MaxMapTroubles = 2
