--------------------------- MODULE PlatformProofs ---------------------------
(***************************************************************************)
(* What holds of what lies between the vendors of data and those who ask   *)
(* for it, whatever the number of units, days, callers and failures: the   *)
(* tables the syncs fill catch up with the vendor, the caches of quotes    *)
(* and charts answer with nothing older than they may, the map of the      *)
(* names of stocks forgets none, the verdict of a fast analysis is founded *)
(* on what came in time, and a data pool says of its sources what they     *)
(* said.                                                                   *)
(***************************************************************************)
EXTENDS MCPlatform, FiniteSetTheorems, FunctionTheorems, TLAPS

-----------------------------------------------------------------------------
(* The tables the syncs fill.                                              *)

StoredRows == [unit : FeedUnits, day : FeedDays, ver : Nat, rank : 1 .. LastFeedDay]

\* Every variable has its type, the histories included, and no batch was refused because
\* the upsert and its table disagree on the key.
StoreTyped ==
    /\ StoreTypeOK /\ "unmatched" \notin refused
    /\ table \subseteq StoredRows
    /\ vendor \in [FeedUnits -> [FeedDays -> Nat]]
    /\ since \in [FeedUnits -> [FeedDays -> Nat]]
    /\ batch \in [DOMAIN batch -> [FeedDays -> Nat]]

\* The row as the sync under way should be answered.
ToAnswer(u, d) == IF d \in Window(TheFeed, fdate) THEN vendor[u][d] ELSE 0

\* What is in hand of a unit is what the vendor has, but for rows that changed since they
\* were asked for; or nothing, where the call failed.
HandIsAnswer ==
    \A u \in DOMAIN batch :
       /\ \A d \in FeedDays : batch[u][d] # 0 => d <= fdate /\ vendor[u][d] # 0
       /\ \/ \A d \in FeedDays : batch[u][d] = 0 /\ <<u, d>> \in behind
          \/ \A d \in FeedDays : \/ batch[u][d] = ToAnswer(u, d)
                                 \/ <<u, d>> \in behind /\ since[u][d] = 0

\* No sync is of a day to come.
SyncsInOrder ==
    /\ fdate <= fday
    /\ \A u \in FeedUnits, d \in FeedDays : since[u][d] <= fdate

\* A row that a sync has brought since it last changed is stored as the vendor has it.
DueIsStored ==
    \A u \in FeedUnits, d \in FeedDays :
       Due(u, d) => \E x \in table : x.unit = u /\ x.day = d /\ x.ver = vendor[u][d]

\* The key tells the rows of the table apart.
KeysTell == \A x, y \in table : SameKey(x, y) => x = y

StoreInv == StoreTyped /\ HandIsAnswer /\ SyncsInOrder /\ DueIsStored /\ KeysTell

\* What the table of feeds says of every one: the key of the upsert is that of the table,
\* it tells units apart, days unless it is of a company, and ranks where there are any.
LEMMA FeedFacts ==
    ASSUME StoreTyped
    PROVE  /\ TheFeed.key = TheFeed.primary /\ TheFeed.back \in Nat
           /\ \E col \in TheFeed.primary : col \in UnitColumns
           /\ feed # "company_basic" => \E col \in TheFeed.primary : col \in DayColumns
           /\ feed = "top_list" <=> "rank" \in TheFeed.primary
           /\ feed = "company_basic" => TheFeed.back = LastFeedDay
<1>1. /\ FeedTable["company_basic"] = CompanyBasic
      /\ FeedTable["daily_bar"] = DailyBar
      /\ FeedTable["north_money"] = NorthMoney
      /\ FeedTable["financial_report"] = FinancialReport
      /\ FeedTable["disclosure"] = Disclosure
      /\ FeedTable["macro"] = Macro
      /\ FeedTable["daily_basic"] = DailyBasic
      /\ FeedTable["limit_list"] = LimitList
      /\ FeedTable["moneyflow"] = MoneyflowMarket
      /\ FeedTable["margin_detail"] = MarginDetail
      /\ FeedTable["hsgt_top10"] = HsgtTop10
      /\ FeedTable["top_list"] = TopList
      /\ FeedTable["stk_factor_pro"] = StkFactorPro
      /\ FeedTable["cyq_perf"] = CyqPerf
      /\ FeedTable["fina_forecast"] = FinaForecastExpress
      /\ FeedTable["holdernumber"] = HolderNumber
  BY DEF FeedTable
<1>2. feed = "company_basic" =>
         /\ TheFeed.key = TheFeed.primary /\ TheFeed.back \in Nat
         /\ "symbol" \in TheFeed.primary
         /\ "rank" \notin TheFeed.primary
         /\ TheFeed.back = LastFeedDay
  BY <1>1, StoreAssumption DEF TheFeed, Sync, CompanyBasic, CompanyBasicKey,
       MarketDataCompanyBasicDB, Whole
<1>3. feed = "daily_bar" =>
         /\ TheFeed.key = TheFeed.primary /\ TheFeed.back \in Nat
         /\ "symbol" \in TheFeed.primary
         /\ "trade_date" \in TheFeed.primary
         /\ "rank" \notin TheFeed.primary
  BY <1>1, StoreAssumption DEF TheFeed, Sync, DailyBar, DailyBarKey, MarketDataDailyBarDB, Whole
<1>4. feed = "north_money" =>
         /\ TheFeed.key = TheFeed.primary /\ TheFeed.back \in Nat
         /\ "symbol" \in TheFeed.primary
         /\ "trade_date" \in TheFeed.primary
         /\ "rank" \notin TheFeed.primary
  BY <1>1, StoreAssumption DEF TheFeed, Sync, NorthMoney, NorthMoneyKey, MarketDataNorthMoneyDB,
       Whole
<1>5. feed = "financial_report" =>
         /\ TheFeed.key = TheFeed.primary /\ TheFeed.back \in Nat
         /\ "symbol" \in TheFeed.primary
         /\ "period_end" \in TheFeed.primary
         /\ "rank" \notin TheFeed.primary
  BY <1>1, StoreAssumption DEF TheFeed, Sync, FinancialReport, FinancialReportKey,
       MarketDataFinancialReportDB, Whole
<1>6. feed = "disclosure" =>
         /\ TheFeed.key = TheFeed.primary /\ TheFeed.back \in Nat
         /\ "id" \in TheFeed.primary
         /\ "id" \in TheFeed.primary
         /\ "rank" \notin TheFeed.primary
  BY <1>1, StoreAssumption DEF TheFeed, Sync, Disclosure, DisclosureKey, MarketDataDisclosureDB,
       Whole
<1>7. feed = "macro" =>
         /\ TheFeed.key = TheFeed.primary /\ TheFeed.back \in Nat
         /\ "series_id" \in TheFeed.primary
         /\ "period" \in TheFeed.primary
         /\ "rank" \notin TheFeed.primary
  BY <1>1, StoreAssumption DEF TheFeed, Sync, Macro, MacroIndicatorKey,
       MarketDataMacroIndicatorDB, Whole
<1>8. feed = "daily_basic" =>
         /\ TheFeed.key = TheFeed.primary /\ TheFeed.back \in Nat
         /\ "symbol" \in TheFeed.primary
         /\ "trade_date" \in TheFeed.primary
         /\ "rank" \notin TheFeed.primary
  BY <1>1, StoreAssumption DEF TheFeed, Sync, DailyBasic, DailyBasicKey, MarketDataDailyBasicDB,
       Whole
<1>9. feed = "limit_list" =>
         /\ TheFeed.key = TheFeed.primary /\ TheFeed.back \in Nat
         /\ "symbol" \in TheFeed.primary
         /\ "trade_date" \in TheFeed.primary
         /\ "rank" \notin TheFeed.primary
  BY <1>1, StoreAssumption DEF TheFeed, Sync, LimitList, LimitListKey, MarketDataLimitListDB,
       Whole
<1>10. feed = "moneyflow" =>
         /\ TheFeed.key = TheFeed.primary /\ TheFeed.back \in Nat
         /\ "symbol" \in TheFeed.primary
         /\ "trade_date" \in TheFeed.primary
         /\ "rank" \notin TheFeed.primary
  BY <1>1, StoreAssumption DEF TheFeed, Sync, MoneyflowMarket, MoneyflowKey,
       MarketDataMoneyflowDB, Whole
<1>11. feed = "margin_detail" =>
         /\ TheFeed.key = TheFeed.primary /\ TheFeed.back \in Nat
         /\ "symbol" \in TheFeed.primary
         /\ "trade_date" \in TheFeed.primary
         /\ "rank" \notin TheFeed.primary
  BY <1>1, StoreAssumption DEF TheFeed, Sync, MarginDetail, MarginDetailKey,
       MarketDataMarginDetailDB, Whole
<1>12. feed = "hsgt_top10" =>
         /\ TheFeed.key = TheFeed.primary /\ TheFeed.back \in Nat
         /\ "symbol" \in TheFeed.primary
         /\ "trade_date" \in TheFeed.primary
         /\ "rank" \notin TheFeed.primary
  BY <1>1, StoreAssumption DEF TheFeed, Sync, HsgtTop10, HsgtTop10Key, MarketDataHsgtTop10DB,
       Whole
<1>13. feed = "top_list" =>
         /\ TheFeed.key = TheFeed.primary /\ TheFeed.back \in Nat
         /\ "symbol" \in TheFeed.primary
         /\ "trade_date" \in TheFeed.primary
         /\ "rank" \in TheFeed.primary
  BY <1>1, StoreAssumption DEF TheFeed, Sync, TopList, TopListKey, MarketDataTopListDB, Whole
<1>14. feed = "stk_factor_pro" =>
         /\ TheFeed.key = TheFeed.primary /\ TheFeed.back \in Nat
         /\ "symbol" \in TheFeed.primary
         /\ "trade_date" \in TheFeed.primary
         /\ "rank" \notin TheFeed.primary
  BY <1>1, StoreAssumption DEF TheFeed, Sync, StkFactorPro, StkFactorProKey,
       MarketDataStkFactorProDB, Whole
<1>15. feed = "cyq_perf" =>
         /\ TheFeed.key = TheFeed.primary /\ TheFeed.back \in Nat
         /\ "symbol" \in TheFeed.primary
         /\ "trade_date" \in TheFeed.primary
         /\ "rank" \notin TheFeed.primary
  BY <1>1, StoreAssumption DEF TheFeed, Sync, CyqPerf, CyqPerfKey, MarketDataCyqPerfDB, Whole
<1>16. feed = "fina_forecast" =>
         /\ TheFeed.key = TheFeed.primary /\ TheFeed.back \in Nat
         /\ "symbol" \in TheFeed.primary
         /\ "end_date" \in TheFeed.primary
         /\ "rank" \notin TheFeed.primary
  BY <1>1, StoreAssumption DEF TheFeed, Sync, FinaForecastExpress, FinaIndicatorKey,
       MarketDataFinaIndicatorDB, Whole
<1>17. feed = "holdernumber" =>
         /\ TheFeed.key = TheFeed.primary /\ TheFeed.back \in Nat
         /\ "symbol" \in TheFeed.primary
         /\ "end_date" \in TheFeed.primary
         /\ "rank" \notin TheFeed.primary
  BY <1>1, StoreAssumption DEF TheFeed, Sync, HolderNumber, HolderNumberKey,
       MarketDataHolderNumberDB, Whole
<1>18. feed \in {"company_basic", "daily_bar", "north_money", "financial_report", "disclosure",
     "macro", "daily_basic", "limit_list", "moneyflow", "margin_detail", "hsgt_top10",
     "top_list", "stk_factor_pro", "cyq_perf", "fina_forecast", "holdernumber"}
  BY StoreAssumption DEF StoreTyped, StoreTypeOK
<1>19. /\ "symbol" \in UnitColumns /\ "id" \in UnitColumns /\ "series_id" \in UnitColumns
       /\ "trade_date" \in DayColumns /\ "period_end" \in DayColumns /\ "id" \in DayColumns
       /\ "period" \in DayColumns /\ "end_date" \in DayColumns
  BY DEF UnitColumns, DayColumns
<1> QED
  BY <1>2, <1>3, <1>4, <1>5, <1>6, <1>7, <1>8, <1>9, <1>10, <1>11, <1>12, <1>13, <1>14, <1>15,
       <1>16, <1>17, <1>18, <1>19

\* What the keys tell apart.
LEMMA KeyFacts ==
    ASSUME StoreTyped, NEW x, NEW y, SameKey(x, y)
    PROVE  /\ x.unit = y.unit
           /\ feed # "company_basic" => x.day = y.day
           /\ feed = "top_list" => x.rank = y.rank
<1>1. TheFeed.primary \intersect UnitColumns # {}
  BY FeedFacts
<1>2. feed # "company_basic" => TheFeed.primary \intersect DayColumns # {}
  BY FeedFacts
<1> QED
  BY <1>1, <1>2, FeedFacts DEF SameKey

\* A row that agrees with another in unit, day and rank has its key.
LEMMA AlikeSameKey ==
    ASSUME NEW x, NEW y, x.unit = y.unit, x.day = y.day, x.rank = y.rank
    PROVE  SameKey(x, y)
  BY DEF SameKey

\* The rows in hand: one for every day a unit was answered for.
LEMMA InHandFacts ==
    ASSUME StoreTyped, NEW U, U \subseteq DOMAIN batch
    PROVE  /\ InHand(U) \subseteq StoredRows
           /\ \A y \in InHand(U) : y.unit \in U /\ y.day \in FeedDays /\ y.ver = batch[y.unit][y.day] /\ y.ver # 0
           /\ \A u \in U, d \in FeedDays : batch[u][d] # 0 =>
                 \E y \in InHand(U) : y.unit = u /\ y.day = d /\ y.ver = batch[u][d]
           /\ \A x, y \in InHand(U) : x.unit = y.unit /\ x.day = y.day => x = y
<1> DEFINE upTo(u, d) == {e \in Answered(u) : e <= d}
           row(u, d) == [unit |-> u, day |-> d, ver |-> batch[u][d], rank |-> Cardinality(upTo(u, d))]
<1>1. InHand(U) = UNION {{row(u, d) : d \in Answered(u)} : u \in U}
  BY DEF InHand
<1>2. \A u \in U : Answered(u) = {d \in FeedDays : batch[u][d] # 0}
  BY DEF Answered
<1>3. ASSUME NEW u \in U, NEW d \in Answered(u)
      PROVE  Cardinality(upTo(u, d)) \in 1 .. LastFeedDay
  <2>1. d \in FeedDays /\ upTo(u, d) \subseteq FeedDays
    BY <1>2, <1>3
  <2>2. d \in upTo(u, d)
    BY <1>3, <2>1, StoreAssumption DEF FeedDays
  <2>3. IsFiniteSet(FeedDays) /\ Cardinality(FeedDays) = LastFeedDay
    BY FS_Interval, StoreAssumption DEF FeedDays
  <2> HIDE DEF upTo
  <2>4. /\ IsFiniteSet(upTo(u, d)) /\ Cardinality(upTo(u, d)) \in Nat
        /\ Cardinality(upTo(u, d)) <= LastFeedDay
    BY <2>1, <2>3, FS_Subset, FS_CardinalityType
  <2>5. Cardinality(upTo(u, d)) # 0
    BY <2>2, <2>4, FS_EmptySet
  <2> QED
    BY <2>4, <2>5, StoreAssumption
<1>4. ASSUME NEW u \in U, NEW d \in Answered(u)
      PROVE  row(u, d) \in StoredRows
  <2>1. u \in FeedUnits /\ d \in FeedDays /\ batch[u][d] \in Nat
    BY <1>2 DEF StoreTyped, StoreTypeOK
  <2> HIDE DEF upTo
  <2> QED
    BY <1>3, <2>1 DEF StoredRows
<1> HIDE DEF upTo
<1>5. \A y \in InHand(U) : \E u \in U : \E d \in Answered(u) : y = row(u, d)
  BY <1>1
<1>6. \A u \in U : \A d \in Answered(u) : row(u, d) \in InHand(U)
  BY <1>1
<1>7. \A u, d : row(u, d).unit = u /\ row(u, d).day = d /\ row(u, d).ver = batch[u][d]
  OBVIOUS
<1> HIDE DEF row
<1>8. InHand(U) \subseteq StoredRows
  BY <1>4, <1>5
<1>9. \A y \in InHand(U) : y.unit \in U /\ y.day \in FeedDays /\ y.ver = batch[y.unit][y.day] /\ y.ver # 0
  BY <1>2, <1>5, <1>7
<1>10. \A u \in U, d \in FeedDays : batch[u][d] # 0 =>
          \E y \in InHand(U) : y.unit = u /\ y.day = d /\ y.ver = batch[u][d]
  BY <1>2, <1>6, <1>7
<1>11. ASSUME NEW x \in InHand(U), NEW y \in InHand(U), x.unit = y.unit, x.day = y.day
       PROVE  x = y
  BY <1>5, <1>7, <1>11
<1> QED
  BY <1>8, <1>9, <1>10, <1>11

\* A commit: rows of the day or before, each as it was answered, take the place of those
\* of their key; what was due stays stored, and what is due now is stored.
LEMMA StoredKeeps ==
    ASSUME StoreInv, NEW U, U \subseteq DOMAIN batch, Stored(U),
           UNCHANGED <<feed, vendor, fdate>>
    PROVE  /\ table' \subseteq StoredRows
           /\ since' \in [FeedUnits -> [FeedDays -> Nat]]
           /\ \A u \in FeedUnits, d \in FeedDays : since'[u][d] <= fdate
           /\ \A u \in FeedUnits \ U : \A d \in FeedDays : since'[u][d] = since[u][d]
           /\ DueIsStored' /\ KeysTell'
<1> USE DEF StoreInv
<1> DEFINE rows == InHand(U)
           kept == {x \in rows : \A y \in rows : SameKey(x, y) => y.day <= x.day}
           rest == {x \in table : \A y \in rows : ~SameKey(x, y)}
<1>1. /\ table' = rest \union kept
      /\ since' = [u \in FeedUnits |-> [d \in FeedDays |->
                      IF u \in U /\ <<u, d>> \notin behind /\ since[u][d] < d
                      THEN fdate ELSE since[u][d]]]
  BY DEF Stored
<1>2. /\ rows \subseteq StoredRows
      /\ \A y \in rows : y.unit \in U /\ y.day \in FeedDays /\ y.ver = batch[y.unit][y.day] /\ y.ver # 0
      /\ \A u \in U, d \in FeedDays : batch[u][d] # 0 =>
            \E y \in rows : y.unit = u /\ y.day = d /\ y.ver = batch[u][d]
      /\ \A x, y \in rows : x.unit = y.unit /\ x.day = y.day => x = y
  BY InHandFacts
<1> HIDE DEF rows
<1>3. /\ fdate \in Nat /\ LastFeedDay \in Nat /\ U \subseteq FeedUnits
      /\ TheFeed' = TheFeed /\ TheFeed.back \in Nat
      /\ \A u \in FeedUnits, d \in FeedDays : /\ since[u][d] \in Nat /\ vendor[u][d] \in Nat
                                              /\ d \in Nat /\ d >= 1 /\ since[u][d] <= fdate
  BY StoreAssumption, FeedFacts DEF StoreTyped, StoreTypeOK, SyncsInOrder, FeedDays, TheFeed
<1>4. table' \subseteq StoredRows
  BY <1>1, <1>2 DEF StoreTyped
<1>5. since' \in [FeedUnits -> [FeedDays -> Nat]]
  BY <1>1, <1>3
<1>6. /\ \A u \in FeedUnits, d \in FeedDays : since'[u][d] <= fdate
      /\ \A u \in FeedUnits \ U : \A d \in FeedDays : since'[u][d] = since[u][d]
      /\ \A u \in FeedUnits, d \in FeedDays :
            \/ since'[u][d] = since[u][d]
            \/ u \in U /\ <<u, d>> \notin behind /\ since'[u][d] = fdate
  BY <1>1, <1>3
<1>7. \A x, y \in table' : SameKey(x, y)' <=> SameKey(x, y)
  BY <1>3 DEF SameKey
<1>8. KeysTell'
  <2> SUFFICES ASSUME NEW x \in table', NEW y \in table', SameKey(x, y)
               PROVE  x = y
    BY <1>7 DEF KeysTell
  <2>0. SameKey(y, x)
    BY DEF SameKey
  <2>1. CASE x \in rest /\ y \in rest
    BY <2>1 DEF KeysTell
  <2>2. CASE x \in kept /\ y \in kept
    <3>1. x.unit = y.unit /\ x \in rows /\ y \in rows /\ x.day \in Nat /\ y.day \in Nat
      BY <1>2, <1>3, <2>2, KeyFacts
    <3>2. y.day <= x.day /\ x.day <= y.day
      BY <2>0, <2>2, <3>1
    <3> QED
      BY <1>2, <3>1, <3>2
  <2>3. CASE x \in rest /\ y \in kept
    BY <2>3
  <2>4. CASE x \in kept /\ y \in rest
    BY <2>0, <2>4
  <2> QED
    BY <1>1, <2>1, <2>2, <2>3, <2>4
<1>9. DueIsStored'
  <2> SUFFICES ASSUME NEW u \in FeedUnits, NEW d \in FeedDays, Due(u, d)'
               PROVE  \E x \in table' : x.unit = u /\ x.day = d /\ x.ver = vendor[u][d]
    BY DEF DueIsStored
  <2>1. /\ vendor[u][d] # 0 /\ since'[u][d] \in d .. d + TheFeed.back
        /\ feed = "company_basic" => \A e \in FeedDays : vendor[u][e] # 0 => e <= d
    BY <1>3 DEF Due
  <2>2. d <= fdate /\ fdate <= fdate + TheFeed.back
    BY <1>3, <1>6, <2>1
  \* What is in hand of the row, where there is something, is its content now.
  <2>3. ASSUME u \in U, batch[u][d] # 0
        PROVE  batch[u][d] = vendor[u][d] \/ since'[u][d] = 0
    <3>1. \/ batch[u][d] = ToAnswer(u, d)
          \/ <<u, d>> \in behind /\ since[u][d] = 0
      BY <2>3 DEF HandIsAnswer
    <3>2. batch[u][d] = ToAnswer(u, d) => batch[u][d] = vendor[u][d]
      BY <2>3 DEF ToAnswer
    <3> QED
      BY <1>6, <3>1, <3>2
  <2>4. since'[u][d] # 0
    BY <1>3, <2>1
  \* A row in hand of the row's day is kept, and is what is wanted.
  <2>5. ASSUME u \in U, batch[u][d] # 0
        PROVE  \E x \in table' : x.unit = u /\ x.day = d /\ x.ver = vendor[u][d]
    <3>1. PICK y \in rows : y.unit = u /\ y.day = d /\ y.ver = batch[u][d]
      BY <1>2, <2>5
    <3>2. ASSUME NEW z \in rows, SameKey(y, z) PROVE z.day <= y.day
      <4>1. z.unit = u /\ z.day \in FeedDays /\ z.ver = batch[u][z.day] /\ z.ver # 0
        BY <1>2, <3>1, <3>2, KeyFacts
      <4>2. CASE feed # "company_basic"
        BY <1>3, <3>1, <3>2, <4>1, <4>2, KeyFacts
      <4>3. CASE feed = "company_basic"
        <5>1. vendor[u][z.day] # 0
          BY <2>5, <4>1 DEF HandIsAnswer
        <5> QED
          BY <2>1, <3>1, <4>1, <4>3, <5>1
      <4> QED
        BY <4>2, <4>3
    <3>3. y \in table' /\ y.ver = vendor[u][d]
      BY <1>1, <2>3, <2>4, <2>5, <3>1, <3>2
    <3> QED
      BY <3>1, <3>3
  <2>6. CASE since'[u][d] # since[u][d]
    <3>1. u \in U /\ <<u, d>> \notin behind /\ since'[u][d] = fdate
      BY <1>6, <2>6
    <3>2. batch[u][d] = ToAnswer(u, d)
      BY <3>1 DEF HandIsAnswer
    <3>3. d \in Window(TheFeed, fdate)
      BY <2>1, <3>1, <1>3 DEF Window
    <3>4. batch[u][d] # 0
      BY <2>1, <3>2, <3>3 DEF ToAnswer
    <3> QED
      BY <2>5, <3>1, <3>4
  <2>7. CASE since'[u][d] = since[u][d]
    <3>1. Due(u, d)
      BY <2>1, <2>7 DEF Due
    <3>2. PICK x \in table : x.unit = u /\ x.day = d /\ x.ver = vendor[u][d]
      BY <3>1 DEF DueIsStored
    <3>3. CASE x \in rest
      BY <1>1, <3>2, <3>3
    <3>4. CASE x \notin rest
      <4>1. PICK y \in rows : SameKey(x, y)
        BY <3>4
      <4>2. y.unit = u /\ u \in U /\ y.ver = batch[u][y.day] /\ y.ver # 0 /\ y.day \in FeedDays
        BY <1>2, <3>2, <4>1, KeyFacts
      <4>3. batch[u][d] # 0
        <5>1. CASE feed # "company_basic"
          BY <3>2, <4>1, <4>2, <5>1, KeyFacts
        <5>2. CASE feed = "company_basic"
          <6>1. \/ batch[u][d] = ToAnswer(u, d)
                \/ <<u, d>> \in behind /\ since[u][d] = 0
            BY <4>2 DEF HandIsAnswer
          <6>2. batch[u][d] = ToAnswer(u, d)
            BY <2>4, <2>7, <6>1
          <6>3. d \in Window(TheFeed, fdate)
            <7>1. TheFeed.back = LastFeedDay
              BY <5>2, FeedFacts
            <7>2. fdate <= d + LastFeedDay
              BY <1>3 DEF StoreTyped, StoreTypeOK
            <7> QED
              BY <2>2, <7>1, <7>2 DEF Window
          <6> QED
            BY <2>1, <6>2, <6>3 DEF ToAnswer
        <5> QED
          BY <5>1, <5>2
      <4> QED
        BY <2>5, <4>2, <4>3
    <3> QED
      BY <3>3, <3>4
  <2> QED
    BY <2>6, <2>7
<1> QED
  BY <1>4, <1>5, <1>6, <1>8, <1>9

\* The vendor's rows change: what changed is not due before a sync brings it again.
LEMMA ChangedKeeps ==
    ASSUME StoreInv, NEW C, C \subseteq FeedUnits \X FeedDays, Changed(C),
           UNCHANGED <<feed, fdate, batch, table>>
    PROVE  /\ vendor' \in [FeedUnits -> [FeedDays -> Nat]]
           /\ since' \in [FeedUnits -> [FeedDays -> Nat]]
           /\ \A u \in FeedUnits, d \in FeedDays : since'[u][d] <= fdate
           /\ HandIsAnswer' /\ DueIsStored' /\ KeysTell'
<1> USE DEF StoreInv
<1>1. /\ \A u \in FeedUnits, d \in FeedDays :
            /\ since[u][d] \in Nat /\ vendor[u][d] \in Nat /\ d \in Nat /\ d >= 1 /\ since[u][d] <= fdate
      /\ fdate \in Nat /\ TheFeed' = TheFeed /\ TheFeed.back \in Nat /\ DOMAIN batch \subseteq FeedUnits
  BY StoreAssumption, FeedFacts DEF StoreTyped, StoreTypeOK, SyncsInOrder, FeedDays, TheFeed
<1>2. /\ vendor' \in [FeedUnits -> [FeedDays -> Nat]]
      /\ since' \in [FeedUnits -> [FeedDays -> Nat]]
  BY <1>1 DEF Changed
<1>3. /\ \A u \in FeedUnits, d \in FeedDays :
            /\ <<u, d>> \in C => /\ vendor'[u][d] = vendor[u][d] + 1 /\ since'[u][d] = 0
                                 /\ u \in DOMAIN batch => <<u, d>> \in behind'
            /\ <<u, d>> \notin C => vendor'[u][d] = vendor[u][d] /\ since'[u][d] = since[u][d]
      /\ behind \subseteq behind'
  BY DEF Changed
<1>4. \A u \in FeedUnits, d \in FeedDays : since'[u][d] <= fdate
  <2> SUFFICES ASSUME NEW u \in FeedUnits, NEW d \in FeedDays PROVE since'[u][d] <= fdate
    OBVIOUS
  <2>1. since'[u][d] = 0 \/ since'[u][d] = since[u][d]
    BY <1>3
  <2> QED
    BY <1>1, <2>1
<1>5. HandIsAnswer'
  <2> SUFFICES ASSUME NEW u \in DOMAIN batch
               PROVE  /\ \A d \in FeedDays : batch[u][d] # 0 => d <= fdate /\ vendor'[u][d] # 0
                      /\ \/ \A d \in FeedDays : batch[u][d] = 0 /\ <<u, d>> \in behind'
                         \/ \A d \in FeedDays : \/ batch[u][d] = ToAnswer(u, d)'
                                                \/ <<u, d>> \in behind' /\ since'[u][d] = 0
    BY DEF HandIsAnswer
  <2>1. u \in FeedUnits
    BY <1>1
  <2>2. ASSUME NEW d \in FeedDays, batch[u][d] # 0
        PROVE  d <= fdate /\ vendor'[u][d] # 0
    <3>1. d <= fdate /\ vendor[u][d] # 0 /\ vendor[u][d] \in Nat
      BY <1>1, <2>1, <2>2 DEF HandIsAnswer
    <3>2. vendor'[u][d] = vendor[u][d] + 1 \/ vendor'[u][d] = vendor[u][d]
      BY <1>3, <2>1
    <3> QED
      BY <3>1, <3>2
  <2>3. CASE \A d \in FeedDays : batch[u][d] = 0 /\ <<u, d>> \in behind
    BY <1>3, <2>2, <2>3
  <2>4. CASE \A d \in FeedDays : \/ batch[u][d] = ToAnswer(u, d)
                                 \/ <<u, d>> \in behind /\ since[u][d] = 0
    <3>1. ASSUME NEW d \in FeedDays
          PROVE  \/ batch[u][d] = ToAnswer(u, d)'
                 \/ <<u, d>> \in behind' /\ since'[u][d] = 0
      <4>1. CASE <<u, d>> \in C
        BY <1>3, <2>1, <4>1
      <4>2. CASE <<u, d>> \notin C
        <5>1. ToAnswer(u, d)' = ToAnswer(u, d)
          BY <1>1, <1>3, <2>1, <4>2 DEF ToAnswer
        <5> QED
          BY <1>3, <2>1, <2>4, <4>2, <5>1
      <4> QED
        BY <4>1, <4>2
    <3> QED
      BY <2>2, <3>1
  <2> QED
    BY <2>3, <2>4 DEF HandIsAnswer
<1>6. DueIsStored'
  <2> SUFFICES ASSUME NEW u \in FeedUnits, NEW d \in FeedDays, Due(u, d)'
               PROVE  \E x \in table : x.unit = u /\ x.day = d /\ x.ver = vendor'[u][d]
    BY DEF DueIsStored
  <2>1. /\ vendor'[u][d] # 0 /\ since'[u][d] \in d .. d + TheFeed.back
        /\ feed = "company_basic" => \A e \in FeedDays : vendor'[u][e] # 0 => e <= d
    BY <1>1 DEF Due
  <2>2. <<u, d>> \notin C
    <3>1. since'[u][d] # 0
      BY <1>1, <2>1
    <3> QED
      BY <1>3, <3>1
  <2>3. ASSUME NEW e \in FeedDays, vendor[u][e] # 0
        PROVE  vendor'[u][e] # 0
    <3>1. vendor'[u][e] = vendor[u][e] + 1 \/ vendor'[u][e] = vendor[u][e]
      BY <1>3
    <3> QED
      BY <1>1, <2>3, <3>1
  <2>4. Due(u, d)
    BY <1>3, <2>1, <2>2, <2>3 DEF Due
  <2> QED
    BY <1>3, <2>2, <2>4 DEF DueIsStored
<1>7. KeysTell'
  BY <1>1 DEF KeysTell, SameKey
<1> QED
  BY <1>2, <1>4, <1>5, <1>6, <1>7

\* Steps that leave the rows of the vendor, what is stored and when.
LEMMA RestStays ==
    ASSUME StoreInv, UNCHANGED <<feed, vendor, table, since>>
    PROVE  DueIsStored' /\ KeysTell'
<1>1. TheFeed' = TheFeed
  BY DEF TheFeed
<1> QED
  BY <1>1 DEF StoreInv, DueIsStored, KeysTell, Due, SameKey

\* The vendor moves on.
LEMMA VendorKeeps ==
    ASSUME StoreInv,
           \/ \E late \in SUBSET FeedUnits : NextFeedDay(late)
           \/ \E u \in FeedUnits, d \in FeedDays : PublishLate(u, d) \/ Restate(u, {d})
           \/ \E u \in FeedUnits : feed = "daily_bar" /\ Restate(u, {d \in FeedDays : vendor[u][d] # 0})
    PROVE  StoreInv'
<1>1. PICK C : /\ C \subseteq FeedUnits \X FeedDays /\ Changed(C)
               /\ UNCHANGED <<feed, dialect, fdate, left, batch, doubled, fdone, table, refused>>
               /\ fday' \in {fday, fday + 1} /\ fday' \in FeedDays
               /\ troubles' \in 0 .. MaxTroubles
  <2>0. fday \in FeedDays /\ troubles \in 0 .. MaxTroubles
    BY DEF StoreInv, StoreTyped, StoreTypeOK
  <2>1. ASSUME NEW late \in SUBSET FeedUnits, NextFeedDay(late)
        PROVE  \E C : /\ C \subseteq FeedUnits \X FeedDays /\ Changed(C)
                      /\ UNCHANGED <<feed, dialect, fdate, left, batch, doubled, fdone, table, refused>>
                      /\ fday' \in {fday, fday + 1} /\ fday' \in FeedDays
                      /\ troubles' \in 0 .. MaxTroubles
    <3> DEFINE C == IF fday + 1 \in FeedTradeDays THEN (FeedUnits \ late) \X {fday + 1} ELSE {}
    <3>1. Changed(C) /\ fday' = fday + 1 /\ fday' \in FeedDays
      BY <2>0, <2>1, StoreAssumption DEF NextFeedDay, FeedDays
    <3>2. C \subseteq FeedUnits \X FeedDays
      BY StoreAssumption DEF FeedDays
    <3>3. troubles' \in 0 .. MaxTroubles
      BY <2>0, <2>1, StoreAssumption DEF NextFeedDay, Trouble
    <3>4. UNCHANGED <<feed, dialect, fdate, left, batch, doubled, fdone, table, refused>>
      BY <2>1 DEF NextFeedDay
    <3> QED
      BY <3>1, <3>2, <3>3, <3>4
  <2>2. ASSUME NEW u \in FeedUnits, NEW d \in FeedDays, PublishLate(u, d)
        PROVE  \E C : /\ C \subseteq FeedUnits \X FeedDays /\ Changed(C)
                      /\ UNCHANGED <<feed, dialect, fdate, left, batch, doubled, fdone, table, refused>>
                      /\ fday' \in {fday, fday + 1} /\ fday' \in FeedDays
                      /\ troubles' \in 0 .. MaxTroubles
    BY <2>0, <2>2 DEF PublishLate
  <2>3. ASSUME NEW u \in FeedUnits, NEW D \in SUBSET FeedDays, Restate(u, D)
        PROVE  \E C : /\ C \subseteq FeedUnits \X FeedDays /\ Changed(C)
                      /\ UNCHANGED <<feed, dialect, fdate, left, batch, doubled, fdone, table, refused>>
                      /\ fday' \in {fday, fday + 1} /\ fday' \in FeedDays
                      /\ troubles' \in 0 .. MaxTroubles
    <3>1. Changed({u} \X D) /\ {u} \X D \subseteq FeedUnits \X FeedDays
      BY <2>3 DEF Restate
    <3>2. /\ UNCHANGED <<feed, dialect, fday, fdate, left, batch, doubled, fdone, table, refused>>
          /\ troubles' \in 0 .. MaxTroubles
      BY <2>0, <2>3, StoreAssumption DEF Restate, Trouble
    <3> QED
      BY <2>0, <3>1, <3>2
  <2>4. \A u \in FeedUnits : {d \in FeedDays : vendor[u][d] # 0} \in SUBSET FeedDays
    OBVIOUS
  <2>5. \A d \in FeedDays : {d} \in SUBSET FeedDays
    OBVIOUS
  <2> QED
    BY <2>1, <2>2, <2>3, <2>4, <2>5
<1>2. /\ vendor' \in [FeedUnits -> [FeedDays -> Nat]]
      /\ since' \in [FeedUnits -> [FeedDays -> Nat]]
      /\ \A u \in FeedUnits, d \in FeedDays : since'[u][d] <= fdate
      /\ HandIsAnswer' /\ DueIsStored' /\ KeysTell'
  BY <1>1, ChangedKeeps
<1>3. StoreTyped'
  BY <1>1, <1>2 DEF StoreInv, StoreTyped, StoreTypeOK
<1>4. SyncsInOrder'
  <2>1. fday \in Nat /\ fdate \in Nat /\ fdate <= fday
    BY StoreAssumption DEF StoreInv, SyncsInOrder, StoreTyped, StoreTypeOK, FeedDays
  <2> QED
    BY <1>1, <1>2, <2>1 DEF SyncsInOrder
<1> QED
  BY <1>2, <1>3, <1>4 DEF StoreInv

\* A sync starts, asks, meets a doubled key, or the process restarts.
LEMMA SyncKeeps ==
    ASSUME StoreInv,
           \/ StartSync \/ \E failed \in SUBSET FeedUnits : CallVendor(failed)
           \/ AnswerDoubled \/ StoreRestart
    PROVE  StoreInv'
<1> USE DEF StoreInv
<1>0. /\ UNCHANGED <<feed, dialect, fday, vendor, table, since, refused>>
      /\ feed \in Feeds /\ dialect \in Dialects /\ fday \in FeedDays /\ troubles \in 0 .. MaxTroubles
      /\ fdate \in 0 .. LastFeedDay /\ fdone \in 0 .. LastFeedDay /\ left \subseteq FeedUnits
      /\ DOMAIN batch \subseteq FeedUnits /\ doubled \in BOOLEAN
      /\ TheFeed' = TheFeed
  BY DEF StartSync, CallVendor, AnswerDoubled, StoreRestart, StoreTyped, StoreTypeOK, TheFeed
<1>1. /\ fday \in Nat /\ fdate \in Nat /\ fdate <= fday /\ fday \in 0 .. LastFeedDay
      /\ \A u \in FeedUnits, d \in FeedDays : since[u][d] \in Nat /\ since[u][d] <= fdate
  BY StoreAssumption DEF SyncsInOrder, StoreTyped, StoreTypeOK, FeedDays
<1>2. troubles' \in 0 .. MaxTroubles
  BY <1>0, StoreAssumption DEF StartSync, CallVendor, AnswerDoubled, StoreRestart, Trouble
<1>3. DueIsStored' /\ KeysTell'
  BY <1>0, RestStays
<1>4. NoBatch \in [DOMAIN NoBatch -> [FeedDays -> Nat]] /\ DOMAIN NoBatch = {}
  BY DEF NoBatch
<1>5. CASE StartSync
  <2>1. DOMAIN batch = {} /\ UNCHANGED <<batch, doubled, behind>>
    BY <1>5 DEF StartSync
  <2>2. left' \subseteq FeedUnits /\ fdate' \in {fdate, fday} /\ fdone' \in {fdone, fday}
    BY <1>0, <1>5 DEF StartSync, Asked
  <2>3. StoreTyped'
    BY <1>0, <1>1, <1>2, <2>1, <2>2 DEF StoreTyped, StoreTypeOK
  <2>4. SyncsInOrder'
    <3>1. fdate' \in Nat /\ fdate <= fdate' /\ fdate' <= fday
      BY <1>1, <2>2
    <3>2. ASSUME NEW u \in FeedUnits, NEW d \in FeedDays PROVE since[u][d] <= fdate'
      BY <1>1, <3>1
    <3> QED
      BY <1>0, <3>1, <3>2 DEF SyncsInOrder
  <2>5. HandIsAnswer'
    BY <2>1 DEF HandIsAnswer
  <2> QED
    BY <1>3, <2>3, <2>4, <2>5
<1>6. ASSUME NEW failed \in SUBSET FeedUnits, CallVendor(failed) PROVE StoreInv'
  <2>1. AskedNow \subseteq left /\ failed \subseteq AskedNow /\ UNCHANGED <<fdate, fdone>> /\ doubled' = FALSE
    BY <1>6 DEF CallVendor, AskedNow, First
  <2>2. SyncsInOrder'
    BY <1>0, <1>1, <2>1 DEF SyncsInOrder
  <2>3. CASE left' = {} /\ batch' = NoBatch /\ behind' = {}
    <3>1. StoreTyped'
      BY <1>0, <1>2, <1>4, <2>1, <2>3 DEF StoreTyped, StoreTypeOK
    <3>2. HandIsAnswer'
      BY <1>4, <2>3 DEF HandIsAnswer
    <3> QED
      BY <1>3, <2>2, <3>1, <3>2
  <2>4. CASE /\ batch' = Answers(AskedNow, failed) /\ left' = left \ AskedNow
             /\ behind' = {<<u, d>> : u \in failed, d \in FeedDays}
    <3> DEFINE U == AskedNow
    <3>1. /\ U \subseteq FeedUnits
          /\ batch' = [u \in U |-> [d \in FeedDays |->
                          IF u \notin failed /\ d \in Window(TheFeed, fdate) THEN vendor[u][d] ELSE 0]]
      BY <1>0, <2>1, <2>4 DEF Answers
    <3> HIDE DEF U
    <3>2. DOMAIN batch' = U /\ batch' \in [U -> [FeedDays -> Nat]]
      BY <3>1 DEF StoreTyped
    <3>3. StoreTyped'
      BY <1>0, <1>2, <2>1, <2>4, <3>1, <3>2 DEF StoreTyped, StoreTypeOK
    <3>4. HandIsAnswer'
      <4> SUFFICES ASSUME NEW u \in U
                   PROVE  /\ \A d \in FeedDays : batch'[u][d] # 0 => d <= fdate /\ vendor[u][d] # 0
                          /\ \/ \A d \in FeedDays : batch'[u][d] = 0 /\ <<u, d>> \in behind'
                             \/ \A d \in FeedDays : batch'[u][d] = ToAnswer(u, d)'
        BY <1>0, <2>1, <3>2 DEF HandIsAnswer
      <4>1. \A d \in FeedDays : batch'[u][d] =
                IF u \notin failed /\ d \in Window(TheFeed, fdate) THEN vendor[u][d] ELSE 0
        BY <3>1
      <4>2. \A d \in FeedDays : batch'[u][d] # 0 => d <= fdate /\ vendor[u][d] # 0
        BY <4>1 DEF Window
      <4>3. CASE u \in failed
        BY <2>4, <4>1, <4>2, <4>3
      <4>4. CASE u \notin failed
        <5>1. \A d \in FeedDays : ToAnswer(u, d)' = ToAnswer(u, d)
          BY <1>0, <2>1 DEF ToAnswer
        <5> QED
          BY <4>1, <4>2, <4>4, <5>1 DEF ToAnswer
      <4> QED
        BY <4>3, <4>4
    <3> QED
      BY <1>3, <2>2, <3>3, <3>4
  <2> QED
    BY <1>6, <2>3, <2>4 DEF CallVendor
<1>7. CASE AnswerDoubled
  <2>1. UNCHANGED <<fdate, left, batch, fdone, behind>> /\ doubled' = TRUE
    BY <1>7 DEF AnswerDoubled
  <2>2. StoreTyped'
    BY <1>0, <1>2, <2>1 DEF StoreTyped, StoreTypeOK
  <2>3. SyncsInOrder'
    BY <1>0, <2>1 DEF SyncsInOrder
  <2>4. HandIsAnswer'
    BY <1>0, <2>1 DEF HandIsAnswer, ToAnswer
  <2> QED
    BY <1>3, <2>2, <2>3, <2>4
<1>8. CASE StoreRestart
  <2>1. left' = {} /\ batch' = NoBatch /\ doubled' = FALSE /\ fdone' = 0 /\ UNCHANGED fdate
    BY <1>8 DEF StoreRestart
  <2>2. StoreTyped'
    <3>1. 0 \in 0 .. LastFeedDay /\ FALSE \in BOOLEAN /\ {} \subseteq FeedUnits
      BY StoreAssumption
    <3>2. StoreTypeOK'
      BY <1>0, <1>2, <1>4, <2>1, <3>1 DEF StoreTypeOK, StoreTyped
    <3>3. batch' \in [DOMAIN batch' -> [FeedDays -> Nat]]
      BY <1>4, <2>1
    <3> QED
      BY <1>0, <3>2, <3>3 DEF StoreTyped
  <2>3. SyncsInOrder'
    BY <1>0, <2>1 DEF SyncsInOrder
  <2>4. HandIsAnswer'
    BY <1>4, <2>1 DEF HandIsAnswer
  <2> QED
    BY <1>3, <2>2, <2>3, <2>4
<1> QED
  BY <1>5, <1>6, <1>7, <1>8

\* A batch that is committed leaves what is still in hand as it was.
LEMMA CommitKeeps ==
    ASSUME StoreInv, bulk_upsert, Refuses(StoredNow) = "no"
    PROVE  StoreInv'
<1> USE DEF StoreInv
<1> DEFINE U == StoredNow
<1>1. U \subseteq DOMAIN batch
  BY DEF StoredNow, First
<1>2. /\ Stored(U) /\ UNCHANGED <<feed, dialect, fday, vendor, fdate, left, refused, troubles>>
      /\ batch' = [u \in (DOMAIN batch) \ U |-> batch[u]]
      /\ fdone' \in {fdate, fdone} /\ doubled' = (doubled /\ DOMAIN batch' # {})
      /\ behind' = {c \in behind : c[1] \in DOMAIN batch'}
  BY DEF bulk_upsert, Without
<1> HIDE DEF U
<1>3. /\ table' \subseteq StoredRows
      /\ since' \in [FeedUnits -> [FeedDays -> Nat]]
      /\ \A u \in FeedUnits, d \in FeedDays : since'[u][d] <= fdate
      /\ \A u \in FeedUnits \ U : \A d \in FeedDays : since'[u][d] = since[u][d]
      /\ DueIsStored' /\ KeysTell'
  BY <1>1, <1>2, StoredKeeps
<1>4. /\ DOMAIN batch \subseteq FeedUnits /\ batch \in [DOMAIN batch -> [FeedDays -> Nat]]
      /\ DOMAIN batch' = (DOMAIN batch) \ U
      /\ \A u \in DOMAIN batch' : u \in DOMAIN batch /\ batch'[u] = batch[u]
  BY <1>2 DEF StoreTyped, StoreTypeOK
<1>5. StoreTyped'
  <2>1. batch' \in [DOMAIN batch' -> [FeedDays -> Nat]]
    BY <1>2, <1>4
  <2>2. doubled' \in BOOLEAN
    BY <1>2
  <2>3. StoreTypeOK'
    BY <1>2, <1>4, <2>2 DEF StoreTyped, StoreTypeOK
  <2> QED
    BY <1>2, <1>3, <2>1, <2>3 DEF StoreTyped
<1>6. SyncsInOrder'
  BY <1>2, <1>3 DEF SyncsInOrder
<1>7. HandIsAnswer'
  <2>1. TheFeed' = TheFeed
    BY <1>2 DEF TheFeed
  <2> SUFFICES ASSUME NEW u \in DOMAIN batch'
               PROVE  /\ \A d \in FeedDays : batch[u][d] # 0 => d <= fdate /\ vendor[u][d] # 0
                      /\ \/ \A d \in FeedDays : batch[u][d] = 0 /\ <<u, d>> \in behind'
                         \/ \A d \in FeedDays : \/ batch[u][d] = ToAnswer(u, d)'
                                                \/ <<u, d>> \in behind' /\ since'[u][d] = 0
    BY <1>2, <1>4 DEF HandIsAnswer
  <2>2. u \in DOMAIN batch /\ u \in FeedUnits \ U
    BY <1>4
  <2>3. \A d \in FeedDays : /\ ToAnswer(u, d)' = ToAnswer(u, d)
                            /\ since'[u][d] = since[u][d]
                            /\ <<u, d>> \in behind => <<u, d>> \in behind'
    BY <1>2, <1>3, <2>1, <2>2 DEF ToAnswer
  <2> QED
    BY <2>2, <2>3 DEF HandIsAnswer
<1> QED
  BY <1>3, <1>5, <1>6, <1>7

\* A batch that is refused is lost, and nothing else; the key is never the reason.
LEMMA RefusalKeeps ==
    ASSUME StoreInv, bulk_upsert, Refuses(StoredNow) # "no"
    PROVE  StoreInv'
<1> USE DEF StoreInv
<1>1. /\ UNCHANGED <<feed, dialect, fday, vendor, fdate, troubles, table, since, fdone>>
      /\ refused' = refused \union {Refuses(StoredNow)}
      /\ left' = {} /\ batch' = NoBatch /\ doubled' = (doubled /\ DOMAIN batch' # {})
  BY DEF bulk_upsert
<1>2. Refuses(StoredNow) \in {"sqlite", "doubled"}
  <2>1. TheFeed.key = TheFeed.primary
    BY FeedFacts
  <2> QED
    BY <2>1 DEF Refuses
<1>3. NoBatch \in [DOMAIN NoBatch -> [FeedDays -> Nat]] /\ DOMAIN NoBatch = {}
  BY DEF NoBatch
<1>4. StoreTyped'
  <2>1. batch' \in [DOMAIN batch' -> [FeedDays -> Nat]] /\ DOMAIN batch' = {}
    BY <1>1, <1>3
  <2>2. doubled' \in BOOLEAN
    BY <1>1
  <2>3. refused' \subseteq {"sqlite", "doubled", "unmatched"} /\ "unmatched" \notin refused'
    BY <1>1, <1>2 DEF StoreTyped, StoreTypeOK
  <2>4. StoreTypeOK'
    BY <1>1, <2>1, <2>2, <2>3 DEF StoreTyped, StoreTypeOK
  <2> QED
    BY <1>1, <2>1, <2>3, <2>4 DEF StoreTyped
<1>5. SyncsInOrder' /\ HandIsAnswer'
  BY <1>1, <1>3 DEF SyncsInOrder, HandIsAnswer
<1>6. DueIsStored' /\ KeysTell'
  BY <1>1, RestStays
<1> QED
  BY <1>4, <1>5, <1>6

\* Nothing is stored and nothing is due at first.
LEMMA StoreStart == StoreInit => StoreInv
<1> SUFFICES ASSUME StoreInit PROVE StoreInv
  OBVIOUS
<1> USE DEF StoreInit
<1>1. NoBatch \in [DOMAIN NoBatch -> [FeedDays -> Nat]] /\ DOMAIN NoBatch = {}
  BY DEF NoBatch
<1>2. /\ 1 \in FeedDays /\ 0 \in 0 .. LastFeedDay /\ 0 \in 0 .. MaxTroubles
      /\ \A d \in FeedDays : d \in Nat /\ d >= 1
  BY StoreAssumption DEF FeedDays
<1>3. StoreTypeOK
  BY <1>1, <1>2 DEF StoreTypeOK
<1>4. StoreTyped
  BY <1>1, <1>3 DEF StoreTyped
<1>5. HandIsAnswer /\ KeysTell
  BY <1>1 DEF HandIsAnswer, KeysTell
<1>6. SyncsInOrder
  BY <1>2 DEF SyncsInOrder
<1>7. DueIsStored
  <2> SUFFICES ASSUME NEW u \in FeedUnits, NEW d \in FeedDays, Due(u, d) PROVE FALSE
    BY DEF DueIsStored
  <2>1. since[u][d] = 0 /\ TheFeed.back \in Nat
    BY <1>4, FeedFacts
  <2> QED
    BY <1>2, <2>1 DEF Due
<1> QED
  BY <1>4, <1>5, <1>6, <1>7 DEF StoreInv

\* Every step keeps the invariant.
LEMMA StoreStepKeeps == StoreInv /\ [StoreNext]_storeVars => StoreInv'
<1> SUFFICES ASSUME StoreInv, [StoreNext]_storeVars PROVE StoreInv'
  OBVIOUS
<1>1. CASE \/ \E late \in SUBSET FeedUnits : NextFeedDay(late)
           \/ \E u \in FeedUnits, d \in FeedDays : PublishLate(u, d) \/ Restate(u, {d})
           \/ \E u \in FeedUnits : feed = "daily_bar" /\ Restate(u, {d \in FeedDays : vendor[u][d] # 0})
  BY <1>1, VendorKeeps
<1>2. CASE \/ StartSync \/ \E failed \in SUBSET FeedUnits : CallVendor(failed)
           \/ AnswerDoubled \/ StoreRestart
  BY <1>2, SyncKeeps
<1>3. CASE bulk_upsert
  BY <1>3, CommitKeeps, RefusalKeeps
<1>4. CASE UNCHANGED storeVars
  <2>1. UNCHANGED <<feed, dialect, fday, vendor, fdate, left, batch, doubled, fdone, table, since,
                    behind, refused, troubles>>
    BY <1>4 DEF storeVars
  <2>2. TheFeed' = TheFeed /\ StoreTyped'
    BY <2>1 DEF TheFeed, StoreInv, StoreTyped, StoreTypeOK
  <2>3. DueIsStored' /\ KeysTell'
    BY <2>1, RestStays
  <2>4. HandIsAnswer' /\ SyncsInOrder'
    BY <2>1, <2>2 DEF StoreInv, HandIsAnswer, SyncsInOrder, ToAnswer
  <2> QED
    BY <2>2, <2>3, <2>4 DEF StoreInv
<1> QED
  BY <1>1, <1>2, <1>3, <1>4 DEF StoreNext

\* So it always holds.
LEMMA StoreAlways == StoreSpec => []StoreInv
<1> QED
  BY StoreStart, StoreStepKeeps, PTL DEF StoreSpec

\* Of the rows of a unit, fewer than LastFeedDay are older than one of them: there is one
\* of a day, but in the top list, which has up to LastFeedDay ranks of a day.
LEMMA FewOlder ==
    ASSUME StoreInv, feed # "company_basic", NEW u \in FeedUnits, NEW a \in FeedDays,
           NEW b \in a .. LastFeedDay, NEW x \in InRange(u, a, b)
    PROVE  LET older == {y \in InRange(u, a, b) : Older(y, x)} IN
           /\ Cardinality(older) \in Nat
           /\ Cardinality(older) < IF feed = "top_list" THEN LastFeedDay * LastFeedDay ELSE LastFeedDay
<1> DEFINE older == {y \in InRange(u, a, b) : Older(y, x)}
           cell(y) == <<y.day, y.rank>>
<1>1. \A y \in InRange(u, a, b) : /\ y \in table /\ y.unit = u /\ y.day \in FeedDays
                                  /\ y.rank \in 1 .. LastFeedDay
  BY DEF InRange, StoreInv, StoreTyped, StoredRows
<1>2. IsFiniteSet(FeedDays) /\ Cardinality(FeedDays) = LastFeedDay /\ LastFeedDay \in Nat
  BY FS_Interval, StoreAssumption DEF FeedDays
<1>3. x \notin older /\ \A y \in older : y \in InRange(u, a, b) /\ Older(y, x) /\ y # x
  BY <1>1, StoreAssumption DEF Older, FeedDays
<1>4. CASE feed # "top_list"
  <2>1. "rank" \notin TheFeed.primary
    BY <1>4, FeedFacts DEF StoreInv
  <2>2. \A y, z \in InRange(u, a, b) : y.day = z.day => y = z
    BY <1>1, <2>1 DEF StoreInv, KeysTell, SameKey
  <2> DEFINE dayOf == [y \in older |-> y.day]
             others == FeedDays \ {x.day}
  <2>3. IsFiniteSet(others) /\ Cardinality(others) = LastFeedDay - 1
    BY <1>1, <1>2, FS_RemoveElement
  <2>4. dayOf \in [older -> others]
    BY <1>1, <1>3, <2>2
  <2>5. \A y, z \in older : dayOf[y] = dayOf[z] => y = z
    BY <2>2
  <2> HIDE DEF dayOf, older, others
  <2>6. dayOf \in Injection(older, others)
    BY <2>4, <2>5, Fun_IsInj
  <2>7. IsFiniteSet(older) /\ Cardinality(older) <= LastFeedDay - 1
    BY <2>3, <2>6, FS_Injection
  <2>8. Cardinality(older) \in Nat
    BY <2>7, FS_CardinalityType
  <2> QED
    BY <1>2, <1>4, <2>7, <2>8 DEF older
<1>5. CASE feed = "top_list"
  <2>1. \A y, z \in InRange(u, a, b) : cell(y) = cell(z) => y = z
    BY <1>1, AlikeSameKey DEF StoreInv, KeysTell
  <2> DEFINE cells == FeedDays \X (1 .. LastFeedDay)
             others == cells \ {cell(x)}
             cellOf == [y \in older |-> cell(y)]
  <2>2. \A y \in InRange(u, a, b) : cell(y) \in cells
    BY <1>1
  <2>3. IsFiniteSet(cells) /\ Cardinality(cells) = LastFeedDay * LastFeedDay
    BY <1>2, FS_Product DEF FeedDays
  <2> HIDE DEF cells, cell
  <2>4. IsFiniteSet(others) /\ Cardinality(others) = LastFeedDay * LastFeedDay - 1
    BY <2>2, <2>3, FS_RemoveElement
  <2>5. cellOf \in [older -> others]
    BY <1>3, <2>1, <2>2
  <2>6. \A y, z \in older : cellOf[y] = cellOf[z] => y = z
    BY <2>1
  <2> HIDE DEF cellOf, older, others
  <2>7. cellOf \in Injection(older, others)
    BY <2>5, <2>6, Fun_IsInj
  <2>8. IsFiniteSet(older) /\ Cardinality(older) <= LastFeedDay * LastFeedDay - 1
    BY <2>4, <2>7, FS_Injection
  <2>9. Cardinality(older) \in Nat /\ LastFeedDay * LastFeedDay \in Nat
    BY <1>2, <2>8, FS_CardinalityType
  <2> QED
    BY <1>5, <2>8, <2>9 DEF older
<1> QED
  BY <1>4, <1>5

\* Type correctness of what the syncs store.
THEOREM StoreTypeCorrect == StoreSpec => []StoreTypeOK
<1>1. StoreInv => StoreTypeOK
  BY DEF StoreInv, StoreTyped
<1> QED
  BY <1>1, StoreAlways, PTL

\* Whatever calls failed, came late or were repeated before, a row a later sync could still
\* bring is stored as the vendor has it; and the agents are given it in whatever range they
\* ask for, where LocalLimit (120 rows in the code) is as long as what a range can hold.
THEOREM StoreAlwaysCatchesUp ==
    ASSUME LastFeedDay <= LocalLimit,
           "top_list" \in Feeds => LastFeedDay * LastFeedDay <= LocalLimit
    PROVE  StoreSpec => []StoreCatchesUp
<1>1. ASSUME StoreInv PROVE StoreCatchesUp
  <2>1. "unmatched" \notin refused /\ DueIsStored /\ feed \in Feeds
    BY <1>1 DEF StoreInv, StoreTyped, StoreTypeOK
  <2>2. ASSUME NEW u \in FeedUnits, NEW a \in FeedDays, NEW b \in a .. LastFeedDay,
               LocalAnswer(u, a, b) # {}, NEW d \in a .. b, Due(u, d)
        PROVE  \E x \in LocalAnswer(u, a, b) : x.day = d /\ x.ver = vendor[u][d]
    <3>1. d \in FeedDays
      BY StoreAssumption DEF FeedDays
    <3>2. PICK x \in table : x.unit = u /\ x.day = d /\ x.ver = vendor[u][d]
      BY <2>1, <2>2, <3>1 DEF DueIsStored
    <3>3. x \in InRange(u, a, b)
      BY <3>2 DEF InRange
    <3>4. feed \in LocalTables
      BY <2>2 DEF LocalAnswer, LocalTables
    <3>5. CASE feed = "daily_bar"
      <4>1. LocalAnswer(u, a, b) = InRange(u, a, b)
        BY <2>2, <3>4, <3>5 DEF LocalAnswer, LocalBars
      <4> QED
        BY <3>2, <3>3, <4>1
    <3>6. CASE feed # "daily_bar"
      <4>1. feed # "company_basic"
        BY <3>4 DEF LocalTables
      <4> DEFINE older == {y \in InRange(u, a, b) : Older(y, x)}
      <4>2. /\ Cardinality(older) \in Nat
            /\ Cardinality(older) < IF feed = "top_list" THEN LastFeedDay * LastFeedDay ELSE LastFeedDay
        BY <1>1, <3>3, <4>1, FewOlder
      <4>3. LastFeedDay * LastFeedDay \in Nat
        BY StoreAssumption
      <4> HIDE DEF older
      <4>4. Cardinality(older) < LocalLimit
        BY <2>1, <4>2, <4>3, StoreAssumption
      <4>5. x \in LocalRows(u, a, b)
        BY <3>3, <4>4 DEF LocalRows, older
      <4>6. LocalAnswer(u, a, b) = LocalRows(u, a, b)
        BY <3>4, <3>6 DEF LocalAnswer
      <4> QED
        BY <3>2, <4>5, <4>6
    <3> QED
      BY <3>5, <3>6
  <2> QED
    BY <2>1, <2>2 DEF StoreCatchesUp, DueIsStored
<1> QED
  BY <1>1, StoreAlways, PTL

-----------------------------------------------------------------------------
(* The caches of quotes and charts.                                        *)

Values == [age : Nat,
           kind : {"none", "good", "second", "blank", "empty", "failed", "raised"}]

\* Every variable has its type, the values included.
CachesTyped ==
    /\ top \in CachesFollowed
    /\ shelf \in [Shelves -> [left : Nat, value : Values]]
    /\ flight \in [Shelves -> Callers \union {NoCaller}]
    /\ step \in [Callers -> {"idle", "look", "redis", "wait", "asking", "second", "store", "resolve"}]
    /\ hand \in [Callers -> Values] /\ said \in [Callers -> Values]
    /\ calling \in [Callers -> 0 .. CallTime] /\ asked \in [Callers -> Nat]
    /\ owner \in [Callers -> Callers \union {NoCaller}]
    /\ requests \in 0 .. MaxAsked

\* The cache below is one of the process.
Lies == Below(top) \in {"rt", "kline"}

\* A caller works on the cache followed or on the one below it.
Placed ==
    /\ at \in [Callers -> Shelves]
    /\ \A p \in Callers :
          /\ at[p] # top => Lies /\ at[p] = Below(top)
          /\ step[p] = "second" => at[p] = "rt"
          /\ step[p] = "redis" => at[p] = top /\ Below(top) = "redis"

\* An entry does not outlive its age: that of a cache which asks a vendor itself, or of
\* Redis, lives as long as its kind; over another cache, as long as that allows.
EntriesAge ==
    \A c \in Shelves : Fresh(c) =>
       /\ shelf[c].value.kind \notin {"none", "raised"}
       /\ c = "redis" => shelf[c].value.age + shelf[c].left <= CacheTable[top].ttl
       /\ c = top /\ Below(top) # "none" =>
             shelf[c].value.age + shelf[c].left < MaxAge(top, shelf[c].value.kind)
       /\ c # "redis" /\ (c # top \/ Below(top) = "none") =>
             shelf[c].value.age + shelf[c].left <= Ttl(c, shelf[c].value)

\* What a caller carries: just answered by the vendor, or from the cache below and older
\* by no more than the call it makes since.
HandsAge ==
    \A p \in Callers :
       /\ step[p] \in {"store", "resolve"} =>
             /\ hand[p].kind # "none"
             /\ at[p] = top /\ Lies =>
                   hand[p].age + CacheTable[top].ttl < MaxAge(top, hand[p].kind)
             /\ ~(at[p] = top /\ Lies) => hand[p].age = 0
       /\ step[p] = "asking" /\ at[p] = top /\ Lies =>
             /\ hand[p].kind \in {"good", "second"} =>
                   hand[p].age < Ttl(Below(top), hand[p]) + calling[p]
             /\ top = "insight" => hand[p].kind = "good"

\* The load entered for a cache is under way, and the one under way is entered.
LoadsEntered ==
    /\ \A c \in InProcess : CacheTable[c].shares /\ flight[c] # NoCaller =>
          at[flight[c]] = c /\ step[flight[c]] \in {"asking", "second", "store"}
    /\ \A p \in Callers :
          CacheTable[at[p]].shares /\ step[p] \in {"asking", "second", "store"} => flight[at[p]] = p

\* Whoever waits waits for a caller who is at it.
WaitsForLoad ==
    \A p \in Callers : step[p] = "wait" =>
       /\ owner[p] \in Callers /\ at[owner[p]] = at[p]
       /\ step[owner[p]] \in {"asking", "second", "store", "resolve"}

CachesInv ==
    CachesTyped /\ Placed /\ EntriesAge /\ HandsAge /\ LoadsEntered /\ WaitsForLoad /\ AnswersFresh

\* What the table says of every cache.
LEMMA TableFacts ==
    ASSUME NEW c \in {"kline", "kline_past", "rt", "quotes", "auction", "cyq", "moneyflow",
                      "factor_pro", "daily_basic", "hsgt", "events", "corp", "intraday",
                      "orderbook", "profile", "insight"}
    PROVE  /\ CacheTable[c].ttl \in Nat \ {0} /\ CacheTable[c].empty \in {0, CacheTable[c].ttl}
           /\ Below(c) \in {"none", "redis", "rt", "kline"}
           /\ Below(c) = "rt" <=> c = "quotes"
           /\ Below(c) = "kline" <=> c = "insight"
           /\ CacheTable[c].shares => Below(c) = "none"
           /\ CacheTable[c].failure \in {"empty", "failed", "raised"}
           /\ Below(c) = "redis" => CacheTable[c].failure = "raised" /\ CacheTable[c].empty = CacheTable[c].ttl
           /\ Below(c) = "none" /\ c # "rt" => CacheTable[c].failure \in {"empty", "raised"}
           /\ CacheTable["quotes"].ttl = 10 /\ CacheTable["quotes"].failure = "empty"
           /\ CacheTable["insight"].ttl = 600 /\ CacheTable["insight"].failure = "failed"
           /\ CacheTable["rt"].ttl = 8 /\ CacheTable["kline"].ttl = 45
           /\ Below("rt") = "none" /\ Below("kline") = "none"
           /\ CacheTable["kline"].empty = 0 /\ CacheTable["rt"].empty = 8
<1>1. /\ CacheTable["kline"] = Kline
      /\ CacheTable["kline_past"] = KlinePast
      /\ CacheTable["rt"] = RtQuotes
      /\ CacheTable["quotes"] = LiveQuotes
      /\ CacheTable["auction"] = Auction
      /\ CacheTable["cyq"] = CyqChart
      /\ CacheTable["moneyflow"] = MoneyflowSeries
      /\ CacheTable["factor_pro"] = FactorPro
      /\ CacheTable["daily_basic"] = BasicSnapshot
      /\ CacheTable["hsgt"] = HsgtSeries
      /\ CacheTable["events"] = EventMarkers
      /\ CacheTable["corp"] = CorpEvents
      /\ CacheTable["intraday"] = Intraday
      /\ CacheTable["orderbook"] = Orderbook
      /\ CacheTable["profile"] = Profile
      /\ CacheTable["insight"] = ChartInsight
  BY DEF CacheTable
<1>2. /\ CacheTable[c].ttl \in Nat \ {0} /\ CacheTable[c].empty \in {0, CacheTable[c].ttl}
  BY <1>1 DEF Cache, Kline, KlinePast, RtQuotes, LiveQuotes, Auction, CyqChart,
         MoneyflowSeries, FactorPro, BasicSnapshot, HsgtSeries, EventMarkers, CorpEvents,
         Intraday, Orderbook, Profile, ChartInsight
<1>3. /\ CacheTable[c].below \in {"none", "redis", "rt", "kline"}
      /\ CacheTable[c].below = "rt" <=> c = "quotes"
      /\ CacheTable[c].below = "kline" <=> c = "insight"
      /\ CacheTable[c].shares => CacheTable[c].below = "none"
  BY <1>1 DEF Cache, Kline, KlinePast, RtQuotes, LiveQuotes, Auction, CyqChart,
         MoneyflowSeries, FactorPro, BasicSnapshot, HsgtSeries, EventMarkers, CorpEvents,
         Intraday, Orderbook, Profile, ChartInsight
<1>4. /\ CacheTable[c].failure \in {"empty", "failed", "raised"}
      /\ CacheTable[c].below = "redis" => CacheTable[c].failure = "raised" /\ CacheTable[c].empty = CacheTable[c].ttl
      /\ CacheTable[c].below = "none" /\ c # "rt" => CacheTable[c].failure \in {"empty", "raised"}
  BY <1>1 DEF Cache, Kline, KlinePast, RtQuotes, LiveQuotes, Auction, CyqChart,
         MoneyflowSeries, FactorPro, BasicSnapshot, HsgtSeries, EventMarkers, CorpEvents,
         Intraday, Orderbook, Profile, ChartInsight
<1>5. /\ CacheTable["quotes"].ttl = 10 /\ CacheTable["quotes"].failure = "empty"
      /\ CacheTable["insight"].ttl = 600 /\ CacheTable["insight"].failure = "failed"
      /\ CacheTable["rt"].ttl = 8 /\ CacheTable["kline"].ttl = 45
      /\ CacheTable["rt"].below = "none" /\ CacheTable["kline"].below = "none"
      /\ CacheTable["kline"].empty = 0 /\ CacheTable["rt"].empty = 8
  BY <1>1 DEF Cache, LiveQuotes, ChartInsight, RtQuotes, Kline
<1> QED
  BY <1>2, <1>3, <1>4, <1>5 DEF Below

\* Where a caller can be, and what the caches there are.
LEMMA PlaceFacts ==
    ASSUME CachesTyped
    PROVE  /\ InProcess \subseteq Shelves /\ top \in InProcess /\ "redis" \notin InProcess
           /\ Shelves \ InProcess \subseteq {"redis"}
           /\ \A c \in Shelves : c \in InProcess \/ (c = "redis" /\ Below(top) = "redis")
           /\ InProcess = IF Lies THEN {top, Below(top)} ELSE {top}
           /\ Below(top) = "redis" => "redis" \in Shelves
           /\ Below(top) \in {"none", "redis", "rt", "kline"}
           /\ \A c \in InProcess :
                 /\ CacheTable[c].ttl \in Nat \ {0} /\ CacheTable[c].empty \in {0, CacheTable[c].ttl}
                 /\ CacheTable[c].shares => Below(c) = "none" /\ ~(c = top /\ Lies)
                 /\ c # top => Below(c) = "none"
                 /\ Below(c) = "rt" <=> c = "quotes"
                 /\ Below(c) = "kline" <=> c = "insight"
                 /\ Below(c) = "redis" => c = top
<1>1. top \in {"kline", "kline_past", "rt", "quotes", "auction", "cyq", "moneyflow",
               "factor_pro", "daily_basic", "hsgt", "events", "corp", "intraday",
               "orderbook", "profile", "insight"}
  BY CachesAssumption DEF CachesTyped
<1>2. Below(top) \in {"none", "redis", "rt", "kline"}
  BY <1>1, TableFacts
<1>3. InProcess = IF Lies THEN {top, Below(top)} ELSE {top}
  BY <1>1, <1>2 DEF InProcess, Shelves, Lies
<1>4. \A c \in InProcess :
         c \in {"kline", "kline_past", "rt", "quotes", "auction", "cyq", "moneyflow",
                "factor_pro", "daily_basic", "hsgt", "events", "corp", "intraday",
                "orderbook", "profile", "insight"}
  BY <1>1, <1>3 DEF Lies
<1>5. Below("rt") = "none" /\ Below("kline") = "none"
  BY <1>1, TableFacts
<1>6. \A c \in InProcess :
         /\ CacheTable[c].ttl \in Nat \ {0} /\ CacheTable[c].empty \in {0, CacheTable[c].ttl}
         /\ CacheTable[c].shares => Below(c) = "none"
         /\ Below(c) = "rt" <=> c = "quotes"
         /\ Below(c) = "kline" <=> c = "insight"
  BY <1>4, TableFacts
<1>7. \A c \in InProcess : c # top => Below(c) = "none"
  BY <1>3, <1>5 DEF Lies
<1>8. \A c \in InProcess : (CacheTable[c].shares => ~(c = top /\ Lies)) /\ (Below(c) = "redis" => c = top)
  BY <1>6, <1>7 DEF Lies
<1> QED
  BY <1>1, <1>2, <1>3, <1>6, <1>7, <1>8 DEF InProcess, Shelves

\* How old an answer may be is at least a second, whatever its kind.
LEMMA MaxAgePositive ==
    ASSUME CachesTyped, NEW k
    PROVE  /\ MaxAge(top, k) \in Nat \ {0}
           /\ \A c \in InProcess, v \in Values : Ttl(c, v) \in Nat /\ Ttl(c, v) <= CacheTable[c].ttl
           /\ \A v \in Values : Below(top) = "none" /\ v.kind # "raised" => Ttl(top, v) <= MaxAge(top, v.kind)
<1>1. \A c \in InProcess : CacheTable[c].ttl \in Nat \ {0} /\ CacheTable[c].empty \in {0, CacheTable[c].ttl}
  BY PlaceFacts
<1>2. top \in InProcess /\ InProcess = (IF Lies THEN {top, Below(top)} ELSE {top})
  BY PlaceFacts
<1>3. CacheTable["rt"].ttl = 8
  BY TableFacts
<1>4. MaxAge(top, k) \in Nat \ {0}
  BY <1>1, <1>2, CachesAssumption DEF MaxAge, Lies
<1>5. ASSUME NEW c \in InProcess, NEW v \in Values
      PROVE  Ttl(c, v) \in Nat /\ Ttl(c, v) <= CacheTable[c].ttl
  BY <1>1, <1>3 DEF Ttl, Values
<1>6. ASSUME NEW v \in Values, Below(top) = "none", v.kind # "raised"
      PROVE  Ttl(top, v) <= MaxAge(top, v.kind)
  BY <1>1, <1>2, <1>3, <1>6 DEF Ttl, MaxAge, Values
<1> QED
  BY <1>4, <1>5, <1>6

\* Loads that are shared are one at a time, and whoever waits has one to wait for.
LEMMA InvShares == CachesInv => LoadsShared
<1> SUFFICES ASSUME CachesInv PROVE LoadsShared
  OBVIOUS
<1> USE DEF CachesInv
<1>1. ASSUME NEW c \in InProcess, CacheTable[c].shares
      PROVE  Cardinality({p \in Callers : at[p] = c /\ step[p] \in {"asking", "second", "store"}}) <= 1
  <2> DEFINE busy == {p \in Callers : at[p] = c /\ step[p] \in {"asking", "second", "store"}}
  <2>1. busy \subseteq {flight[c]}
    BY <1>1 DEF LoadsEntered
  <2>2. IsFiniteSet({flight[c]}) /\ Cardinality({flight[c]}) = 1
    BY FS_Singleton
  <2>3. Cardinality(busy) <= 1
    <3> HIDE DEF busy
    <3> QED
      BY <2>1, <2>2, FS_Subset
  <2> QED
    BY <2>3
<1> QED
  BY <1>1 DEF LoadsShared, WaitsForLoad

\* Cache c answers the callers P: what they carry or are told is young enough.
LEMMA HandKeeps ==
    ASSUME CachesInv, NEW P, P \subseteq Callers, NEW c \in InProcess, NEW value \in Values,
           Hand(P, c, value), UNCHANGED top,
           c = top => value.age < MaxAge(top, value.kind),
           c # top /\ value.kind \in {"good", "second"} => value.age < Ttl(c, value)
    PROVE  /\ step' \in [Callers -> {"idle", "look", "redis", "wait", "asking", "second", "store", "resolve"}]
           /\ hand' \in [Callers -> Values] /\ said' \in [Callers -> Values]
           /\ calling' \in [Callers -> 0 .. CallTime] /\ asked' \in [Callers -> Nat]
           /\ Placed' /\ HandsAge' /\ AnswersFresh'
           /\ \A q \in Callers \ P : at'[q] = at[q] /\ step'[q] = step[q]
           /\ \A q \in P : at'[q] = top /\ step'[q] \in {"idle", "asking"}
                           /\ (step'[q] = "asking" => Lies)
<1> USE DEF CachesInv
<1> DEFINE ends == c = top \/ (top = "insight" /\ value.kind # "good")
<1>0. /\ InProcess \subseteq Shelves /\ top \in InProcess
      /\ (c # top => Lies /\ c = Below(top))
      /\ Below(top) = "redis" => ~Lies
  BY PlaceFacts DEF Lies
<1>1. /\ \A q \in Callers \ P : /\ at'[q] = at[q] /\ step'[q] = step[q] /\ hand'[q] = hand[q]
                                /\ calling'[q] = calling[q] /\ said'[q] = said[q]
      /\ \A q \in P : /\ at'[q] = top /\ step'[q] = (IF ends THEN "idle" ELSE "asking")
                      /\ hand'[q] = (IF ends THEN NoValue ELSE value) /\ calling'[q] = 0
                      /\ said'[q] = (IF ~ends THEN said[q]
                                     ELSE IF c = top THEN Then(q, value) ELSE New("raised"))
  BY DEF Hand, CachesTyped, Placed
<1>2. NoValue \in Values /\ New("raised") \in Values
  BY DEF NoValue, New, Values
<1>3. ASSUME NEW q \in Callers
      PROVE  /\ Then(q, value) \in Values /\ Then(q, value).kind = value.kind
             /\ Then(q, value).age <= value.age
  BY DEF Then, Values, CachesTyped
<1>4. step' \in [Callers -> {"idle", "look", "redis", "wait", "asking", "second", "store", "resolve"}]
  BY DEF Hand, CachesTyped
<1>5. hand' \in [Callers -> Values]
  BY <1>2 DEF Hand, CachesTyped
<1>6. said' \in [Callers -> Values]
  BY <1>2, <1>3 DEF Hand, CachesTyped
<1>7. calling' \in [Callers -> 0 .. CallTime] /\ asked' \in [Callers -> Nat]
  BY CachesAssumption DEF Hand, CachesTyped
<1>8. Placed'
  <2>1. at' \in [Callers -> Shelves]
    BY <1>0 DEF Hand, Placed
  <2>2. Shelves' = Shelves /\ (Lies' <=> Lies)
    BY DEF Shelves, Lies
  <2>3. ASSUME NEW q \in Callers
        PROVE  /\ at'[q] # top => Lies /\ at'[q] = Below(top)
               /\ step'[q] = "second" => at'[q] = "rt"
               /\ step'[q] = "redis" => at'[q] = top /\ Below(top) = "redis"
    <3>1. CASE q \in P
      BY <1>1, <3>1
    <3>2. CASE q \notin P
      BY <1>1, <3>2 DEF Placed
    <3> QED
      BY <3>1, <3>2
  <2> QED
    BY <2>1, <2>2, <2>3 DEF Placed
<1>9. HandsAge'
  <2>1. ASSUME NEW q \in Callers \ P
        PROVE  /\ at'[q] = at[q] /\ step'[q] = step[q] /\ hand'[q] = hand[q] /\ calling'[q] = calling[q]
    BY <1>1
  <2>2. ASSUME NEW q \in P
        PROVE  /\ step'[q] \notin {"store", "resolve"}
               /\ step'[q] = "asking" =>
                     /\ hand'[q].kind \in {"good", "second"} =>
                           hand'[q].age < Ttl(Below(top), hand'[q]) + calling'[q]
                     /\ top = "insight" => hand'[q].kind = "good"
    <3>1. CASE ends
      BY <1>1, <3>1
    <3>2. CASE ~ends
      <4>1. hand'[q] = value /\ calling'[q] = 0 /\ c # top /\ c = Below(top)
        BY <1>0, <1>1, <3>2
      <4>2. Ttl(c, value) \in Nat /\ value.age \in Nat
        BY MaxAgePositive DEF Values
      <4> QED
        BY <1>1, <3>2, <4>1, <4>2
    <3> QED
      BY <3>1, <3>2
  <2>3. Lies' <=> Lies
    BY DEF Lies
  <2> SUFFICES ASSUME NEW q \in Callers
               PROVE  /\ step'[q] \in {"store", "resolve"} =>
                             /\ hand'[q].kind # "none"
                             /\ at'[q] = top /\ Lies =>
                                   hand'[q].age + CacheTable[top].ttl < MaxAge(top, hand'[q].kind)
                             /\ ~(at'[q] = top /\ Lies) => hand'[q].age = 0
                      /\ step'[q] = "asking" /\ at'[q] = top /\ Lies =>
                             /\ hand'[q].kind \in {"good", "second"} =>
                                   hand'[q].age < Ttl(Below(top), hand'[q]) + calling'[q]
                             /\ top = "insight" => hand'[q].kind = "good"
    BY <2>3 DEF HandsAge
  <2>4. CASE q \in P
    BY <2>2, <2>4
  <2>5. CASE q \notin P
    BY <2>1, <2>5 DEF HandsAge
  <2> QED
    BY <2>4, <2>5
<1>10. AnswersFresh'
  <2> SUFFICES ASSUME NEW q \in Callers, said'[q].kind # "none"
               PROVE  said'[q].age < MaxAge(top, said'[q].kind)
    BY DEF AnswersFresh
  <2>1. CASE q \notin P \/ ~ends
    <3>1. said'[q] = said[q]
      BY <1>1, <2>1
    <3> QED
      BY <3>1 DEF AnswersFresh
  <2>2. CASE q \in P /\ ends /\ c = top
    <3>1. said'[q] = Then(q, value)
      BY <1>1, <2>2
    <3>2. MaxAge(top, value.kind) \in Nat /\ value.age \in Nat /\ Then(q, value).age \in Nat
      BY <1>3, MaxAgePositive DEF Values
    <3> QED
      BY <1>3, <2>2, <3>1, <3>2
  <2>3. CASE q \in P /\ ends /\ c # top
    <3>1. said'[q].age = 0 /\ said'[q].kind = "raised"
      BY <1>1, <2>3 DEF New
    <3> QED
      BY <3>1, MaxAgePositive
  <2> QED
    BY <2>1, <2>2, <2>3
<1>11. \A q \in P : at'[q] = top /\ step'[q] \in {"idle", "asking"} /\ (step'[q] = "asking" => Lies)
  BY <1>0, <1>1
<1> HIDE DEF ends
<1> QED
  BY <1>1, <1>4, <1>5, <1>6, <1>7, <1>8, <1>9, <1>10, <1>11

\* Callers who neither load nor are waited for turn to something else than a load that is
\* shared: the loads stay as they are.
LEMMA LoadsStay ==
    ASSUME CachesInv, NEW P, P \subseteq Callers, UNCHANGED <<top, flight>>,
           at' \in [Callers -> Shelves], \A q \in Callers : at'[q] \in InProcess,
           \A q \in Callers \ P : at'[q] = at[q] /\ step'[q] = step[q] /\ owner'[q] = owner[q],
           \A q \in P : /\ step[q] \in {"idle", "look", "redis", "wait", "resolve"}
                        /\ step'[q] \in {"idle", "look", "redis", "wait", "asking"}
                        /\ step'[q] = "asking" => ~CacheTable[at'[q]].shares
                        /\ step'[q] = "wait" =>
                              /\ owner'[q] \in Callers \ P /\ at[owner'[q]] = at'[q]
                              /\ step[owner'[q]] \in {"asking", "second", "store", "resolve"},
           \A q \in Callers \ P : step[q] = "wait" => owner[q] \notin P
    PROVE  LoadsEntered' /\ WaitsForLoad'
<1> USE DEF CachesInv
<1>1. InProcess' = InProcess
  BY DEF InProcess, Shelves
<1>2. \A c \in InProcess : c \in Shelves /\ flight[c] \in Callers \union {NoCaller}
  BY PlaceFacts DEF CachesTyped
<1>3. ASSUME NEW c \in InProcess, CacheTable[c].shares, flight[c] # NoCaller
      PROVE  at'[flight[c]] = c /\ step'[flight[c]] \in {"asking", "second", "store"}
  <2>1. at[flight[c]] = c /\ step[flight[c]] \in {"asking", "second", "store"} /\ flight[c] \in Callers
    BY <1>2, <1>3 DEF LoadsEntered
  <2>2. flight[c] \notin P
    BY <2>1
  <2> QED
    BY <2>1, <2>2
<1>4. ASSUME NEW q \in Callers, CacheTable[at'[q]].shares, step'[q] \in {"asking", "second", "store"}
      PROVE  flight[at'[q]] = q
  <2>1. q \notin P
    BY <1>4
  <2> QED
    BY <1>4, <2>1 DEF LoadsEntered
<1>5. LoadsEntered'
  BY <1>1, <1>3, <1>4 DEF LoadsEntered
<1>6. ASSUME NEW q \in Callers, step'[q] = "wait"
      PROVE  /\ owner'[q] \in Callers /\ at'[owner'[q]] = at'[q]
             /\ step'[owner'[q]] \in {"asking", "second", "store", "resolve"}
  <2>1. CASE q \in P
    BY <1>6, <2>1
  <2>2. CASE q \notin P
    <3>1. owner'[q] \in Callers \ P
      BY <1>6, <2>2 DEF WaitsForLoad
    <3> QED
      BY <1>6, <2>2, <3>1 DEF WaitsForLoad
  <2> QED
    BY <2>1, <2>2
<1> QED
  BY <1>5, <1>6 DEF WaitsForLoad

\* A caller works on a cache of the process.
LEMMA AtFacts ==
    ASSUME CachesTyped, Placed, NEW p \in Callers
    PROVE  at[p] \in InProcess /\ at[p] \in Shelves /\ at[p] # "redis"
  BY PlaceFacts DEF Placed

\* A fresh entry is young enough for whoever finds it.
LEMMA HitKeeps ==
    ASSUME CachesInv, NEW p \in Callers, Hit(p)
    PROVE  CachesInv'
<1> USE DEF CachesInv
<1> DEFINE c == at[p]
           value == shelf[c].value
<1>1. /\ c \in InProcess /\ c \in Shelves /\ c # "redis" /\ step[p] = "look"
      /\ Hand({p}, c, value) /\ UNCHANGED <<top, shelf, flight, owner, requests>>
      /\ Fresh(c) /\ value \in Values /\ shelf[c].left \in Nat /\ shelf[c].left # 0
      /\ value.age \in Nat
  BY AtFacts DEF Hit, CachesTyped, Fresh, Values
<1>2. c = top => value.age < MaxAge(top, value.kind)
  <2> SUFFICES ASSUME c = top PROVE value.age < MaxAge(top, value.kind)
    OBVIOUS
  <2>1. MaxAge(top, value.kind) \in Nat
    BY MaxAgePositive
  <2>2. CASE Below(top) # "none"
    BY <1>1, <2>1, <2>2 DEF EntriesAge
  <2>3. CASE Below(top) = "none"
    <3>1. value.age + shelf[c].left <= Ttl(top, value) /\ value.kind # "raised"
      BY <1>1, <2>3 DEF EntriesAge
    <3>2. Ttl(top, value) \in Nat /\ Ttl(top, value) <= MaxAge(top, value.kind)
      BY <1>1, <2>3, <3>1, MaxAgePositive
    <3> QED
      BY <1>1, <2>1, <3>1, <3>2
  <2> QED
    BY <2>2, <2>3
<1>3. c # top => value.age < Ttl(c, value)
  <2>1. Ttl(c, value) \in Nat
    BY <1>1, MaxAgePositive
  <2> QED
    BY <1>1, <2>1 DEF EntriesAge
<1> HIDE DEF c, value
<1>4. {p} \subseteq Callers
  OBVIOUS
<1>5. /\ step' \in [Callers -> {"idle", "look", "redis", "wait", "asking", "second", "store", "resolve"}]
      /\ hand' \in [Callers -> Values] /\ said' \in [Callers -> Values]
      /\ calling' \in [Callers -> 0 .. CallTime] /\ asked' \in [Callers -> Nat]
      /\ Placed' /\ HandsAge' /\ AnswersFresh'
      /\ \A q \in Callers \ {p} : at'[q] = at[q] /\ step'[q] = step[q]
      /\ \A q \in {p} : at'[q] = top /\ step'[q] \in {"idle", "asking"} /\ (step'[q] = "asking" => Lies)
  BY <1>1, <1>2, <1>3, <1>4, HandKeeps
<1>6. CachesTyped'
  BY <1>1, <1>5 DEF CachesTyped, Shelves
<1>7. EntriesAge'
  BY <1>1 DEF EntriesAge, Fresh, Shelves
<1>8. LoadsEntered' /\ WaitsForLoad'
  <2>1. \A q \in Callers : at'[q] \in InProcess
    BY <1>5, AtFacts, PlaceFacts
  <2>2. at' \in [Callers -> Shelves]
    BY <1>1, <1>5 DEF Placed, Shelves
  <2>3. \A q \in {p} : step'[q] = "asking" => ~CacheTable[at'[q]].shares
    BY <1>5, PlaceFacts
  <2>4. \A q \in Callers \ {p} : step[q] = "wait" => owner[q] \notin {p}
    BY <1>1 DEF WaitsForLoad
  <2> QED
    BY <1>1, <1>4, <1>5, <2>1, <2>2, <2>3, <2>4, LoadsStay
<1> QED
  BY <1>5, <1>6, <1>7, <1>8

\* What Redis still holds is no older, in its ten seconds more, than it may be.
LEMMA RedisKeeps ==
    ASSUME CachesInv, NEW p \in Callers, LookInRedis(p)
    PROVE  CachesInv'
<1> USE DEF CachesInv
<1>1. /\ step[p] = "redis" /\ at[p] = top /\ Below(top) = "redis" /\ ~Lies
      /\ "redis" \in Shelves /\ top \in Shelves /\ top \in InProcess /\ top # "redis"
      /\ UNCHANGED <<top, flight, owner, requests>> /\ ~CacheTable[top].shares
      /\ CacheTable[top].ttl \in Nat \ {0} /\ Shelves' = Shelves /\ InProcess' = InProcess
  BY PlaceFacts DEF LookInRedis, Placed, Lies, Shelves, InProcess
<1>2. {p} \subseteq Callers
  OBVIOUS
<1>3. ASSUME Fresh("redis") PROVE CachesInv'
  <2> DEFINE value == shelf["redis"].value
  <2>1. /\ shelf' = [shelf EXCEPT ![top] = [left |-> 10, value |-> value]] /\ Hand({p}, top, value)
        /\ value \in Values /\ value.age \in Nat /\ shelf["redis"].left \in Nat \ {0}
        /\ value.kind \notin {"none", "raised"}
        /\ value.age + shelf["redis"].left <= CacheTable[top].ttl
    BY <1>1, <1>3 DEF LookInRedis, CachesTyped, EntriesAge, Fresh, Values
  <2>2. MaxAge(top, value.kind) = CacheTable[top].ttl + 10
    <3>1. top # "rt"
      BY <1>1, TableFacts
    <3> HIDE DEF value
    <3> QED
      BY <1>1, <2>1, <3>1 DEF MaxAge
  <2> HIDE DEF value
  <2>3. value.age < MaxAge(top, value.kind) /\ value.age + 10 < MaxAge(top, value.kind)
    BY <1>1, <2>1, <2>2
  <2>4. /\ step' \in [Callers -> {"idle", "look", "redis", "wait", "asking", "second", "store", "resolve"}]
        /\ hand' \in [Callers -> Values] /\ said' \in [Callers -> Values]
        /\ calling' \in [Callers -> 0 .. CallTime] /\ asked' \in [Callers -> Nat]
        /\ Placed' /\ HandsAge' /\ AnswersFresh'
        /\ \A q \in Callers \ {p} : at'[q] = at[q] /\ step'[q] = step[q]
        /\ \A q \in {p} : at'[q] = top /\ step'[q] \in {"idle", "asking"} /\ (step'[q] = "asking" => Lies)
    BY <1>1, <1>2, <2>1, <2>3, HandKeeps
  <2>5. CachesTyped'
    <3>1. [left |-> 10, value |-> value] \in [left : Nat, value : Values]
      BY <2>1
    <3>2. shelf' \in [Shelves -> [left : Nat, value : Values]]
      BY <1>1, <2>1, <3>1 DEF CachesTyped
    <3> QED
      BY <1>1, <2>4, <3>2 DEF CachesTyped
  <2>6. EntriesAge'
    <3>1. /\ \A c \in Shelves \ {top} : shelf'[c] = shelf[c]
          /\ shelf'[top] = [left |-> 10, value |-> value]
      BY <1>1, <2>1 DEF CachesTyped
    <3>2. \A c \in Shelves : c = top \/ c = "redis"
      BY <1>1, PlaceFacts
    <3> QED
      BY <1>1, <2>1, <2>3, <3>1, <3>2 DEF EntriesAge, Fresh
  <2>7. LoadsEntered' /\ WaitsForLoad'
    <3>1. \A q \in Callers : at'[q] \in InProcess
      BY <1>1, <2>4, AtFacts
    <3>2. at' \in [Callers -> Shelves]
      BY <1>1, <2>4 DEF Placed
    <3>3. \A q \in Callers \ {p} : step[q] = "wait" => owner[q] \notin {p}
      BY <1>1 DEF WaitsForLoad
    <3> QED
      BY <1>1, <1>2, <2>4, <3>1, <3>2, <3>3, LoadsStay
  <2> QED
    BY <2>4, <2>5, <2>6, <2>7
<1>4. ASSUME ~Fresh("redis") PROVE CachesInv'
  <2>1. /\ at' = [at EXCEPT ![p] = top] /\ step' = [step EXCEPT ![p] = "asking"]
        /\ calling' = [calling EXCEPT ![p] = 0] /\ UNCHANGED <<shelf, hand, asked, said>>
    BY <1>4 DEF LookInRedis, Go
  <2>2. /\ \A q \in Callers \ {p} : at'[q] = at[q] /\ step'[q] = step[q] /\ calling'[q] = calling[q]
        /\ at'[p] = top /\ step'[p] = "asking" /\ at' \in [Callers -> Shelves]
    BY <1>1, <2>1 DEF CachesTyped, Placed
  <2>3. CachesTyped'
    BY <1>1, <2>1, CachesAssumption DEF CachesTyped
  <2>4. Placed'
    BY <1>1, <2>2 DEF Placed, Lies
  <2>5. EntriesAge' /\ AnswersFresh'
    BY <1>1, <2>1 DEF EntriesAge, AnswersFresh, Fresh
  <2>6. HandsAge'
    BY <1>1, <2>1, <2>2 DEF HandsAge, Lies
  <2>7. LoadsEntered' /\ WaitsForLoad'
    <3>1. \A q \in Callers : at'[q] \in InProcess
      BY <1>1, <2>2, AtFacts
    <3>3. \A q \in Callers \ {p} : step[q] = "wait" => owner[q] \notin {p}
      BY <1>1 DEF WaitsForLoad
    <3> QED
      <4>1. \A q \in {p} : /\ step[q] = "redis" /\ step'[q] = "asking"
                            /\ ~CacheTable[at'[q]].shares
        BY <1>1, <2>2
      <4> QED
        BY <1>1, <1>2, <2>2, <3>1, <3>3, <4>1, LoadsStay
  <2> QED
    BY <2>3, <2>4, <2>5, <2>6, <2>7
<1> QED
  BY <1>3, <1>4

\* The load is the answer to those who waited for it as well.
LEMMA ResolveKeeps ==
    ASSUME CachesInv, NEW p \in Callers, Resolve(p)
    PROVE  CachesInv'
<1> USE DEF CachesInv
<1> DEFINE P == {p} \union WaitingFor(p)
           c == at[p]
           value == hand[p]
<1>1. /\ c \in InProcess /\ c \in Shelves /\ c # "redis" /\ step[p] = "resolve"
      /\ Hand(P, c, value) /\ UNCHANGED <<top, shelf, flight, requests>>
      /\ value \in Values /\ value.age \in Nat /\ P \subseteq Callers
      /\ owner' = [q \in Callers |-> IF q \in WaitingFor(p) THEN NoCaller ELSE owner[q]]
  BY AtFacts DEF Resolve, CachesTyped, Values, WaitingFor
<1>2. c = top => value.age < MaxAge(top, value.kind)
  <2> SUFFICES ASSUME c = top PROVE value.age < MaxAge(top, value.kind)
    OBVIOUS
  <2>1. MaxAge(top, value.kind) \in Nat \ {0} /\ CacheTable[top].ttl \in Nat
    BY MaxAgePositive, PlaceFacts
  <2> QED
    BY <1>1, <2>1 DEF HandsAge
<1>3. c # top /\ value.kind \in {"good", "second"} => value.age < Ttl(c, value)
  <2> SUFFICES ASSUME c # top, value.kind \in {"good", "second"} PROVE value.age < Ttl(c, value)
    OBVIOUS
  <2>1. value.age = 0
    BY <1>1 DEF HandsAge
  <2>2. CacheTable[c].ttl \in Nat \ {0}
    BY <1>1, PlaceFacts
  <2> QED
    BY <2>1, <2>2 DEF Ttl
<1>4. \A q \in P : step[q] \in {"resolve", "wait"}
  BY <1>1 DEF WaitingFor
<1>5. \A q \in Callers \ P : owner'[q] = owner[q] /\ (step[q] = "wait" => owner[q] \notin P)
  <2>1. \A q \in Callers \ P : owner'[q] = owner[q]
    BY <1>1
  <2>2. ASSUME NEW q \in Callers \ P, step[q] = "wait" PROVE owner[q] \notin P
    <3>1. owner[q] # p
      BY <2>2 DEF WaitingFor
    <3>2. owner[q] \notin WaitingFor(p)
      BY <2>2 DEF WaitingFor, WaitsForLoad
    <3> QED
      BY <3>1, <3>2
  <2> QED
    BY <2>1, <2>2
<1> HIDE DEF c, value, P
<1>6. /\ step' \in [Callers -> {"idle", "look", "redis", "wait", "asking", "second", "store", "resolve"}]
      /\ hand' \in [Callers -> Values] /\ said' \in [Callers -> Values]
      /\ calling' \in [Callers -> 0 .. CallTime] /\ asked' \in [Callers -> Nat]
      /\ Placed' /\ HandsAge' /\ AnswersFresh'
      /\ \A q \in Callers \ P : at'[q] = at[q] /\ step'[q] = step[q]
      /\ \A q \in P : at'[q] = top /\ step'[q] \in {"idle", "asking"} /\ (step'[q] = "asking" => Lies)
  BY <1>1, <1>2, <1>3, HandKeeps
<1>7. CachesTyped'
  <2>1. owner' \in [Callers -> Callers \union {NoCaller}]
    BY <1>1 DEF CachesTyped
  <2> QED
    BY <1>1, <1>6, <2>1 DEF CachesTyped, Shelves
<1>8. EntriesAge'
  BY <1>1 DEF EntriesAge, Fresh, Shelves
<1>9. LoadsEntered' /\ WaitsForLoad'
  <2>1. \A q \in Callers : at'[q] \in InProcess
    BY <1>6, AtFacts, PlaceFacts
  <2>2. at' \in [Callers -> Shelves]
    BY <1>1, <1>6 DEF Placed, Shelves
  <2>3. \A q \in P : step'[q] = "asking" => ~CacheTable[at'[q]].shares
    BY <1>6, PlaceFacts
  <2> QED
    BY <1>1, <1>4, <1>5, <1>6, <2>1, <2>2, <2>3, LoadsStay
<1> QED
  BY <1>6, <1>7, <1>8, <1>9

\* A request comes in, or joins the load under way.
LEMMA JoinKeeps ==
    ASSUME CachesInv, NEW p \in Callers, Request(p) \/ Join(p)
    PROVE  CachesInv'
<1> USE DEF CachesInv
<1>0. /\ top \in InProcess /\ InProcess \subseteq Shelves /\ Shelves' = Shelves
      /\ (Lies' <=> Lies) /\ InProcess' = InProcess /\ UNCHANGED <<top, shelf, flight, hand, asked, calling>>
  BY PlaceFacts DEF Request, Join, Shelves, InProcess, Lies
<1>1. ASSUME Request(p) PROVE CachesInv'
  <2>1. /\ \A q \in Callers \ {p} : at'[q] = at[q] /\ step'[q] = step[q] /\ said'[q] = said[q]
        /\ at'[p] = top /\ step'[p] = "look" /\ said'[p] = NoValue /\ UNCHANGED owner
        /\ step[p] = "idle" /\ at' \in [Callers -> Shelves]
    BY <1>0, <1>1 DEF Request, Go, CachesTyped, Placed
  <2>2. CachesTyped'
    <3>1. NoValue \in Values
      BY DEF NoValue, Values
    <3>2. said' \in [Callers -> Values]
      BY <1>1, <3>1 DEF Request, CachesTyped
    <3>3. /\ step' \in [Callers -> {"idle", "look", "redis", "wait", "asking", "second", "store", "resolve"}]
          /\ requests' \in 0 .. MaxAsked
      BY <1>1, CachesAssumption DEF Request, Go, CachesTyped
    <3> QED
      BY <1>0, <2>1, <3>2, <3>3 DEF CachesTyped
  <2>3. Placed'
    BY <1>0, <2>1 DEF Placed
  <2>4. EntriesAge' /\ HandsAge'
    BY <1>0, <2>1 DEF EntriesAge, HandsAge, Fresh
  <2>5. AnswersFresh'
    BY <1>0, <2>1 DEF AnswersFresh, NoValue
  <2>6. LoadsEntered' /\ WaitsForLoad'
    <3>1. \A q \in Callers : at'[q] \in InProcess
      BY <1>0, <2>1, AtFacts
    <3>2. \A q \in Callers \ {p} : step[q] = "wait" => owner[q] \notin {p}
      BY <2>1 DEF WaitsForLoad
    <3>3. {p} \subseteq Callers /\ \A q \in {p} : step[q] = "idle" /\ step'[q] = "look"
      BY <2>1
    <3> QED
      BY <1>0, <2>1, <3>1, <3>2, <3>3, LoadsStay
  <2> QED
    BY <2>2, <2>3, <2>4, <2>5, <2>6
<1>2. ASSUME Join(p) PROVE CachesInv'
  <2> DEFINE c == at[p]
             o == flight[c]
  <2>1. /\ \A q \in Callers \ {p} : at'[q] = at[q] /\ step'[q] = step[q] /\ owner'[q] = owner[q]
        /\ at'[p] = c /\ step'[p] = "wait" /\ owner'[p] = o /\ UNCHANGED <<said, requests>>
        /\ step[p] = "look" /\ at' \in [Callers -> Shelves]
        /\ c \in InProcess /\ CacheTable[c].shares /\ o # NoCaller /\ o \in Callers
    BY <1>0, <1>2, AtFacts DEF Join, Go, CachesTyped, Placed
  <2>2. at[o] = c /\ step[o] \in {"asking", "second", "store"} /\ o # p
    BY <2>1 DEF LoadsEntered
  <2>3. CachesTyped'
    <3>1. /\ step' \in [Callers -> {"idle", "look", "redis", "wait", "asking", "second", "store", "resolve"}]
          /\ owner' \in [Callers -> Callers \union {NoCaller}]
      BY <1>2, <2>1 DEF Join, Go, CachesTyped
    <3> QED
      BY <1>0, <2>1, <3>1 DEF CachesTyped
  <2> HIDE DEF o
  <2>4. Placed'
    BY <1>0, <2>1 DEF Placed
  <2>5. EntriesAge' /\ HandsAge' /\ AnswersFresh'
    BY <1>0, <2>1 DEF EntriesAge, HandsAge, Fresh, AnswersFresh
  <2>6. LoadsEntered' /\ WaitsForLoad'
    <3>1. \A q \in Callers : at'[q] \in InProcess
      BY <1>0, <2>1, AtFacts
    <3>2. \A q \in Callers \ {p} : step[q] = "wait" => owner[q] \notin {p}
      BY <2>1 DEF WaitsForLoad
    <3>3. /\ {p} \subseteq Callers
          /\ \A q \in {p} : /\ step[q] = "look" /\ step'[q] = "wait"
                            /\ owner'[q] \in Callers \ {p} /\ at[owner'[q]] = at'[q]
                            /\ step[owner'[q]] \in {"asking", "second", "store"}
      BY <2>1, <2>2
    <3> QED
      BY <1>0, <2>1, <3>1, <3>2, <3>3, LoadsStay
  <2> QED
    BY <2>3, <2>4, <2>5, <2>6
<1> QED
  BY <1>1, <1>2

\* What a caller finds missing it loads, and enters where loads are shared.
LEMMA MissKeeps ==
    ASSUME CachesInv, NEW p \in Callers, Miss(p)
    PROVE  CachesInv'
<1> USE DEF CachesInv
<1> DEFINE c == at[p]
<1>0. /\ top \in InProcess /\ InProcess \subseteq Shelves /\ Shelves' = Shelves
      /\ (Lies' <=> Lies) /\ InProcess' = InProcess
      /\ UNCHANGED <<top, shelf, hand, asked, owner, said, requests>>
      /\ c \in InProcess /\ c \in Shelves /\ step[p] = "look"
      /\ Below(c) \in {"none", "redis", "rt", "kline"}
      /\ c # top => Below(c) = "none" /\ Lies /\ c = Below(top)
      /\ CacheTable[c].shares => Below(c) = "none"
  <2>1. c \in InProcess /\ c \in Shelves /\ (c # top => Lies /\ c = Below(top))
    BY AtFacts DEF Placed
  <2> QED
    BY <2>1, PlaceFacts DEF Miss, Shelves, InProcess, Lies
<1>1. /\ Load(p, c)
      /\ CacheTable[c].shares => flight[c] = NoCaller /\ flight' = [flight EXCEPT ![c] = p]
      /\ ~CacheTable[c].shares => UNCHANGED flight
  BY DEF Miss
<1>2. \/ Below(c) = "redis" /\ Go(p, c, "redis") /\ UNCHANGED calling
      \/ Below(c) \in {"rt", "kline"} /\ Go(p, Below(c), "look") /\ UNCHANGED calling
      \/ Below(c) = "none" /\ Go(p, c, "asking") /\ calling' = [calling EXCEPT ![p] = 0]
  BY <1>0, <1>1 DEF Load
<1> HIDE DEF c
<1>3. PICK goesTo \in InProcess, to \in {"redis", "look", "asking"} :
         /\ at' = [at EXCEPT ![p] = goesTo] /\ step' = [step EXCEPT ![p] = to]
         /\ calling' \in [Callers -> 0 .. CallTime] /\ \A q \in Callers \ {p} : calling'[q] = calling[q]
         /\ goesTo # top => Lies /\ goesTo = Below(top)
         /\ to = "redis" => goesTo = top /\ Below(top) = "redis" /\ ~CacheTable[c].shares
         /\ to = "asking" => goesTo = c /\ Below(c) = "none"
         /\ to = "look" => ~CacheTable[c].shares
  <2>1. CASE Below(c) = "redis"
    BY <1>0, <1>2, <2>1 DEF Go, CachesTyped
  <2>2. CASE Below(c) \in {"rt", "kline"}
    <3>1. c = top /\ Lies /\ Below(top) \in InProcess
      BY <1>0, <2>2, PlaceFacts DEF Lies
    <3> QED
      BY <1>0, <1>2, <2>2, <3>1 DEF Go, CachesTyped
  <2>3. CASE Below(c) = "none"
    <3>1. /\ calling' \in [Callers -> 0 .. CallTime]
          /\ \A q \in Callers \ {p} : calling'[q] = calling[q]
      BY <1>2, <2>3, CachesAssumption DEF CachesTyped
    <3> QED
      BY <1>0, <1>2, <2>3, <3>1 DEF Go
  <2> QED
    BY <1>0, <2>1, <2>2, <2>3
<1>4. /\ \A q \in Callers \ {p} : at'[q] = at[q] /\ step'[q] = step[q] /\ calling'[q] = calling[q]
      /\ at'[p] = goesTo /\ step'[p] = to /\ at' \in [Callers -> Shelves]
  BY <1>0, <1>3 DEF CachesTyped, Placed
<1>5. CachesTyped'
  <2>1. /\ step' \in [Callers -> {"idle", "look", "redis", "wait", "asking", "second", "store", "resolve"}]
        /\ flight' \in [Shelves -> Callers \union {NoCaller}]
    BY <1>0, <1>1, <1>3 DEF CachesTyped
  <2> QED
    BY <1>0, <1>3, <2>1 DEF CachesTyped
<1>6. Placed'
  BY <1>0, <1>3, <1>4 DEF Placed
<1>7. EntriesAge' /\ AnswersFresh'
  BY <1>0 DEF EntriesAge, AnswersFresh, Fresh
<1>8. HandsAge'
  <2>1. to = "asking" => ~(goesTo = top /\ Lies)
    BY <1>3 DEF Lies
  <2> QED
    BY <1>0, <1>3, <1>4, <2>1 DEF HandsAge
<1>9. \A q \in Callers : at'[q] \in InProcess
  BY <1>0, <1>3, <1>4, AtFacts
<1>10. \A q \in Callers \ {p} : step[q] = "wait" => owner[q] # p
  BY <1>0 DEF WaitsForLoad
<1>11. CASE ~CacheTable[c].shares
  <2>1. {p} \subseteq Callers /\ \A q \in {p} : /\ step[q] = "look" /\ step'[q] \in {"redis", "look", "asking"}
                                                /\ step'[q] = "asking" => ~CacheTable[at'[q]].shares
    BY <1>0, <1>3, <1>4, <1>11
  <2>2. UNCHANGED <<top, flight>> /\ \A q \in Callers \ {p} : step[q] = "wait" => owner[q] \notin {p}
    BY <1>0, <1>1, <1>10, <1>11
  <2>3. LoadsEntered' /\ WaitsForLoad'
    BY <1>0, <1>4, <1>9, <2>1, <2>2, LoadsStay
  <2> QED
    BY <1>5, <1>6, <1>7, <1>8, <2>3
<1>12. CASE CacheTable[c].shares
  <2>1. /\ to = "asking" /\ goesTo = c /\ flight[c] = NoCaller
        /\ flight'[c] = p /\ \A d \in Shelves \ {c} : flight'[d] = flight[d]
    BY <1>0, <1>1, <1>3, <1>12 DEF CachesTyped
  <2>2. ASSUME NEW d \in InProcess, CacheTable[d].shares, flight'[d] # NoCaller
        PROVE  at'[flight'[d]] = d /\ step'[flight'[d]] \in {"asking", "second", "store"}
    <3>1. CASE d = c
      BY <1>4, <2>1, <3>1
    <3>2. CASE d # c
      <4>1. flight'[d] = flight[d] /\ flight[d] \in Callers
        BY <1>0, <2>1, <2>2, <3>2 DEF CachesTyped
      <4>2. at[flight[d]] = d /\ step[flight[d]] \in {"asking", "second", "store"}
        BY <2>2, <4>1 DEF LoadsEntered
      <4> QED
        BY <1>0, <1>4, <4>1, <4>2
    <3> QED
      BY <3>1, <3>2
  <2>3. ASSUME NEW q \in Callers, CacheTable[at'[q]].shares, step'[q] \in {"asking", "second", "store"}
        PROVE  flight'[at'[q]] = q
    <3>1. CASE q = p
      BY <1>4, <2>1, <3>1
    <3>2. CASE q # p
      <4>1. flight[at[q]] = q /\ at'[q] = at[q] /\ at[q] \in Shelves
        BY <1>4, <2>3, <3>2, AtFacts DEF LoadsEntered
      <4>2. at[q] # c
        BY <2>1, <4>1, CachesAssumption
      <4> QED
        BY <2>1, <4>1, <4>2
    <3> QED
      BY <3>1, <3>2
  <2>4. LoadsEntered'
    BY <1>0, <2>2, <2>3 DEF LoadsEntered
  <2>5. WaitsForLoad'
    <3> SUFFICES ASSUME NEW q \in Callers, step'[q] = "wait"
                 PROVE  /\ owner[q] \in Callers /\ at'[owner[q]] = at'[q]
                        /\ step'[owner[q]] \in {"asking", "second", "store", "resolve"}
      BY <1>0 DEF WaitsForLoad
    <3>1. q # p
      BY <1>4, <2>1
    <3> QED
      BY <1>4, <1>10, <3>1 DEF WaitsForLoad
  <2> QED
    BY <1>5, <1>6, <1>7, <1>8, <2>4, <2>5
<1> QED
  BY <1>11, <1>12

\* A load that goes on stays entered.
LEMMA LoadsGoOn ==
    ASSUME CachesInv, NEW p \in Callers, step[p] \in {"asking", "second"},
           UNCHANGED <<top, flight, owner>>,
           \A q \in Callers : at'[q] = at[q], step'[p] \in {"second", "store"},
           \A q \in Callers \ {p} : step'[q] = step[q]
    PROVE  LoadsEntered' /\ WaitsForLoad'
<1> USE DEF CachesInv
<1>1. InProcess' = InProcess
  BY DEF InProcess, Shelves
<1>2. \A c \in InProcess : flight[c] \in Callers \union {NoCaller}
  BY PlaceFacts DEF CachesTyped
<1>3. LoadsEntered'
  BY <1>1, <1>2 DEF LoadsEntered
<1>4. WaitsForLoad'
  BY DEF WaitsForLoad
<1> QED
  BY <1>3, <1>4

\* What is made of the vendor's answer is as old as what the caller had in hand, or new.
LEMMA OutcomeAge ==
    ASSUME CachesInv, NEW p \in Callers, step[p] = "asking",
           NEW answer \in {"good", "empty", "fails"}, ~(at[p] = "rt" /\ answer = "fails")
    PROVE  LET value == Outcome(p, answer) IN
           /\ value \in Values /\ value.kind # "none"
           /\ at[p] = top /\ Lies => value.age + CacheTable[top].ttl < MaxAge(top, value.kind)
           /\ ~(at[p] = top /\ Lies) => value.age = 0
<1> USE DEF CachesInv
<1> DEFINE value == Outcome(p, answer)
           c == at[p]
           h == hand[p]
<1>1. /\ c \in InProcess /\ (Below(c) = "rt" <=> c = "quotes") /\ (Below(c) = "kline" <=> c = "insight")
      /\ c # top => Below(c) = "none"
      /\ top \in InProcess
  BY AtFacts, PlaceFacts
<1>2. c \in {"kline", "kline_past", "rt", "quotes", "auction", "cyq", "moneyflow", "factor_pro",
             "daily_basic", "hsgt", "events", "corp", "intraday", "orderbook", "profile", "insight"}
  <2>1. c = top \/ c \in {"rt", "kline"}
    BY DEF Placed, Lies
  <2> QED
    BY <2>1, CachesAssumption DEF CachesTyped
<1>3. /\ CacheTable[c].failure \in {"empty", "failed", "raised"}
      /\ CacheTable["quotes"].ttl = 10 /\ CacheTable["quotes"].failure = "empty"
      /\ CacheTable["insight"].ttl = 600
      /\ CacheTable["rt"].ttl = 8 /\ CacheTable["kline"].ttl = 45
  BY <1>2, TableFacts
<1>4. h \in Values /\ h.age \in Nat /\ calling[p] \in 0 .. CallTime
  BY DEF CachesTyped, Values
<1>5. CASE c = "quotes"
  <2>1. c = top /\ Lies /\ Below(top) = "rt"
    BY <1>1, <1>5 DEF Lies
  <2>2. h.kind \in {"good", "second"} => h.age < Ttl("rt", h) + calling[p]
    BY <2>1 DEF HandsAge
  <2>3. CASE h.kind = "good"
    <3>1. value = h
      BY <1>5, <2>3 DEF Outcome
    <3>2. MaxAge(top, "good") = 18 + CallTime
      BY <1>3, <1>5, <2>1, CachesAssumption DEF MaxAge
    <3>3. Ttl("rt", h) = 8
      BY <1>3, <2>3 DEF Ttl
    <3> HIDE DEF value, h, c
    <3>4. h.age < 8 + calling[p] /\ calling[p] <= CallTime
      BY <1>4, <2>2, <2>3, <3>3, CachesAssumption
    <3>5. h.age + 10 < 18 + CallTime
      BY <1>4, <3>4, CachesAssumption
    <3> QED
      BY <1>3, <1>4, <1>5, <2>1, <2>3, <3>1, <3>2, <3>5 DEF value, c
  <2>4. CASE h.kind = "second"
    <3>1. value = [h EXCEPT !.kind = "blank"]
      BY <1>5, <2>4 DEF Outcome
    <3>2. MaxAge(top, "blank") = 13 + CallTime
      BY <1>3, <1>5, <2>1, CachesAssumption DEF MaxAge
    <3>3. Ttl("rt", h) = 3
      BY <2>4 DEF Ttl
    <3>4. value \in Values /\ value.age = h.age /\ value.kind = "blank"
      BY <1>4, <3>1 DEF Values
    <3> HIDE DEF value, h, c
    <3>5. h.age < 3 + calling[p] /\ calling[p] <= CallTime
      BY <1>4, <2>2, <2>4, <3>3, CachesAssumption
    <3>6. h.age + 10 < 13 + CallTime
      BY <1>4, <3>5, CachesAssumption
    <3> QED
      BY <1>3, <1>4, <1>5, <2>1, <3>4, <3>2, <3>6 DEF value, c
  <2>5. CASE h.kind \notin {"good", "second"}
    <3>1. value = New(IF answer = "fails" THEN "empty" ELSE answer)
      BY <1>3, <1>5, <2>5 DEF Outcome
    <3>2. value \in Values /\ value.age = 0 /\ value.kind \in {"good", "empty"}
      BY <3>1 DEF New, Values
    <3> HIDE DEF value, h
    <3>3. MaxAge(top, value.kind) = 18 + CallTime
      BY <1>3, <1>5, <2>1, <3>2, CachesAssumption DEF MaxAge
    <3> QED
      BY <1>3, <1>5, <2>1, <3>2, <3>3, CachesAssumption DEF value
  <2> QED
    BY <2>3, <2>4, <2>5
<1>6. CASE c = "insight"
  <2>1. c = top /\ Lies /\ Below(top) = "kline"
    BY <1>1, <1>6 DEF Lies
  <2>2. h.kind = "good" /\ h.age < Ttl("kline", h) + calling[p]
    BY <1>6, <2>1 DEF HandsAge
  <2>3. value \in Values /\ value.age = h.age /\ value.kind \in {"good", "failed"}
    <3>1. value = [h EXCEPT !.kind = IF answer = "good" THEN @ ELSE "failed"]
      BY <1>6 DEF Outcome
    <3> HIDE DEF value, h
    <3> QED
      BY <1>4, <2>2, <3>1 DEF Values
  <2> HIDE DEF value, h
  <2>4. MaxAge(top, value.kind) = 645 + CallTime
    BY <1>3, <1>6, <2>1, <2>3, CachesAssumption DEF MaxAge
  <2>5. Ttl("kline", h) = 45
    BY <1>3, <2>2 DEF Ttl
  <2>6. h.age + 600 < 645 + CallTime
    BY <1>4, <2>2, <2>5, CachesAssumption
  <2> QED
    BY <1>3, <1>6, <2>1, <2>3, <2>4, <2>6 DEF value
<1>7. CASE c \notin {"quotes", "insight"}
  <2>1. value = New(IF answer = "fails" THEN CacheTable[c].failure ELSE answer)
    BY <1>7 DEF Outcome
  <2>2. value \in Values /\ value.age = 0 /\ value.kind # "none"
    BY <1>3, <2>1 DEF New, Values
  <2>3. ~(at[p] = top /\ Lies)
    BY <1>1, <1>7 DEF Lies
  <2> QED
    BY <2>2, <2>3
<1> QED
  BY <1>5, <1>6, <1>7

\* A vendor answers: the load goes on.
LEMMA AnswerKeeps ==
    ASSUME CachesInv, NEW p \in Callers, NEW answer \in {"good", "empty", "fails"},
           VendorAnswers(p, answer) \/ (answer # "empty" /\ SecondAnswers(p, answer))
    PROVE  CachesInv'
<1> USE DEF CachesInv
<1>0. /\ Shelves' = Shelves /\ (Lies' <=> Lies) /\ UNCHANGED <<top, shelf, flight, asked, owner, said, requests>>
      /\ calling' = [calling EXCEPT ![p] = 0] /\ step[p] \in {"asking", "second"}
  BY DEF VendorAnswers, SecondAnswers, Shelves, Lies
<1>1. PICK to \in {"second", "store"}, value \in Values :
         /\ at' = at /\ step' = [step EXCEPT ![p] = to] /\ hand' = [hand EXCEPT ![p] = value]
         /\ to = "second" => at[p] = "rt"
         /\ to = "store" =>
               /\ value.kind # "none"
               /\ at[p] = top /\ Lies => value.age + CacheTable[top].ttl < MaxAge(top, value.kind)
               /\ ~(at[p] = top /\ Lies) => value.age = 0
  <2>1. CASE VendorAnswers(p, answer) /\ at[p] = "rt" /\ answer = "fails"
    <3>1. at' = [at EXCEPT ![p] = "rt"] /\ step' = [step EXCEPT ![p] = "second"] /\ UNCHANGED hand
      BY <2>1 DEF VendorAnswers, Go
    <3>2. at' = at /\ hand[p] \in Values /\ hand' = [hand EXCEPT ![p] = hand[p]]
      BY <2>1, <3>1 DEF Placed, CachesTyped
    <3> QED
      BY <2>1, <3>1, <3>2
  <2>2. CASE VendorAnswers(p, answer) /\ ~(at[p] = "rt" /\ answer = "fails")
    <3> DEFINE value == Outcome(p, answer)
    <3>1. /\ at' = [at EXCEPT ![p] = at[p]] /\ step' = [step EXCEPT ![p] = "store"]
          /\ hand' = [hand EXCEPT ![p] = value] /\ step[p] = "asking"
      BY <2>2 DEF VendorAnswers, Go
    <3>2. at' = at
      BY <3>1 DEF Placed
    <3>3. /\ value \in Values /\ value.kind # "none"
          /\ at[p] = top /\ Lies => value.age + CacheTable[top].ttl < MaxAge(top, value.kind)
          /\ ~(at[p] = top /\ Lies) => value.age = 0
      BY <2>2, <3>1, OutcomeAge
    <3> HIDE DEF value
    <3> QED
      BY <3>1, <3>2, <3>3
  <2>3. CASE SecondAnswers(p, answer)
    <3> DEFINE value == New(IF answer = "good" THEN "second" ELSE "failed")
    <3>1. /\ at' = [at EXCEPT ![p] = "rt"] /\ step' = [step EXCEPT ![p] = "store"]
          /\ hand' = [hand EXCEPT ![p] = value] /\ at[p] = "rt"
      BY <2>3 DEF SecondAnswers, Go, Placed
    <3>2. at' = at
      BY <3>1 DEF Placed
    <3>3. value \in Values /\ value.age = 0 /\ value.kind # "none"
      BY DEF New, Values
    <3>4. ~(at[p] = top /\ Lies)
      BY <3>1, TableFacts DEF Lies
    <3> HIDE DEF value
    <3> QED
      BY <3>1, <3>2, <3>3, <3>4
  <2> QED
    BY <2>1, <2>2, <2>3
<1>2. /\ \A q \in Callers \ {p} : step'[q] = step[q] /\ hand'[q] = hand[q] /\ calling'[q] = calling[q]
      /\ step'[p] = to /\ hand'[p] = value
  BY <1>0, <1>1 DEF CachesTyped
<1>3. CachesTyped'
  BY <1>0, <1>1, CachesAssumption DEF CachesTyped
<1>4. Placed'
  BY <1>0, <1>1, <1>2 DEF Placed
<1>5. EntriesAge' /\ AnswersFresh'
  BY <1>0 DEF EntriesAge, AnswersFresh, Fresh
<1>6. HandsAge'
  <2> SUFFICES ASSUME NEW q \in Callers
               PROVE  /\ step'[q] \in {"store", "resolve"} =>
                             /\ hand'[q].kind # "none"
                             /\ at[q] = top /\ Lies =>
                                   hand'[q].age + CacheTable[top].ttl < MaxAge(top, hand'[q].kind)
                             /\ ~(at[q] = top /\ Lies) => hand'[q].age = 0
                      /\ step'[q] = "asking" /\ at[q] = top /\ Lies =>
                             /\ hand'[q].kind \in {"good", "second"} =>
                                   hand'[q].age < Ttl(Below(top), hand'[q]) + calling'[q]
                             /\ top = "insight" => hand'[q].kind = "good"
    BY <1>0, <1>1 DEF HandsAge
  <2>1. CASE q = p
    BY <1>1, <1>2, <2>1
  <2>2. CASE q # p
    BY <1>2, <2>2 DEF HandsAge
  <2> QED
    BY <2>1, <2>2
<1>7. LoadsEntered' /\ WaitsForLoad'
  BY <1>0, <1>1, <1>2, LoadsGoOn
<1> QED
  BY <1>3, <1>4, <1>5, <1>6, <1>7

\* What is stored lives as long as its age allows, and the load is taken out.
LEMMA StoreKeeps ==
    ASSUME CachesInv, NEW p \in Callers, StoreValue(p)
    PROVE  CachesInv'
<1> USE DEF CachesInv
<1> DEFINE c == at[p]
           value == hand[p]
           ttl == Ttl(c, value)
<1>0. /\ Shelves' = Shelves /\ (Lies' <=> Lies) /\ InProcess' = InProcess
      /\ UNCHANGED <<top, hand, asked, calling, owner, said, requests>> /\ step[p] = "store"
      /\ c \in InProcess /\ c \in Shelves /\ c # "redis" /\ value \in Values /\ value.age \in Nat
      /\ ttl \in Nat /\ ttl <= CacheTable[c].ttl /\ CacheTable[c].ttl \in Nat
      /\ value.kind # "none" /\ (c # top => Below(top) # "redis")
      /\ top \in InProcess /\ CacheTable[top].ttl \in Nat
  BY AtFacts, PlaceFacts, MaxAgePositive DEF StoreValue, Shelves, Lies, InProcess, CachesTyped, Values, HandsAge, Placed
<1>1. /\ at' = [at EXCEPT ![p] = c] /\ step' = [step EXCEPT ![p] = "resolve"]
      /\ shelf' = [d \in Shelves |->
             CASE d \in {c, "redis"} /\ ttl > 0 -> [left |-> ttl, value |-> value]
               [] d = c /\ ttl = 0 /\ value.kind = "empty" -> NoEntry
               [] OTHER -> shelf[d]]
      /\ CacheTable[c].shares => flight' = [flight EXCEPT ![c] = NoCaller]
      /\ ~CacheTable[c].shares => UNCHANGED flight
  BY DEF StoreValue, Go
<1>2. at' = at
  BY <1>1 DEF Placed
<1>3. \A q \in Callers \ {p} : step'[q] = step[q]
  BY <1>1 DEF CachesTyped
<1>4. step'[p] = "resolve"
  BY <1>1 DEF CachesTyped
<1>5. ttl > 0 => value.kind # "raised"
  BY DEF Ttl
<1>6. \A d \in Shelves : \/ d \in {c, "redis"} /\ ttl > 0 /\ shelf'[d] = [left |-> ttl, value |-> value]
                         \/ shelf'[d] = NoEntry
                         \/ shelf'[d] = shelf[d]
  <2> HIDE DEF ttl, value, c
  <2> QED
    BY <1>0, <1>1
<1> HIDE DEF ttl, value, c
<1>7. CachesTyped'
  <2>1. shelf' \in [Shelves -> [left : Nat, value : Values]]
    <3>1. NoEntry \in [left : Nat, value : Values] /\ [left |-> ttl, value |-> value] \in [left : Nat, value : Values]
      BY <1>0 DEF NoEntry, NoValue, Values
    <3>2. \A d \in Shelves : shelf'[d] \in [left : Nat, value : Values]
      BY <1>6, <3>1 DEF CachesTyped
    <3>3. shelf' = [d \in Shelves |-> shelf'[d]]
      BY <1>1
    <3> QED
      BY <3>2, <3>3
  <2>2. flight' \in [Shelves -> Callers \union {NoCaller}]
    BY <1>0, <1>1 DEF CachesTyped
  <2>3. step' \in [Callers -> {"idle", "look", "redis", "wait", "asking", "second", "store", "resolve"}]
    BY <1>1 DEF CachesTyped
  <2> QED
    BY <1>0, <2>1, <2>2, <2>3 DEF CachesTyped
<1>8. Placed'
  BY <1>0, <1>2, <1>3, <1>4 DEF Placed
<1>9. AnswersFresh'
  BY <1>0 DEF AnswersFresh
<1>10. HandsAge'
  BY <1>0, <1>2, <1>3, <1>4 DEF HandsAge, c, value
<1>11. EntriesAge'
  <2> SUFFICES ASSUME NEW d \in Shelves, shelf'[d].left > 0
               PROVE  /\ shelf'[d].value.kind \notin {"none", "raised"}
                      /\ d = "redis" => shelf'[d].value.age + shelf'[d].left <= CacheTable[top].ttl
                      /\ d = top /\ Below(top) # "none" =>
                            shelf'[d].value.age + shelf'[d].left < MaxAge(top, shelf'[d].value.kind)
                      /\ d # "redis" /\ (d # top \/ Below(top) = "none") =>
                            shelf'[d].value.age + shelf'[d].left <= Ttl(d, shelf'[d].value)
    BY <1>0 DEF EntriesAge, Fresh
  <2>1. CASE shelf'[d] = shelf[d]
    BY <2>1 DEF EntriesAge, Fresh
  <2>2. CASE shelf'[d] = NoEntry
    BY <2>2 DEF NoEntry
  <2>3. CASE d \in {c, "redis"} /\ ttl > 0 /\ shelf'[d] = [left |-> ttl, value |-> value]
    <3>1. shelf'[d].value = value /\ shelf'[d].left = ttl /\ value.kind \notin {"none", "raised"}
      BY <1>0, <1>5, <2>3
    <3>2. MaxAge(top, value.kind) \in Nat \ {0}
      BY MaxAgePositive
    <3>3. CASE c = top /\ Lies
      <4>1. value.age + CacheTable[top].ttl < MaxAge(top, value.kind)
        BY <1>0, <3>3 DEF HandsAge, c, value
      <4>2. d = top /\ Below(top) # "none" /\ d # "redis"
        BY <1>0, <2>3, <3>3, PlaceFacts DEF Lies
      <4>3. value.age + ttl < MaxAge(top, value.kind)
        BY <1>0, <3>2, <3>3, <4>1
      <4> QED
        BY <3>1, <4>2, <4>3
    <3>4. CASE ~(c = top /\ Lies)
      <4>1. value.age = 0
        BY <1>0, <3>4 DEF HandsAge, c, value
      <4>2. d = "redis" => c = top /\ Below(top) = "redis"
        BY <1>0, PlaceFacts
      <4>3. d = top /\ Below(top) # "none" => Below(top) = "redis" /\ c = top
        BY <1>0, <2>3, <3>4, PlaceFacts DEF Lies
      <4>4. Below(top) = "redis" => MaxAge(top, value.kind) = CacheTable[top].ttl + 10
        <5>1. Below(top) = "redis" => top # "rt"
          BY TableFacts
        <5> QED
          BY <3>1, <5>1 DEF MaxAge
      <4>5. d # "redis" => d = c
        BY <2>3
      <4> QED
        BY <1>0, <3>1, <4>1, <4>2, <4>3, <4>4, <4>5 DEF ttl
    <3> QED
      BY <3>3, <3>4
  <2> QED
    BY <1>6, <2>1, <2>2, <2>3
<1>12. LoadsEntered'
  <2>1. ASSUME NEW d \in InProcess, CacheTable[d].shares, flight'[d] # NoCaller
        PROVE  at'[flight'[d]] = d /\ step'[flight'[d]] \in {"asking", "second", "store"}
    <3>1. flight'[d] = flight[d] /\ d # c /\ flight[d] \in Callers
      BY <1>0, <1>1, <2>1, PlaceFacts DEF CachesTyped
    <3>2. at[flight[d]] = d /\ step[flight[d]] \in {"asking", "second", "store"}
      BY <2>1, <3>1 DEF LoadsEntered
    <3>3. flight[d] # p
      BY <3>1, <3>2 DEF c
    <3> QED
      BY <1>2, <1>3, <3>1, <3>2, <3>3
  <2>2. ASSUME NEW q \in Callers, CacheTable[at'[q]].shares, step'[q] \in {"asking", "second", "store"}
        PROVE  flight'[at'[q]] = q
    <3>1. q # p /\ at'[q] = at[q] /\ step'[q] = step[q]
      BY <1>2, <1>3, <1>4, <2>2
    <3>2. flight[at[q]] = q /\ at[q] \in Shelves
      BY <2>2, <3>1, AtFacts DEF LoadsEntered
    <3>3. CASE at[q] = c
      <4>1. CacheTable[c].shares /\ flight[c] = p
        BY <1>0, <2>2, <3>1, <3>3 DEF LoadsEntered, c
      <4> QED
        BY <3>1, <3>2, <3>3, <4>1
    <3>4. CASE at[q] # c
      BY <1>0, <1>1, <3>1, <3>2, <3>4 DEF CachesTyped
    <3> QED
      BY <3>3, <3>4
  <2> QED
    BY <1>0, <2>1, <2>2 DEF LoadsEntered
<1>13. WaitsForLoad'
  BY <1>0, <1>2, <1>3, <1>4 DEF WaitsForLoad
<1> QED
  BY <1>7, <1>8, <1>9, <1>10, <1>11, <1>12, <1>13

\* Seconds pass: entries and what is carried age, nothing else changes.
LEMMA SecondsKeep ==
    ASSUME CachesInv, NEW by \in Moments, PassSeconds(by)
    PROVE  CachesInv'
<1> USE DEF CachesInv
<1>1. by \in Nat \ {0}
  <2>1. \A c \in Shelves : shelf[c].left \in Nat
    BY DEF CachesTyped
  <2>2. \A p \in Callers : calling[p] \in 0 .. CallTime
    BY DEF CachesTyped
  <2>3. \/ \E c \in Shelves : by = shelf[c].left
        \/ \E c \in Shelves : shelf[c].left > 0 /\ by = shelf[c].left - 1
        \/ \E p \in Callers : by = CallTime - calling[p]
    BY DEF Moments, Fresh, Asking
  <2>4. by # 0
    BY DEF Moments
  <2> QED
    BY <2>1, <2>2, <2>3, <2>4, CachesAssumption
<1>2. /\ Shelves' = Shelves /\ (Lies' <=> Lies) /\ InProcess' = InProcess
      /\ UNCHANGED <<top, flight, at, step, owner, said, requests>>
      /\ \A p \in Callers : step[p] \in {"idle", "wait", "asking", "second"}
      /\ \A p \in Asking : calling[p] + by <= CallTime
  BY DEF PassSeconds, Shelves, Lies, InProcess
<1>3. ASSUME NEW v \in Values
      PROVE  /\ Aged(v, by) \in Values /\ Aged(v, by).kind = v.kind
             /\ v.kind # "none" => Aged(v, by).age = v.age + by
  BY <1>1 DEF Aged, Values
<1>4. ASSUME NEW c \in Shelves
      PROVE  \/ shelf'[c] = NoEntry
             \/ /\ shelf[c].left > by
                /\ shelf'[c] = [left |-> shelf[c].left - by, value |-> Aged(shelf[c].value, by)]
  <2>1. shelf[c].left \in Nat
    BY DEF CachesTyped
  <2> QED
    BY <1>1, <2>1 DEF PassSeconds
<1>5. CachesTyped'
  <2>1. shelf' \in [Shelves -> [left : Nat, value : Values]]
    <3>1. NoEntry \in [left : Nat, value : Values]
      BY DEF NoEntry, NoValue, Values
    <3>2. ASSUME NEW c \in Shelves PROVE shelf'[c] \in [left : Nat, value : Values]
      <4>1. shelf[c].left \in Nat /\ shelf[c].value \in Values
        BY DEF CachesTyped
      <4>2. shelf[c].left > by => shelf[c].left - by \in Nat
        BY <1>1, <4>1
      <4>3. Aged(shelf[c].value, by) \in Values
        BY <1>3, <4>1
      <4>4. shelf[c].left > by =>
               [left |-> shelf[c].left - by, value |-> Aged(shelf[c].value, by)] \in [left : Nat, value : Values]
        BY <4>2, <4>3
      <4> QED
        BY <1>4, <3>1, <4>4
    <3>3. shelf' = [c \in Shelves |-> shelf'[c]]
      BY DEF PassSeconds
    <3> QED
      BY <3>2, <3>3
  <2>2. hand' \in [Callers -> Values]
    <3>1. \A p \in Callers : Aged(hand[p], by) \in Values
      BY <1>3 DEF CachesTyped
    <3> QED
      BY <3>1 DEF PassSeconds
  <2>3. asked' \in [Callers -> Nat]
    BY <1>1 DEF PassSeconds, CachesTyped
  <2>4. calling' \in [Callers -> 0 .. CallTime]
    <3>1. \A p \in Callers : (IF p \in Asking THEN calling[p] + by ELSE 0) \in 0 .. CallTime
      BY <1>1, <1>2, CachesAssumption DEF CachesTyped
    <3> QED
      BY <3>1 DEF PassSeconds
  <2> QED
    BY <1>2, <2>1, <2>2, <2>3, <2>4 DEF CachesTyped
<1>6. Placed'
  BY <1>2 DEF Placed
<1>7. AnswersFresh'
  BY <1>2 DEF AnswersFresh
<1>8. LoadsEntered' /\ WaitsForLoad'
  BY <1>2 DEF LoadsEntered, WaitsForLoad
<1>9. EntriesAge'
  <2> SUFFICES ASSUME NEW d \in Shelves, shelf'[d].left > 0
               PROVE  /\ shelf'[d].value.kind \notin {"none", "raised"}
                      /\ d = "redis" => shelf'[d].value.age + shelf'[d].left <= CacheTable[top].ttl
                      /\ d = top /\ Below(top) # "none" =>
                            shelf'[d].value.age + shelf'[d].left < MaxAge(top, shelf'[d].value.kind)
                      /\ d # "redis" /\ (d # top \/ Below(top) = "none") =>
                            shelf'[d].value.age + shelf'[d].left <= Ttl(d, shelf'[d].value)
    BY <1>2 DEF EntriesAge, Fresh
  <2> DEFINE v == shelf[d].value
             w == shelf'[d].value
  <2>1. /\ shelf[d].left > by /\ shelf'[d].left = shelf[d].left - by /\ w = Aged(v, by)
    <3>1. shelf'[d] # NoEntry
      BY DEF NoEntry
    <3>2. /\ shelf[d].left > by
          /\ shelf'[d] = [left |-> shelf[d].left - by, value |-> Aged(shelf[d].value, by)]
      BY <1>4, <3>1
    <3> QED
      BY <3>2
  <2>2. v \in Values /\ v.age \in Nat /\ shelf[d].left \in Nat
    BY DEF CachesTyped, Values
  <2>3. Fresh(d)
    BY <1>1, <2>1, <2>2 DEF Fresh
  <2>4. v.kind \notin {"none", "raised"}
    BY <2>3 DEF EntriesAge
  <2>5. w.kind = v.kind /\ w.age = v.age + by
    BY <1>3, <2>1, <2>2, <2>4
  <2>6. w.age + shelf'[d].left = v.age + shelf[d].left
    BY <1>1, <2>1, <2>2, <2>5
  <2>7. Ttl(d, w) = Ttl(d, v)
    BY <2>5 DEF Ttl
  <2>8. /\ d = "redis" => v.age + shelf[d].left <= CacheTable[top].ttl
        /\ d = top /\ Below(top) # "none" => v.age + shelf[d].left < MaxAge(top, v.kind)
        /\ d # "redis" /\ (d # top \/ Below(top) = "none") => v.age + shelf[d].left <= Ttl(d, v)
    BY <2>3 DEF EntriesAge
  <2> HIDE DEF v, w
  <2> QED
    BY <2>4, <2>5, <2>6, <2>7, <2>8 DEF w
<1>10. HandsAge'
  <2> SUFFICES ASSUME NEW p \in Callers, step[p] = "asking", at[p] = top, Lies
               PROVE  /\ hand'[p].kind \in {"good", "second"} =>
                            hand'[p].age < Ttl(Below(top), hand'[p]) + calling'[p]
                      /\ top = "insight" => hand'[p].kind = "good"
    BY <1>2 DEF HandsAge
  <2> DEFINE v == hand[p]
  <2>1. hand'[p] = Aged(v, by) /\ calling'[p] = calling[p] + by
    BY DEF PassSeconds, Asking
  <2>2. v \in Values /\ v.age \in Nat /\ calling[p] \in Nat
    BY CachesAssumption DEF CachesTyped, Values
  <2>3. /\ v.kind \in {"good", "second"} => v.age < Ttl(Below(top), v) + calling[p]
        /\ top = "insight" => v.kind = "good"
    BY DEF HandsAge
  <2>4. hand'[p].kind = v.kind /\ (v.kind # "none" => hand'[p].age = v.age + by)
    BY <1>3, <2>1, <2>2
  <2>5. Ttl(Below(top), hand'[p]) = Ttl(Below(top), v)
    BY <2>4 DEF Ttl
  <2>6. Ttl(Below(top), v) \in Nat
    BY <2>2, PlaceFacts, MaxAgePositive
  <2> HIDE DEF v
  <2> QED
    BY <1>1, <2>1, <2>2, <2>3, <2>4, <2>5, <2>6
<1> QED
  BY <1>5, <1>6, <1>7, <1>8, <1>9, <1>10

\* The process restarts: what is left is what Redis had.
LEMMA RestartKeeps ==
    ASSUME CachesInv, CachesRestart
    PROVE  CachesInv'
<1> USE DEF CachesInv
<1>1. /\ Shelves' = Shelves /\ (Lies' <=> Lies) /\ InProcess' = InProcess
      /\ UNCHANGED <<top, flight, at, step, hand, asked, calling, owner, said, requests>>
      /\ shelf' = [c \in Shelves |-> IF c = "redis" THEN shelf[c] ELSE NoEntry]
  BY DEF CachesRestart, Shelves, Lies, InProcess
<1>2. NoEntry \in [left : Nat, value : Values] /\ NoEntry.left = 0
  BY DEF NoEntry, NoValue, Values
<1>3. CachesTyped'
  BY <1>1, <1>2 DEF CachesTyped
<1>4. Placed' /\ HandsAge' /\ LoadsEntered' /\ WaitsForLoad' /\ AnswersFresh'
  BY <1>1 DEF Placed, HandsAge, LoadsEntered, WaitsForLoad, AnswersFresh
<1>5. EntriesAge'
  BY <1>1, <1>2 DEF EntriesAge, Fresh
<1> QED
  BY <1>3, <1>4, <1>5

\* The invariant holds at first.
LEMMA CachesStart == CachesInit => CachesInv
<1> SUFFICES ASSUME CachesInit PROVE CachesInv
  OBVIOUS
<1>1. NoEntry \in [left : Nat, value : Values] /\ NoEntry.left = 0 /\ NoValue \in Values /\ NoValue.kind = "none"
  BY DEF NoEntry, NoValue, Values
<1>2. CachesTyped
  <2>1. /\ shelf \in [Shelves -> [left : Nat, value : Values]]
        /\ hand \in [Callers -> Values] /\ said \in [Callers -> Values]
    BY <1>1 DEF CachesInit
  <2>2. calling \in [Callers -> 0 .. CallTime] /\ asked \in [Callers -> Nat] /\ requests \in 0 .. MaxAsked
    BY CachesAssumption DEF CachesInit
  <2> QED
    BY <2>1, <2>2 DEF CachesTyped, CachesInit
<1>3. top \in Shelves
  BY <1>2, PlaceFacts
<1>4. Placed /\ HandsAge
  BY <1>3 DEF CachesInit, Placed, HandsAge
<1>5. EntriesAge /\ AnswersFresh
  BY <1>1 DEF CachesInit, EntriesAge, AnswersFresh, Fresh
<1>6. LoadsEntered /\ WaitsForLoad
  BY <1>2, PlaceFacts DEF CachesInit, LoadsEntered, WaitsForLoad
<1> QED
  BY <1>2, <1>4, <1>5, <1>6 DEF CachesInv

\* Every step keeps the invariant.
LEMMA CachesStep == CachesInv /\ [CachesNext]_cacheVars => CachesInv'
<1> SUFFICES ASSUME CachesInv, CachesNext PROVE CachesInv'
  <2>1. CASE UNCHANGED cacheVars
    <3>1. Shelves' = Shelves /\ (Lies' <=> Lies) /\ InProcess' = InProcess
      BY <2>1 DEF cacheVars, Shelves, Lies, InProcess
    <3> QED
      BY <2>1, <3>1 DEF cacheVars, CachesInv, CachesTyped, Placed, EntriesAge, Fresh, HandsAge,
                        LoadsEntered, WaitsForLoad, AnswersFresh
  <2> QED
    BY <2>1
<1>1. ASSUME NEW p \in Callers, Request(p) \/ CallerStep(p) PROVE CachesInv'
  <2>1. CASE Request(p) \/ Join(p)
    BY <2>1, JoinKeeps
  <2>2. CASE Hit(p)
    BY <2>2, HitKeeps
  <2>3. CASE Miss(p)
    BY <2>3, MissKeeps
  <2>4. CASE LookInRedis(p)
    BY <2>4, RedisKeeps
  <2>5. CASE StoreValue(p)
    BY <2>5, StoreKeeps
  <2>6. CASE Resolve(p)
    BY <2>6, ResolveKeeps
  <2>7. ASSUME NEW answer \in {"good", "empty", "fails"}, VendorAnswers(p, answer) PROVE CachesInv'
    BY <2>7, AnswerKeeps
  <2>8. ASSUME NEW answer \in {"good", "fails"}, SecondAnswers(p, answer) PROVE CachesInv'
    BY <2>8, AnswerKeeps
  <2> QED
    BY <1>1, <2>1, <2>2, <2>3, <2>4, <2>5, <2>6, <2>7, <2>8 DEF CallerStep
<1>2. ASSUME NEW by \in Moments, PassSeconds(by) PROVE CachesInv'
  BY <1>2, SecondsKeep
<1>3. ASSUME CachesRestart PROVE CachesInv'
  BY <1>3, RestartKeeps
<1> QED
  BY <1>1, <1>2, <1>3 DEF CachesNext

\* So it always holds.
LEMMA CachesAlways == CachesInit /\ [][CachesNext]_cacheVars => []CachesInv
  BY CachesStart, CachesStep, PTL

\* Whatever the callers, the length of a vendor's call and the number of requests, every
\* variable has its type.
THEOREM CachesTypeCorrect == CachesSpec => []CachesTypeOK
<1>1. CachesInv => CachesTypeOK
  BY DEF CachesInv, CachesTyped, Placed, CachesTypeOK
<1> QED
  BY <1>1, CachesAlways, PTL DEF CachesSpec

\* Whatever the callers, the length of a vendor's call and the number of requests: no
\* cache of quotes or charts answers with something older than the times to live on its
\* way allow, and nobody waits for a load that is not under way.
THEOREM CachesAlwaysHonest == CachesSpec => []CachesHonest
<1>1. CachesInv => CachesHonest
  BY InvShares DEF CachesInv, CachesHonest
<1> QED
  BY <1>1, CachesAlways, PTL DEF CachesSpec

-----------------------------------------------------------------------------
(* The names of the stocks.                                                *)

\* The caller has the lock of its process.
Holds(c) == mapAt[c] \in {"fetching", "writing", "keeping"}

\* No map is younger than today nor than the date it carries.
MapsDated ==
    /\ \A p \in Programs : known[p].map <= known[p].date /\ known[p].date <= mapDay
    /\ disk.date \in disk.map..(disk.map + 1) /\ disk.date <= mapDay
    /\ \A c \in Askers : staleMap[c] <= mapDay

\* The lock of a process has one holder.
OneHolds ==
    \A c, d \in Askers : (Holds(c) /\ Holds(d) /\ ProgramOf(c) = ProgramOf(d)) => c = d

\* While a caller has the lock its process learns nothing newer than what the caller falls
\* back to, or has downloaded.
HolderIsAhead ==
    \A c \in Askers :
       /\ Holds(c) => known[ProgramOf(c)].map <= staleMap[c]
       /\ mapAt[c] \in {"writing", "keeping"} =>
             /\ 1 <= freshMap[c] /\ freshMap[c] <= mapDay /\ mapDay <= freshMap[c] + 1
             /\ known[ProgramOf(c)].map <= freshMap[c]

MapInv == MapTypeOK /\ MapsDated /\ OneHolds /\ HolderIsAhead

\* What a step does to the maps of the processes, and what it may answer.
MapsGrow ==
    \A p \in Programs : known'[p].map >= known[p].map \/ known'[p].date = 0

NoneForNone ==
    \A c \in Askers : (mapAt[c] # "idle" /\ mapAt'[c] = "idle" /\ mapAnswer'[c] = 0)
        => known'[ProgramOf(c)].map = 0

\* A caller returns a map, with the lock or while nobody has it, and its process may
\* remember it: nothing is forgotten.
LEMMA ReturnKeeps ==
    ASSUME MapInv, NEW c \in Askers, NEW map \in 0..LastMapDay,
           Holds(c) \/ ~Locked(ProgramOf(c)),
           Return(c, map),
           \/ UNCHANGED known
           \/ Remember(c, map) /\ map <= mapDay /\ known[ProgramOf(c)].map <= map,
           map # 0 \/ (UNCHANGED known /\ known[ProgramOf(c)].map = 0),
           UNCHANGED <<mapDay, disk>>, mapTroubles' \in 0..MaxMapTroubles
    PROVE  MapInv' /\ MapsGrow /\ NoneForNone
<1> DEFINE p == ProgramOf(c)
<1> USE DEF MapInv, MapTypeOK
<1>1. p \in Programs /\ \A d \in Askers : ProgramOf(d) \in Programs
  BY DEF ProgramOf, Programs
<1> HIDE DEF p
<1>2. /\ \A d \in Askers \ {c} : mapAt'[d] = mapAt[d] /\ staleMap'[d] = staleMap[d]
                                  /\ freshMap'[d] = freshMap[d] /\ mapAnswer'[d] = mapAnswer[d]
      /\ mapAt'[c] = "idle" /\ staleMap'[c] = 0 /\ freshMap'[c] = 0 /\ mapAnswer'[c] = map
  BY DEF Return
<1>3. \A d \in Askers : Holds(d)' => d # c /\ Holds(d) /\ ProgramOf(d) # p
  BY <1>2 DEF Holds, OneHolds, Locked, p
<1>4. /\ \A q \in Programs \ {p} : known'[q] = known[q]
      /\ \/ known' = known
         \/ known'[p].map = map /\ known'[p].date = mapDay /\ map <= mapDay /\ known[p].map <= map
  BY <1>1 DEF Remember, p
<1>5. MapTypeOK'
  <2>1. known' \in [Programs -> [map : 0..LastMapDay, date : 0..LastMapDay]]
    BY <1>1 DEF Remember, p
  <2>2. /\ mapAt' \in [Askers -> {"idle", "waiting", "fetching", "writing", "keeping"}]
        /\ staleMap' \in [Askers -> 0..LastMapDay] /\ freshMap' \in [Askers -> 0..LastMapDay]
        /\ mapAnswer' \in [Askers -> 0..LastMapDay]
    BY MapAssumption DEF Return
  <2> QED
    BY <2>1, <2>2
<1>6. \A q \in Programs : known[q].map \in Nat /\ known[q].date \in Nat
  OBVIOUS
<1>7. MapsDated'
  BY <1>2, <1>4, <1>6 DEF MapsDated
<1>8. OneHolds'
  BY <1>3 DEF OneHolds
<1>9. HolderIsAhead'
  <2> SUFFICES ASSUME NEW d \in Askers, Holds(d)'
               PROVE  /\ known'[ProgramOf(d)] = known[ProgramOf(d)]
                      /\ staleMap'[d] = staleMap[d] /\ freshMap'[d] = freshMap[d]
                      /\ mapAt'[d] = mapAt[d] /\ Holds(d)
    BY DEF HolderIsAhead, Holds
  <2> QED
    BY <1>1, <1>2, <1>3, <1>4
<1>10. MapsGrow
  BY <1>4, <1>6 DEF MapsGrow
<1>11. NoneForNone
  <2> SUFFICES ASSUME NEW d \in Askers, mapAt[d] # "idle", mapAt'[d] = "idle", mapAnswer'[d] = 0
               PROVE  known'[ProgramOf(d)].map = 0
    BY DEF NoneForNone
  <2> QED
    BY <1>2 DEF p
<1> QED
  BY <1>5, <1>7, <1>8, <1>9, <1>10, <1>11

\* A caller goes on to another place in its call and the maps of the processes stay.
LEMMA CallGoesOn ==
    ASSUME MapInv, NEW c \in Askers, NEW map \in 0..LastMapDay, NEW fresh \in 0..LastMapDay,
           NEW goesTo \in {"waiting", "fetching", "writing", "keeping"},
           mapAt' = [mapAt EXCEPT ![c] = goesTo],
           staleMap' = [staleMap EXCEPT ![c] = map], freshMap' = [freshMap EXCEPT ![c] = fresh],
           map <= mapDay,
           goesTo # "waiting" =>
               /\ Holds(c) \/ ~Locked(ProgramOf(c))
               /\ known[ProgramOf(c)].map <= map,
           goesTo \in {"writing", "keeping"} =>
               /\ 1 <= fresh /\ fresh <= mapDay /\ mapDay <= fresh + 1
               /\ known[ProgramOf(c)].map <= fresh,
           UNCHANGED <<mapDay, known, mapAnswer>>,
           disk' \in [map : 0..LastMapDay, date : 0..LastMapDay],
           disk'.date \in disk'.map..(disk'.map + 1), disk'.date <= mapDay,
           mapTroubles' \in 0..MaxMapTroubles
    PROVE  MapInv' /\ MapsGrow /\ NoneForNone
<1> USE DEF MapInv, MapTypeOK
<1>1. /\ \A d \in Askers \ {c} : mapAt'[d] = mapAt[d] /\ staleMap'[d] = staleMap[d]
                                  /\ freshMap'[d] = freshMap[d]
      /\ mapAt'[c] = goesTo /\ staleMap'[c] = map /\ freshMap'[c] = fresh
  OBVIOUS
<1>2. \A d \in Askers : Holds(d)' => Holds(d) \/ (d = c /\ ~Locked(ProgramOf(c)))
  BY <1>1 DEF Holds
<1>3. MapTypeOK'
  OBVIOUS
<1>4. MapsDated'
  BY <1>1 DEF MapsDated
<1>5. OneHolds'
  BY <1>2 DEF OneHolds, Holds, Locked
<1>6. HolderIsAhead'
  BY <1>1 DEF HolderIsAhead, Holds
<1>7. \A q \in Programs : known[q].map \in Nat
  OBVIOUS
<1>8. MapsGrow /\ NoneForNone
  BY <1>1, <1>7 DEF MapsGrow, NoneForNone
<1> QED
  BY <1>3, <1>4, <1>5, <1>6, <1>8

\* The invariant holds at first.
LEMMA MapStart == MapInit => MapInv
<1> SUFFICES ASSUME MapInit PROVE MapInv
  OBVIOUS
<1>1. \A c \in Askers : ProgramOf(c) \in Programs
  BY DEF ProgramOf, Programs
<1> QED
  BY <1>1, MapAssumption DEF MapInit, MapInv, MapTypeOK, MapsDated, OneHolds, HolderIsAhead, Holds

\* Every step keeps the invariant, forgets no names and answers with none only if there
\* are none.
LEMMA MapStepKeeps ==
    MapInv /\ [MapNext]_mapVars => MapInv' /\ ((MapsGrow /\ NoneForNone) \/ UNCHANGED mapVars)
<1> SUFFICES ASSUME MapInv, MapNext
             PROVE  MapInv' /\ MapsGrow /\ NoneForNone
  <2>1. CASE UNCHANGED mapVars
    BY <2>1 DEF mapVars, MapInv, MapTypeOK, MapsDated, OneHolds, HolderIsAhead, Holds
  <2> QED
    BY <2>1
<1> USE DEF MapInv
<1>0. /\ \A p \in Programs : known[p].map \in 0..LastMapDay /\ known[p].date \in 0..LastMapDay
                             /\ known[p].map <= known[p].date /\ known[p].date <= mapDay
      /\ mapDay \in 1..LastMapDay /\ mapTroubles \in 0..MaxMapTroubles
      /\ disk \in [map : 0..LastMapDay, date : 0..LastMapDay]
      /\ disk.map \in 0..LastMapDay /\ disk.date \in 0..LastMapDay
      /\ disk.date \in disk.map..(disk.map + 1) /\ disk.date <= mapDay
      /\ \A c \in Askers : /\ staleMap[c] \in 0..LastMapDay /\ staleMap[c] <= mapDay
                           /\ freshMap[c] \in 0..LastMapDay /\ ProgramOf(c) \in Programs
      /\ staleMap \in [Askers -> 0..LastMapDay] /\ freshMap \in [Askers -> 0..LastMapDay]
  BY DEF MapTypeOK, MapsDated, ProgramOf, Programs
<1>1. ASSUME NEW c \in Askers, AskForMap(c) PROVE MapInv' /\ MapsGrow /\ NoneForNone
  <2> DEFINE map == known[ProgramOf(c)].map
  <2>0. map \in 0..LastMapDay /\ map <= mapDay /\ ProgramOf(c) \in Programs
    BY <1>0
  <2>1. CASE Current(ProgramOf(c))
    <3>1. map # 0 /\ Return(c, map) /\ UNCHANGED <<mapDay, known, disk, mapTroubles>> /\ mapAt[c] = "idle"
      BY <1>1, <2>1 DEF AskForMap, Current
    <3> HIDE DEF map
    <3>5. MapTypeOK'
      <4>1. /\ mapAt' \in [Askers -> {"idle", "waiting", "fetching", "writing", "keeping"}]
            /\ staleMap' \in [Askers -> 0..LastMapDay] /\ freshMap' \in [Askers -> 0..LastMapDay]
            /\ mapAnswer' \in [Askers -> 0..LastMapDay]
        BY <3>1, <2>0, MapAssumption DEF Return, MapTypeOK
      <4> QED
        BY <3>1, <4>1 DEF MapTypeOK
    <3>2. /\ \A d \in Askers \ {c} : mapAt'[d] = mapAt[d] /\ staleMap'[d] = staleMap[d]
                                      /\ freshMap'[d] = freshMap[d] /\ mapAnswer'[d] = mapAnswer[d]
          /\ mapAt'[c] = "idle" /\ staleMap'[c] = 0 /\ freshMap'[c] = 0
      BY <3>1 DEF Return, MapTypeOK
    <3>3. MapsDated' /\ OneHolds' /\ HolderIsAhead'
      BY <3>1, <3>2, <1>0 DEF MapsDated, OneHolds, HolderIsAhead, Holds
    <3>4. MapsGrow /\ NoneForNone
      BY <3>1, <3>2, <1>0 DEF MapsGrow, NoneForNone
    <3> QED
      BY <3>5, <3>3, <3>4
  <2>2. CASE ~Current(ProgramOf(c))
    <3>1. /\ mapAt' = [mapAt EXCEPT ![c] = "waiting"] /\ staleMap' = [staleMap EXCEPT ![c] = map]
          /\ freshMap' = [freshMap EXCEPT ![c] = freshMap[c]]
          /\ UNCHANGED <<mapDay, known, mapAnswer, disk, mapTroubles>>
      BY <1>0, <1>1, <2>2 DEF AskForMap
    <3> HIDE DEF map
    <3> QED
      BY <1>0, <2>0, <3>1, CallGoesOn
  <2> QED
    BY <2>1, <2>2
<1>2. ASSUME NEW c \in Askers, LookAgain(c) PROVE MapInv' /\ MapsGrow /\ NoneForNone
  <2> DEFINE map == known[ProgramOf(c)].map
  <2>0. /\ map \in 0..LastMapDay /\ map <= mapDay /\ ProgramOf(c) \in Programs
        /\ ~Locked(ProgramOf(c)) /\ mapAt[c] = "waiting"
    BY <1>0, <1>2 DEF LookAgain
  <2>1. CASE Current(ProgramOf(c)) /\ Return(c, map) /\ UNCHANGED <<known, mapDay, disk, mapTroubles>>
    <3>1. map # 0
      BY <2>1 DEF Current
    <3> HIDE DEF map
    <3> QED
      BY <1>0, <2>0, <2>1, <3>1, ReturnKeeps
  <2>2. ASSUME NEW file \in FileSeen(c), ~Current(ProgramOf(c)), file.map # 0, file.date = mapDay,
               Remember(c, file.map), Return(c, file.map), UNCHANGED <<mapDay, disk, mapTroubles>>
        PROVE  MapInv' /\ MapsGrow /\ NoneForNone
    <3>1. file = disk
      BY <2>2 DEF FileSeen
    <3>2. disk.map <= mapDay /\ known[ProgramOf(c)].map <= disk.map
      BY <1>0, <2>0, <2>2, <3>1 DEF Current
    <3> QED
      BY <1>0, <2>0, <2>2, <3>1, <3>2, ReturnKeeps
  <2>3. ASSUME NEW file \in FileSeen(c), ~Current(ProgramOf(c)),
               mapAt' = [mapAt EXCEPT ![c] = "fetching"],
               staleMap' = [staleMap EXCEPT ![c] = IF FallBack(c) # 0 THEN FallBack(c) ELSE file.map],
               UNCHANGED <<known, freshMap, mapAnswer, mapDay, disk, mapTroubles>>
        PROVE  MapInv' /\ MapsGrow /\ NoneForNone
    <3>1. file.map \in 0..LastMapDay /\ file.map <= mapDay
      BY <1>0, MapAssumption DEF FileSeen
    <3> DEFINE stale == IF FallBack(c) # 0 THEN FallBack(c) ELSE file.map
    <3>2. stale \in 0..LastMapDay /\ stale <= mapDay /\ known[ProgramOf(c)].map <= stale
      BY <1>0, <2>0, <3>1 DEF FallBack
    <3>3. freshMap' = [freshMap EXCEPT ![c] = freshMap[c]] /\ staleMap' = [staleMap EXCEPT ![c] = stale]
      BY <1>0, <2>3
    <3> HIDE DEF stale
    <3> QED
      BY <1>0, <2>0, <2>3, <3>2, <3>3, CallGoesOn
  <2> QED
    BY <1>2, <2>1, <2>2, <2>3 DEF LookAgain
<1>3. ASSUME NEW c \in Askers, Downloaded(c) PROVE MapInv' /\ MapsGrow /\ NoneForNone
  <2>1. /\ mapAt' = [mapAt EXCEPT ![c] = "writing"] /\ staleMap' = [staleMap EXCEPT ![c] = staleMap[c]]
        /\ freshMap' = [freshMap EXCEPT ![c] = mapDay]
        /\ UNCHANGED <<mapDay, known, mapAnswer, disk, mapTroubles>>
        /\ Holds(c)
    BY <1>0, <1>3 DEF Downloaded, Holds
  <2>2. known[ProgramOf(c)].map <= staleMap[c] /\ known[ProgramOf(c)].map <= mapDay
    BY <1>0, <2>1 DEF HolderIsAhead
  <2>3. /\ mapDay \in 0..LastMapDay /\ 1 <= mapDay /\ mapDay <= mapDay /\ mapDay <= mapDay + 1
        /\ disk' \in [map : 0..LastMapDay, date : 0..LastMapDay] /\ mapTroubles' \in 0..MaxMapTroubles
        /\ disk'.date \in disk'.map..(disk'.map + 1) /\ disk'.date <= mapDay
    BY <1>0, <2>1, MapAssumption
  <2> QED
    BY <1>0, <2>1, <2>2, <2>3, CallGoesOn
<1>4. ASSUME NEW c \in Askers, DownloadFails(c) PROVE MapInv' /\ MapsGrow /\ NoneForNone
  <2>1. Holds(c) /\ Return(c, staleMap[c]) /\ UNCHANGED <<mapDay, disk>> /\ mapTroubles' \in 0..MaxMapTroubles
    BY <1>0, <1>4, MapAssumption DEF DownloadFails, Holds
  <2>2. known[ProgramOf(c)].map <= staleMap[c]
    BY <1>0, <2>1 DEF HolderIsAhead
  <2>3. CASE staleMap[c] # 0
    <3>1. Remember(c, staleMap[c])
      BY <1>4, <2>3 DEF DownloadFails
    <3> QED
      BY <1>0, <2>1, <2>2, <2>3, <3>1, ReturnKeeps
  <2>4. CASE staleMap[c] = 0
    <3>1. UNCHANGED known /\ known[ProgramOf(c)].map = 0
      BY <1>0, <1>4, <2>2, <2>4 DEF DownloadFails
    <3> QED
      BY <1>0, <2>1, <2>2, <3>1, ReturnKeeps
  <2> QED
    BY <2>3, <2>4
<1>5. ASSUME NEW c \in Askers, WriteFile(c) PROVE MapInv' /\ MapsGrow /\ NoneForNone
  <2>1. /\ mapAt' = [mapAt EXCEPT ![c] = "keeping"] /\ staleMap' = [staleMap EXCEPT ![c] = staleMap[c]]
        /\ freshMap' = [freshMap EXCEPT ![c] = freshMap[c]]
        /\ UNCHANGED <<mapDay, known, mapAnswer>>
        /\ Holds(c) /\ mapAt[c] = "writing"
    BY <1>0, <1>5 DEF WriteFile, Holds
  <2>2. /\ known[ProgramOf(c)].map <= staleMap[c] /\ known[ProgramOf(c)].map <= freshMap[c]
        /\ 1 <= freshMap[c] /\ freshMap[c] <= mapDay /\ mapDay <= freshMap[c] + 1
    BY <1>0, <2>1 DEF HolderIsAhead
  <2>3. mapTroubles' \in 0..MaxMapTroubles
    BY <1>0, <1>5, MapAssumption DEF WriteFile
  <2>4. /\ disk' \in [map : 0..LastMapDay, date : 0..LastMapDay]
        /\ disk'.date \in disk'.map..(disk'.map + 1) /\ disk'.date <= mapDay
    <3>1. CASE disk' = disk
      BY <1>0, <3>1
    <3>2. CASE disk' = [map |-> freshMap[c], date |-> mapDay]
      BY <1>0, <2>2, <3>2, MapAssumption
    <3> QED
      BY <1>5, <3>1, <3>2 DEF WriteFile
  <2> QED
    BY <1>0, <2>1, <2>2, <2>3, <2>4, CallGoesOn
<1>6. ASSUME NEW c \in Askers, KeepMap(c) PROVE MapInv' /\ MapsGrow /\ NoneForNone
  <2>1. /\ Remember(c, freshMap[c]) /\ Return(c, freshMap[c]) /\ UNCHANGED <<mapDay, disk, mapTroubles>>
        /\ Holds(c) /\ mapAt[c] = "keeping"
    BY <1>6 DEF KeepMap, Holds
  <2>2. /\ known[ProgramOf(c)].map <= freshMap[c] /\ 1 <= freshMap[c] /\ freshMap[c] <= mapDay
    BY <1>0, <2>1 DEF HolderIsAhead
  <2> QED
    BY <1>0, <2>1, <2>2, ReturnKeeps
<1>7. ASSUME NEW p \in Programs, ProgramRestarts(p) PROVE MapInv' /\ MapsGrow /\ NoneForNone
  <2>1. /\ \A c \in Askers : ProgramOf(c) = p =>
                mapAt'[c] = "idle" /\ staleMap'[c] = 0 /\ freshMap'[c] = 0 /\ mapAnswer'[c] = 0
        /\ \A c \in Askers : ProgramOf(c) # p =>
                /\ mapAt'[c] = mapAt[c] /\ staleMap'[c] = staleMap[c]
                /\ freshMap'[c] = freshMap[c] /\ mapAnswer'[c] = mapAnswer[c]
        /\ known'[p] = [map |-> 0, date |-> 0] /\ \A q \in Programs \ {p} : known'[q] = known[q]
        /\ UNCHANGED <<mapDay, disk>>
    BY <1>7 DEF ProgramRestarts, MapTypeOK
  <2>2. MapTypeOK'
    <3>1. /\ mapAt' \in [Askers -> {"idle", "waiting", "fetching", "writing", "keeping"}]
          /\ staleMap' \in [Askers -> 0..LastMapDay] /\ freshMap' \in [Askers -> 0..LastMapDay]
          /\ mapAnswer' \in [Askers -> 0..LastMapDay]
      BY <1>7, MapAssumption DEF ProgramRestarts, MapTypeOK
    <3>2. known' \in [Programs -> [map : 0..LastMapDay, date : 0..LastMapDay]]
      BY <1>7, MapAssumption DEF ProgramRestarts, MapTypeOK
    <3>3. mapTroubles' \in 0..MaxMapTroubles /\ UNCHANGED <<mapDay, disk>>
      BY <1>0, <1>7, MapAssumption DEF ProgramRestarts
    <3> QED
      BY <3>1, <3>2, <3>3 DEF MapTypeOK
  <2>3. MapsDated'
    BY <1>0, <2>1 DEF MapsDated
  <2>4. OneHolds' /\ HolderIsAhead'
    BY <1>0, <2>1 DEF OneHolds, HolderIsAhead, Holds
  <2>5. MapsGrow /\ NoneForNone
    BY <1>0, <2>1 DEF MapsGrow, NoneForNone
  <2> QED
    BY <2>2, <2>3, <2>4, <2>5
<1>8. ASSUME Midnight PROVE MapInv' /\ MapsGrow /\ NoneForNone
  <2>1. /\ mapDay' = mapDay + 1 /\ mapDay' \in 1..LastMapDay
        /\ \A c \in Askers : freshMap[c] \in {0, mapDay}
        /\ UNCHANGED <<known, disk, mapAt, staleMap, freshMap, mapAnswer, mapTroubles>>
    BY <1>0, <1>8, MapAssumption DEF Midnight
  <2>2. MapTypeOK' /\ MapsDated' /\ OneHolds'
    BY <1>0, <2>1 DEF MapTypeOK, MapsDated, OneHolds, Holds
  <2>3. HolderIsAhead'
    BY <1>0, <2>1 DEF HolderIsAhead, Holds
  <2>4. MapsGrow /\ NoneForNone
    BY <1>0, <2>1 DEF MapsGrow, NoneForNone
  <2> QED
    BY <2>2, <2>3, <2>4
<1> QED
  BY <1>1, <1>2, <1>3, <1>4, <1>5, <1>6, <1>7, <1>8 DEF MapNext, MapStep

\* Whatever the callers, the failures and the days: no process forgets names it knows or
\* goes back to an older map, an empty answer is given only by one that knows none, and
\* the file carries the day of its map or the day after (load_cn_stock_map).
THEOREM MapAlwaysHonest == MapSpec => StockMapHonest
<1>1. MapSpec => []MapInv
  BY MapStart, MapStepKeeps, PTL DEF MapSpec
<1>2. MapInv => disk.date \in disk.map..(disk.map + 1)
  BY DEF MapInv, MapsDated
<1>3. MapInv /\ [MapNext]_mapVars =>
        [\A p \in Programs : known'[p].map >= known[p].map \/ known'[p].date = 0]_mapVars
  BY MapStepKeeps DEF MapsGrow
<1>4. MapInv /\ [MapNext]_mapVars =>
        [\A c \in Askers : (mapAt[c] # "idle" /\ mapAt'[c] = "idle" /\ mapAnswer'[c] = 0)
             => known'[ProgramOf(c)].map = 0]_mapVars
  BY MapStepKeeps DEF NoneForNone
<1> QED
  BY <1>1, <1>2, <1>3, <1>4, PTL DEF MapSpec, StockMapHonest

\* Whatever the callers, the failures and the days, every variable has its type.
THEOREM MapTypeCorrect == MapSpec => []MapTypeOK
<1>1. MapInv => MapTypeOK
  BY DEF MapInv
<1> QED
  BY <1>1, MapStart, MapStepKeeps, PTL DEF MapSpec
-----------------------------------------------------------------------------
(* The snapshots of fast analyses.                                         *)

SlotStates == {"pending", "ok", "bare", "timeout", "unavailable", "unsupported_channel", "skipped"}
CallStates == [pc : {"none", "queued", "calling", "over"}, request : Nat, kept : BOOLEAN]
Turns == Snapshots \X {"sources", "model"}

SnapTyped ==
    /\ labels \in SourceSets
    /\ stage \in [Snapshots -> {"new", "collecting", "asking", "finished", "failed"}]
    /\ slot \in [Snapshots -> [labels -> SlotStates]]
    /\ call \in [Snapshots -> [labels -> CallStates]]
    /\ model \in [Snapshots -> [pc : {"none", "queued", "calling", "over"}, tries : 0 .. 1]]
    /\ line \in Seq(Turns)
    /\ features \in [Snapshots -> SUBSET DOMAIN FeatureTable]
    /\ verdict \in [Snapshots -> {"none", "opinion", "neutral"}]
    /\ intime \in [Snapshots -> SUBSET SourceLabels]

\* A slot is filled with rows that came in time, what waits in line is waited for, and the
\* features are those of the snapshot from when all its slots are settled.
SnapSound(s) ==
    /\ \A l \in labels : slot[s][l] = "ok" => l \in intime[s]
    /\ \A l \in labels : call[s][l].pc = "queued" => slot[s][l] = "pending"
    /\ stage[s] = "new" => Queued(s) = {}
    /\ model[s].pc = "queued" => stage[s] = "asking"
    /\ stage[s] \in {"new", "collecting"} => features[s] = {}
    /\ stage[s] \notin {"new", "collecting"} => Pending(s) = {} /\ features[s] = Populated(s)

\* A turn is in the line once, and something of it waits.
Once(q) == \A j, k \in DOMAIN q : q[j] = q[k] => j = k
LineSound == Once(line) /\ \A k \in DOMAIN line : Waits(line[k])

SnapInv == SnapTyped /\ (\A s \in Snapshots : SnapSound(s)) /\ LineSound /\ Busy <= Threads

\* r is q without its k-th element.
IsWithout(r, q, k) ==
    /\ Len(r) = Len(q) - 1
    /\ \A j \in 1 .. (Len(q) - 1) : r[j] = IF j < k THEN q[j] ELSE q[j + 1]

\* A sequence without its k-th element, put together from what is before and behind it.
LEMMA Spliced ==
    ASSUME NEW S, NEW q \in Seq(S), NEW k \in 1 .. Len(q)
    PROVE  LET r == SubSeq(q, 1, k - 1) \o SubSeq(q, k + 1, Len(q))
           IN  r \in Seq(S) /\ IsWithout(r, q, k)
<1> DEFINE a == SubSeq(q, 1, k - 1)
           b == SubSeq(q, k + 1, Len(q))
<1>1. k \in Nat /\ Len(q) \in Nat /\ 1 <= k /\ k <= Len(q)
  OBVIOUS
<1>2. a \in Seq(S) /\ Len(a) = k - 1 /\ \A j \in 1 .. (k - 1) : a[j] = q[j]
  BY <1>1
<1>3. b \in Seq(S) /\ Len(b) = Len(q) - k /\ \A j \in 1 .. (Len(q) - k) : b[j] = q[j + k]
  BY <1>1
<1> HIDE DEF a, b
<1>4. a \o b \in Seq(S) /\ Len(a \o b) = Len(a) + Len(b)
  <2>1. a \in Seq(S) /\ b \in Seq(S)
    BY <1>2, <1>3
  <2> QED
    BY <2>1
<1>5. \A j \in 1 .. (Len(a) + Len(b)) : (a \o b)[j] = IF j <= Len(a) THEN a[j] ELSE b[j - Len(a)]
  BY <1>2, <1>3
<1>6. ASSUME NEW j \in 1 .. (Len(q) - 1) PROVE (a \o b)[j] = IF j < k THEN q[j] ELSE q[j + 1]
  <2>1. j \in Nat /\ 1 <= j /\ j <= Len(q) - 1
    BY <1>1
  <2>2. (a \o b)[j] = IF j <= k - 1 THEN a[j] ELSE b[j - (k - 1)]
    BY <1>1, <1>2, <1>3, <1>5, <2>1
  <2>3. CASE j < k
    <3>1. j <= k - 1 /\ j \in 1 .. (k - 1)
      BY <1>1, <2>1, <2>3
    <3> QED
      BY <1>2, <2>2, <2>3, <3>1
  <2>4. CASE ~(j < k)
    <3>1. ~(j <= k - 1) /\ j - (k - 1) \in 1 .. (Len(q) - k) /\ j - (k - 1) + k = j + 1
      BY <1>1, <2>1, <2>4
    <3>2. b[j - (k - 1)] = q[j - (k - 1) + k]
      BY <1>3, <3>1
    <3> QED
      BY <2>2, <2>4, <3>1, <3>2
  <2> QED
    BY <2>3, <2>4
<1>7. Len(a \o b) = Len(q) - 1
  BY <1>1, <1>2, <1>3, <1>4
<1> QED
  BY <1>4, <1>6, <1>7 DEF IsWithout, a, b

\* A line without one of its turns has the others, each once.
LEMMA TurnRemoved ==
    ASSUME NEW q \in Seq(Turns), Once(q), NEW k \in 1 .. Len(q), NEW r \in Seq(Turns),
           IsWithout(r, q, k)
    PROVE  Once(r) /\ \A j \in DOMAIN r : r[j] # q[k] /\ \E i \in DOMAIN q : r[j] = q[i]
<1>1. /\ k \in Nat /\ Len(q) \in Nat /\ 1 <= k /\ k <= Len(q)
      /\ DOMAIN q = 1 .. Len(q) /\ DOMAIN r = 1 .. (Len(q) - 1)
      /\ \A j \in 1 .. (Len(q) - 1) : r[j] = IF j < k THEN q[j] ELSE q[j + 1]
  BY DEF IsWithout
<1> DEFINE from(n) == IF n < k THEN n ELSE n + 1
<1>2. ASSUME NEW j \in DOMAIN r PROVE from(j) \in DOMAIN q /\ from(j) # k /\ r[j] = q[from(j)]
  <2>1. j \in Nat /\ 1 <= j /\ j <= Len(q) - 1 /\ j \in 1 .. (Len(q) - 1)
    BY <1>1
  <2>2. CASE j < k
    BY <1>1, <2>1, <2>2
  <2>3. CASE ~(j < k)
    BY <1>1, <2>1, <2>3
  <2> QED
    BY <2>2, <2>3
<1>3. ASSUME NEW i \in DOMAIN r, NEW j \in DOMAIN r, from(i) = from(j) PROVE i = j
  BY <1>1, <1>3
<1> HIDE DEF from
<1>4. k \in DOMAIN q
  BY <1>1
<1> QED
  BY <1>2, <1>3, <1>4 DEF Once

\* A turn that is new to the line is put behind the others.
LEMMA TurnAdded ==
    ASSUME NEW q \in Seq(Turns), Once(q), NEW turn \in Turns, \A k \in DOMAIN q : q[k] # turn
    PROVE  /\ Append(q, turn) \in Seq(Turns) /\ Once(Append(q, turn))
           /\ \A j \in DOMAIN Append(q, turn) :
                 Append(q, turn)[j] = turn \/ \E i \in DOMAIN q : Append(q, turn)[j] = q[i]
<1>1. /\ Append(q, turn) \in Seq(Turns) /\ Len(Append(q, turn)) = Len(q) + 1
      /\ \A j \in 1 .. Len(q) : Append(q, turn)[j] = q[j]
      /\ Append(q, turn)[Len(q) + 1] = turn
      /\ Len(q) \in Nat /\ DOMAIN q = 1 .. Len(q) /\ DOMAIN Append(q, turn) = 1 .. (Len(q) + 1)
  OBVIOUS
<1>2. \A j \in 1 .. (Len(q) + 1) : j \in 1 .. Len(q) \/ j = Len(q) + 1
  BY <1>1
<1> QED
  BY <1>1, <1>2 DEF Once

\* There are finitely many labels, and so finitely many calls.
LEMMA FewCalls ==
    ASSUME SnapTyped
    PROVE  /\ IsFiniteSet(labels)
           /\ IsFiniteSet(Running) /\ Cardinality(Running) \in Nat
           /\ IsFiniteSet(Modelling) /\ Cardinality(Modelling) \in Nat
<1> DEFINE A == {"kline_60d", "rt_k", "factor", "mins", "moneyflow", "industry_flow"}
           B == {"index_pulse", "top_list", "limit_list", "anns", "basic", "auction"}
<1>1. IsFiniteSet({})
  BY FS_EmptySet
<1>2. IsFiniteSet(A)
  <2>1. A = {} \cup {"kline_60d"} \cup {"rt_k"} \cup {"factor"} \cup {"mins"} \cup {"moneyflow"} \cup {"industry_flow"}
    OBVIOUS
  <2> HIDE DEF A
  <2> QED
    BY <1>1, <2>1, FS_AddElement
<1>3. IsFiniteSet(B)
  <2>1. B = {} \cup {"index_pulse"} \cup {"top_list"} \cup {"limit_list"} \cup {"anns"} \cup {"basic"} \cup {"auction"}
    OBVIOUS
  <2> HIDE DEF B
  <2> QED
    BY <1>1, <2>1, FS_AddElement
<1>4. labels \in SUBSET SourceLabels /\ SourceLabels = A \cup B
  BY SnapshotAssumption DEF SnapTyped, SourceLabels
<1>5. IsFiniteSet(labels)
  <2> HIDE DEF A, B
  <2>1. IsFiniteSet(SourceLabels)
    BY <1>2, <1>3, <1>4, FS_Union
  <2> QED
    BY <1>4, <2>1, FS_Subset
<1>6. IsFiniteSet(Snapshots \X labels)
  BY <1>5, SnapshotAssumption, FS_Product
<1>7. Running \in SUBSET (Snapshots \X labels) /\ Modelling \in SUBSET Snapshots
  BY DEF Running, Modelling
<1>8. IsFiniteSet(Running) /\ IsFiniteSet(Modelling)
  BY <1>6, <1>7, SnapshotAssumption, FS_Subset
<1> QED
  BY <1>5, <1>8, FS_CardinalityType

\* Whoever lets no call begin holds no more threads.
LEMMA NoMoreBusy ==
    ASSUME SnapTyped, Busy <= Threads, Running' \subseteq Running, Modelling' \subseteq Modelling
    PROVE  Busy' <= Threads
<1>1. /\ IsFiniteSet(Running) /\ Cardinality(Running) \in Nat
      /\ IsFiniteSet(Modelling) /\ Cardinality(Modelling) \in Nat
  BY FewCalls
<1>2. Running' \in SUBSET Running /\ Modelling' \in SUBSET Modelling
  OBVIOUS
<1>3. /\ IsFiniteSet(Running') /\ Cardinality(Running') <= Cardinality(Running)
      /\ IsFiniteSet(Modelling') /\ Cardinality(Modelling') <= Cardinality(Modelling)
  BY <1>1, <1>2, FS_Subset
<1>4. Cardinality(Running') \in Nat /\ Cardinality(Modelling') \in Nat
  BY <1>3, FS_CardinalityType
<1>5. Busy = Cardinality(Running) + Cardinality(Modelling) /\ Threads \in Nat
  BY SnapshotAssumption DEF Busy
<1>6. Busy' = Cardinality(Running') + Cardinality(Modelling')
  BY DEF Busy
<1> QED
  BY <1>1, <1>3, <1>4, <1>5, <1>6

\* What is said of a snapshot stays true of it while nothing of it changes.
LEMMA RestingStaysSound ==
    ASSUME NEW t \in Snapshots, SnapSound(t), UNCHANGED labels,
           slot'[t] = slot[t], call'[t] = call[t], model'[t] = model[t], stage'[t] = stage[t],
           features'[t] = features[t], intime'[t] = intime[t]
    PROVE  SnapSound(t)'
<1>1. Pending(t)' = Pending(t) /\ Queued(t)' = Queued(t)
  BY DEF Pending, Queued
<1>2. Populated(t)' = Populated(t)
  <2>1. \A l : Has(t, l)' <=> Has(t, l)
    BY DEF Has
  <2> QED
    BY <2>1 DEF Populated
<1> QED
  BY <1>1, <1>2 DEF SnapSound

\* A snapshot begins.
LEMMA BeginKeeps ==
    ASSUME SnapInv, NEW s \in Snapshots, NEW day \in Days, NEW hour \in Hours, BeginSnapshot(s, day, hour)
    PROVE  SnapInv'
<1> DEFINE wanted == {l \in labels : ~Skips(l, day, hour)}
<1>t. SnapTyped /\ LineSound /\ SnapSound(s) /\ Busy <= Threads
  BY DEF SnapInv
<1>1. /\ stage[s] = "new" /\ stage' = [stage EXCEPT ![s] = "collecting"]
      /\ slot' = [slot EXCEPT ![s] = [l \in labels |-> IF l \in wanted THEN "pending" ELSE "skipped"]]
      /\ call' = [call EXCEPT ![s] = [l \in labels |->
                     IF l \in wanted THEN [NoCall EXCEPT !.pc = "queued"] ELSE NoCall]]
      /\ line' = IF wanted = {} THEN line ELSE Append(line, <<s, "sources">>)
      /\ UNCHANGED <<labels, model, features, verdict, intime>>
  BY DEF BeginSnapshot
<1>2. /\ [NoCall EXCEPT !.pc = "queued"] \in CallStates /\ [NoCall EXCEPT !.pc = "queued"].pc = "queued"
      /\ NoCall \in CallStates /\ NoCall.pc = "none"
  BY DEF NoCall, CallStates
<1> HIDE DEF wanted
<1>3. /\ slot'[s] = [l \in labels |-> IF l \in wanted THEN "pending" ELSE "skipped"]
      /\ call'[s] = [l \in labels |-> IF l \in wanted THEN [NoCall EXCEPT !.pc = "queued"] ELSE NoCall]
      /\ stage'[s] = "collecting"
      /\ \A t \in Snapshots \ {s} : slot'[t] = slot[t] /\ call'[t] = call[t] /\ stage'[t] = stage[t]
  BY <1>t, <1>1 DEF SnapTyped
<1>4. \A k \in DOMAIN line : line[k] \in Turns /\ line[k] # <<s, "sources">>
  <2> SUFFICES ASSUME NEW k \in DOMAIN line PROVE line[k] \in Turns /\ line[k] # <<s, "sources">>
    OBVIOUS
  <2>1. line[k] \in Turns
    BY <1>t DEF SnapTyped
  <2>2. Waits(line[k]) /\ Queued(s) = {}
    BY <1>t, <1>1 DEF LineSound, SnapSound
  <2> QED
    BY <2>1, <2>2 DEF Waits
<1>5. <<s, "sources">> \in Turns
  BY DEF Turns
<1>6. line \in Seq(Turns) /\ Once(line)
  BY <1>t DEF SnapTyped, LineSound
<1>7. line' \in Seq(Turns) /\ Once(line')
  BY <1>1, <1>4, <1>5, <1>6, TurnAdded
<1>8. SnapTyped'
  <2>1. slot' \in [Snapshots -> [labels -> SlotStates]]
    BY <1>t, <1>1 DEF SnapTyped, SlotStates
  <2>2. call' \in [Snapshots -> [labels -> CallStates]]
    BY <1>t, <1>1, <1>2 DEF SnapTyped
  <2> QED
    BY <1>t, <1>1, <1>7, <2>1, <2>2 DEF SnapTyped
<1>9. \A t \in Snapshots : SnapSound(t)'
  <2> SUFFICES ASSUME NEW t \in Snapshots PROVE SnapSound(t)'
    OBVIOUS
  <2>1. CASE t # s
    <3>1. SnapSound(t)
      BY DEF SnapInv
    <3> QED
      BY <1>1, <1>3, <2>1, <3>1, RestingStaysSound
  <2>2. CASE t = s
    <3>1. \A l \in labels : slot'[s][l] # "ok" /\ (call'[s][l].pc = "queued" => slot'[s][l] = "pending")
      BY <1>2, <1>3
    <3>2. features'[s] = {} /\ model'[s].pc # "queued"
      BY <1>t, <1>1 DEF SnapSound
    <3> QED
      BY <1>1, <1>3, <2>2, <3>1, <3>2 DEF SnapSound
  <2> QED
    BY <2>1, <2>2
<1>10. \A k \in DOMAIN line' : \A turn : turn = line'[k] => Waits(turn)'
  <2>1. ASSUME NEW i \in DOMAIN line, NEW turn, turn = line[i] PROVE Waits(turn)'
    <3>1. Waits(turn) /\ turn \in Turns /\ turn # <<s, "sources">>
      BY <1>t, <1>4, <2>1 DEF LineSound
    <3>2. CASE turn[2] = "model"
      BY <1>1, <3>1, <3>2 DEF Waits
    <3>3. CASE turn[2] # "model"
      <4>1. turn[1] \in Snapshots \ {s}
        BY <3>1, <3>3 DEF Turns
      <4>2. Queued(turn[1])' = Queued(turn[1])
        BY <1>1, <1>3, <4>1 DEF Queued
      <4> QED
        BY <3>1, <3>3, <4>2 DEF Waits
    <3> QED
      BY <3>2, <3>3
  <2>2. ASSUME wanted # {} PROVE Waits(<<s, "sources">>)'
    <3>1. PICK l \in labels : l \in wanted
      BY <2>2 DEF wanted
    <3>2. call'[s][l].pc = "queued"
      BY <1>2, <1>3, <3>1
    <3> QED
      BY <1>1, <3>2 DEF Waits, Queued
  <2>3. CASE wanted = {}
    BY <1>1, <2>1, <2>3
  <2>4. CASE wanted # {}
    <3>1. line' = Append(line, <<s, "sources">>)
      BY <1>1, <2>4
    <3>2. \A j \in DOMAIN line' : line'[j] = <<s, "sources">> \/ \E i \in DOMAIN line : line'[j] = line[i]
      BY <1>4, <1>5, <1>6, <3>1, TurnAdded
    <3>3. ASSUME NEW j \in DOMAIN line', NEW turn, turn = line'[j] PROVE Waits(turn)'
      <4>1. CASE line'[j] = <<s, "sources">>
        BY <2>2, <2>4, <3>3, <4>1
      <4>2. CASE \E i \in DOMAIN line : line'[j] = line[i]
        BY <2>1, <3>3, <4>2
      <4> QED
        BY <3>2, <4>1, <4>2
    <3> QED
      BY <3>3
  <2> QED
    BY <2>3, <2>4
<1>11. Busy' <= Threads
  <2>1. Running' \subseteq Running
    <3> SUFFICES ASSUME NEW e \in Snapshots \X labels, call'[e[1]][e[2]].pc = "calling"
                 PROVE  call[e[1]][e[2]].pc = "calling"
      BY <1>1 DEF Running
    <3>0. e[1] \in Snapshots /\ e[2] \in labels
      OBVIOUS
    <3>1. e[1] # s
      <4> SUFFICES ASSUME e[1] = s PROVE FALSE
        OBVIOUS
      <4>1. call'[s][e[2]] = IF e[2] \in wanted THEN [NoCall EXCEPT !.pc = "queued"] ELSE NoCall
        BY <1>3, <3>0
      <4> QED
        BY <1>2, <4>1
    <3> QED
      BY <1>3, <3>1
  <2>2. Modelling' = Modelling
    BY <1>1 DEF Modelling
  <2> QED
    BY <1>t, <2>1, <2>2, NoMoreBusy
<1> QED
  BY <1>7, <1>8, <1>9, <1>10, <1>11 DEF SnapInv, LineSound

\* A snapshot begins with empty slots, an empty line and free threads.
LEMMA SnapStart == SnapInit => SnapInv
<1> SUFFICES ASSUME SnapInit PROVE SnapInv
  OBVIOUS
<1>1. NoCall \in CallStates /\ NoCall.pc = "none"
  BY DEF NoCall, CallStates
<1>2. SnapTyped
  <2>1. call \in [Snapshots -> [labels -> CallStates]]
    BY <1>1 DEF SnapInit
  <2>2. slot \in [Snapshots -> [labels -> SlotStates]]
    BY DEF SnapInit, SlotStates
  <2> QED
    BY <2>1, <2>2 DEF SnapInit, SnapTyped
<1>3. \A s \in Snapshots : SnapSound(s)
  BY <1>1 DEF SnapInit, SnapSound, Queued
<1>4. LineSound
  BY DEF SnapInit, LineSound, Once
<1>5. Running = {} /\ Modelling = {}
  BY <1>1 DEF SnapInit, Running, Modelling
<1>6. Busy <= Threads
  BY <1>5, FS_EmptySet, SnapshotAssumption DEF Busy
<1> QED
  BY <1>2, <1>3, <1>4, <1>6 DEF SnapInv

\* Of the calls only one is set.
LEMMA CallSet ==
    ASSUME SnapTyped, NEW s \in Snapshots, NEW l \in labels, NEW c \in CallStates,
           call' = [call EXCEPT ![s][l] = c]
    PROVE  /\ call' \in [Snapshots -> [labels -> CallStates]] /\ call'[s][l] = c
           /\ \A m \in labels \ {l} : call'[s][m] = call[s][m]
           /\ \A t \in Snapshots \ {s} : call'[t] = call[t]
  BY DEF SnapTyped

\* A call that has a thread goes on or ends; it fills its slot if that is waited for.
LEMMA CallKeeps ==
    ASSUME SnapInv, NEW s \in Snapshots, NEW l \in labels, call[s][l].pc = "calling",
           NEW c \in CallStates, c.pc \in {"calling", "over"}, call' = [call EXCEPT ![s][l] = c],
           \/ UNCHANGED <<slot, intime>>
           \/ /\ slot[s][l] = "pending"
              /\ \E state \in SlotStates \ {"pending"} :
                    /\ slot' = [slot EXCEPT ![s][l] = state]
                    /\ intime' = IF state = "ok" THEN [intime EXCEPT ![s] = @ \union {l}] ELSE intime,
           UNCHANGED <<labels, stage, model, line, features, verdict>>
    PROVE  SnapInv'
<1>t. SnapTyped /\ LineSound /\ SnapSound(s) /\ Busy <= Threads
  BY DEF SnapInv
<1>1. /\ call' \in [Snapshots -> [labels -> CallStates]] /\ call'[s][l] = c
      /\ \A m \in labels \ {l} : call'[s][m] = call[s][m]
      /\ \A t \in Snapshots \ {s} : call'[t] = call[t]
  BY <1>t, CallSet
<1>2. /\ slot' \in [Snapshots -> [labels -> SlotStates]]
      /\ intime' \in [Snapshots -> SUBSET SourceLabels]
      /\ \A m \in labels \ {l} : slot'[s][m] = slot[s][m]
      /\ \A t \in Snapshots \ {s} : slot'[t] = slot[t] /\ intime'[t] = intime[t]
      /\ \A m \in intime[s] : m \in intime'[s]
      /\ slot'[s][l] = "ok" => l \in intime'[s]
      /\ slot'[s][l] = slot[s][l] \/ slot[s][l] = "pending"
  <2>1. CASE UNCHANGED <<slot, intime>>
    BY <1>t, <2>1 DEF SnapTyped, SnapSound
  <2>2. ASSUME NEW state \in SlotStates \ {"pending"}, slot[s][l] = "pending",
               slot' = [slot EXCEPT ![s][l] = state],
               intime' = IF state = "ok" THEN [intime EXCEPT ![s] = @ \union {l}] ELSE intime
        PROVE  /\ slot' \in [Snapshots -> [labels -> SlotStates]]
               /\ intime' \in [Snapshots -> SUBSET SourceLabels]
               /\ \A m \in labels \ {l} : slot'[s][m] = slot[s][m]
               /\ \A t \in Snapshots \ {s} : slot'[t] = slot[t] /\ intime'[t] = intime[t]
               /\ \A m \in intime[s] : m \in intime'[s]
               /\ slot'[s][l] = "ok" => l \in intime'[s]
    <3>1. l \in SourceLabels
      BY <1>t, SnapshotAssumption DEF SnapTyped
    <3>2. slot' \in [Snapshots -> [labels -> SlotStates]] /\ slot'[s][l] = state
      BY <1>t, <2>2 DEF SnapTyped
    <3>3. /\ \A m \in labels \ {l} : slot'[s][m] = slot[s][m]
          /\ \A t \in Snapshots \ {s} : slot'[t] = slot[t]
      BY <1>t, <2>2 DEF SnapTyped
    <3>4. CASE state = "ok"
      <4>1. intime' = [intime EXCEPT ![s] = intime[s] \union {l}]
        BY <2>2, <3>4
      <4> QED
        BY <1>t, <3>1, <3>2, <3>3, <4>1 DEF SnapTyped
    <3>5. CASE state # "ok"
      BY <1>t, <2>2, <3>2, <3>3, <3>5 DEF SnapTyped
    <3> QED
      BY <3>4, <3>5
  <2>3. CASE slot[s][l] = "pending"
    BY <2>1, <2>2, <2>3
  <2> QED
    BY <2>1, <2>3
<1>3. SnapTyped'
  BY <1>t, <1>1, <1>2 DEF SnapTyped
<1>4. Queued(s)' = Queued(s)
  BY <1>1 DEF Queued
<1>5. \A t \in Snapshots : Queued(t)' = Queued(t)
  <2>1. \A t \in Snapshots \ {s} : Queued(t)' = Queued(t)
    BY <1>1 DEF Queued
  <2> QED
    BY <1>4, <2>1
<1>6. SnapSound(s)'
  <2>1. \A m \in labels : slot'[s][m] = "ok" => m \in intime'[s]
    BY <1>t, <1>2 DEF SnapSound
  <2>2. \A m \in labels : call'[s][m].pc = "queued" => slot'[s][m] = "pending"
    BY <1>t, <1>1, <1>2 DEF SnapSound
  <2>3. stage[s] \notin {"new", "collecting"} => slot'[s] = slot[s]
    <3> SUFFICES ASSUME stage[s] \notin {"new", "collecting"} PROVE slot'[s] = slot[s]
      OBVIOUS
    <3>1. slot[s][l] # "pending"
      BY <1>t DEF SnapSound, Pending
    <3> QED
      BY <1>t, <1>2, <3>1 DEF SnapTyped
  <2>4. stage[s] \notin {"new", "collecting"} => Pending(s)' = Pending(s) /\ Populated(s)' = Populated(s)
    <3> SUFFICES ASSUME stage[s] \notin {"new", "collecting"}
                 PROVE  Pending(s)' = Pending(s) /\ Populated(s)' = Populated(s)
      OBVIOUS
    <3>1. Pending(s)' = Pending(s)
      BY <2>3 DEF Pending
    <3>2. \A m : Has(s, m)' <=> Has(s, m)
      BY <2>3 DEF Has
    <3> QED
      BY <3>1, <3>2 DEF Populated
  <2> QED
    BY <1>t, <1>4, <2>1, <2>2, <2>4 DEF SnapSound
<1>7. \A t \in Snapshots : SnapSound(t)'
  <2> SUFFICES ASSUME NEW t \in Snapshots, t # s PROVE SnapSound(t)'
    BY <1>6
  <2>1. SnapSound(t)
    BY DEF SnapInv
  <2> QED
    BY <1>1, <1>2, <2>1, RestingStaysSound
<1>8. LineSound'
  <2>1. ASSUME NEW k \in DOMAIN line, NEW turn, turn = line[k] PROVE Waits(turn)'
    <3>1. Waits(turn) /\ turn[1] \in Snapshots
      BY <1>t, <2>1 DEF LineSound, SnapTyped, Turns
    <3> QED
      BY <1>5, <3>1 DEF Waits
  <2> QED
    BY <1>t, <2>1 DEF LineSound
<1>9. Busy' <= Threads
  <2>1. \A t \in Snapshots, m \in labels : call'[t][m].pc = "calling" => call[t][m].pc = "calling"
    BY <1>1
  <2>2. Running' \subseteq Running /\ Modelling' = Modelling
    BY <2>1 DEF Running, Modelling
  <2> QED
    BY <1>t, <2>2, NoMoreBusy
<1> QED
  BY <1>3, <1>7, <1>8, <1>9 DEF SnapInv

\* What a call comes to when it ends.
Results == {"rows", "frame", "raises", "unsupported"}

\* A call of the provider has a result of these.
LEMMA SpentTyped == \A l : Asks(l).spent \in {"rows", "frame", "raises"}
<1>1. \A q, r : Method(q, r).spent = r
  BY DEF Method
<1> QED
  BY <1>1 DEF Asks, TsBarFrame, TsFactor, SwitchedOff, OneCall, IndustryFlow, IndexPulse,
       TopListOfDay, TsAuction

\* A call returns.
LEMMA ReturnsKeeps ==
    ASSUME SnapInv, NEW s \in Snapshots, NEW l \in labels, call[s][l].pc = "calling",
           NEW result \in Results, Returns(s, l, result),
           UNCHANGED <<labels, stage, model, line, features, verdict>>
    PROVE  SnapInv'
<1> DEFINE c == [call[s][l] EXCEPT !.pc = "over"]
<1>t. SnapTyped
  BY DEF SnapInv
<1>1. call[s][l] \in CallStates
  BY <1>t DEF SnapTyped
<1>2. c \in CallStates /\ c.pc = "over"
  BY <1>1 DEF CallStates
<1>3. call' = [call EXCEPT ![s][l] = c]
  BY DEF Returns
<1>4. StatusOf(result) \in SlotStates \ {"pending"} /\ (StatusOf(result) = "ok" <=> result = "rows")
  BY DEF StatusOf, SlotStates, Results
<1>5. \/ UNCHANGED <<slot, intime>>
      \/ /\ slot[s][l] = "pending"
         /\ \E state \in SlotStates \ {"pending"} :
               /\ slot' = [slot EXCEPT ![s][l] = state]
               /\ intime' = IF state = "ok" THEN [intime EXCEPT ![s] = @ \union {l}] ELSE intime
  <2>1. CASE slot[s][l] = "pending"
    <3>1. slot' = [slot EXCEPT ![s][l] = StatusOf(result)]
      BY <2>1 DEF Returns
    <3>2. intime' = IF StatusOf(result) = "ok" THEN [intime EXCEPT ![s] = @ \union {l}] ELSE intime
      BY <1>4, <2>1 DEF Returns
    <3> QED
      BY <1>4, <2>1, <3>1, <3>2
  <2>2. CASE slot[s][l] # "pending"
    BY <2>2 DEF Returns
  <2> QED
    BY <2>1, <2>2
<1> HIDE DEF c
<1> QED
  BY <1>2, <1>3, <1>5, CallKeeps

\* A vendor answers, or the provider does without one.
LEMMA AnswersKeep ==
    ASSUME SnapInv, NEW s \in Snapshots, NEW l \in labels,
           \/ \E answer \in {"rows", "empty", "fails"} : SourceAnswers(s, l, answer)
           \/ \E result \in {"unsupported", "frame"} : SourceAnswersAtOnce(s, l, result)
    PROVE  SnapInv'
<1>1. ASSUME NEW result \in {"unsupported", "frame"}, SourceAnswersAtOnce(s, l, result) PROVE SnapInv'
  <2>1. result \in Results
    BY DEF Results
  <2> QED
    BY <1>1, <2>1, ReturnsKeeps DEF SourceAnswersAtOnce
<1>2. ASSUME NEW answer \in {"rows", "empty", "fails"}, SourceAnswers(s, l, answer) PROVE SnapInv'
  <2> DEFINE method == Asks(l)
             reaction == method.sources[call[s][l].request][answer]
             kept == call[s][l].kept \/ reaction = "keep"
             c == [pc |-> "calling", request |-> call[s][l].request + 1, kept |-> kept]
  <2>1. call[s][l].pc = "calling" /\ UNCHANGED <<labels, stage, model, line, features, verdict>>
    BY <1>2 DEF SourceAnswers
  <2>2. \/ reaction \in {"rows", "frame", "raises"} /\ Returns(s, l, reaction)
        \/ call' = [call EXCEPT ![s][l] = c] /\ UNCHANGED <<slot, intime>>
        \/ Returns(s, l, IF kept THEN "rows" ELSE method.spent)
    <3> DEFINE ends == reaction \in {"rows", "frame", "raises"}
               on == reaction \in {"keep", "next"} /\ call[s][l].request < Len(method.sources)
    <3>1. /\ ends => Returns(s, l, reaction)
          /\ on => call' = [call EXCEPT ![s][l] = c] /\ UNCHANGED <<slot, intime>>
          /\ ~ends /\ ~on => Returns(s, l, IF kept THEN "rows" ELSE method.spent)
      <4>1. ends => Returns(s, l, reaction)
        BY <1>2 DEF SourceAnswers
      <4>2. on => call' = [call EXCEPT ![s][l] = c] /\ UNCHANGED <<slot, intime>>
        BY <1>2 DEF SourceAnswers
      <4>3. ~ends /\ ~on => Returns(s, l, IF kept THEN "rows" ELSE method.spent)
        BY <1>2 DEF SourceAnswers
      <4> QED
        BY <4>1, <4>2, <4>3
    <3> HIDE DEF method, reaction, kept, c, ends, on
    <3>3. CASE ends
      BY <3>1, <3>3 DEF ends
    <3>4. CASE on
      BY <3>1, <3>4
    <3>5. CASE ~ends /\ ~on
      BY <3>1, <3>5
    <3> QED
      BY <3>3, <3>4, <3>5
  <2>3. c \in CallStates /\ c.pc = "calling"
    <3>1. call[s][l] \in CallStates
      BY DEF SnapInv, SnapTyped
    <3>2. kept \in BOOLEAN
      BY <3>1 DEF CallStates
    <3>3. call[s][l].request + 1 \in Nat
      BY <3>1 DEF CallStates
    <3> HIDE DEF kept
    <3> QED
      BY <3>2, <3>3 DEF CallStates
  <2>4. method.spent \in {"rows", "frame", "raises"}
    BY SpentTyped
  <2> HIDE DEF method, reaction, kept, c
  <2>5. CASE reaction \in {"rows", "frame", "raises"} /\ Returns(s, l, reaction)
    <3>1. reaction \in Results
      BY <2>5 DEF Results
    <3> QED
      BY <2>1, <2>5, <3>1, ReturnsKeeps
  <2>6. CASE call' = [call EXCEPT ![s][l] = c] /\ UNCHANGED <<slot, intime>>
    BY <2>1, <2>3, <2>6, CallKeeps
  <2>7. CASE Returns(s, l, IF kept THEN "rows" ELSE method.spent)
    <3>1. (IF kept THEN "rows" ELSE method.spent) \in Results
      BY <2>4 DEF Results
    <3> QED
      BY <2>1, <2>7, <3>1, ReturnsKeeps
  <2> QED
    BY <2>2, <2>5, <2>6, <2>7
<1> QED
  BY <1>1, <1>2

\* The line without one of its turns has the others, each once.
LEMMA LineWithout ==
    ASSUME LineSound, SnapTyped, NEW k \in 1 .. Len(line), line' \in Seq(Turns), IsWithout(line', line, k)
    PROVE  Once(line') /\ \A j \in DOMAIN line' : line'[j] # line[k] /\ \E i \in DOMAIN line : line'[j] = line[i]
<1>1. line \in Seq(Turns) /\ Once(line)
  BY DEF SnapTyped, LineSound
<1> QED
  BY <1>1, TurnRemoved

\* A turn that leaves takes no other with it.
LEMMA LeavesOthers ==
    ASSUME SnapTyped, LineSound, NEW turn \in Turns, Leaves(turn)
    PROVE  /\ line' \in Seq(Turns) /\ Once(line')
           /\ \A k \in DOMAIN line' : line'[k] # turn /\ \E i \in DOMAIN line : line'[k] = line[i]
<1>1. line \in Seq(Turns) /\ Once(line)
  BY DEF SnapTyped, LineSound
<1>2. CASE (\A k \in DOMAIN line : line[k] # turn) /\ UNCHANGED line
  BY <1>1, <1>2
<1>3. ASSUME NEW k \in DOMAIN line, line[k] = turn,
             line' = SubSeq(line, 1, k - 1) \o SubSeq(line, k + 1, Len(line))
      PROVE  /\ line' \in Seq(Turns) /\ Once(line')
             /\ \A j \in DOMAIN line' : line'[j] # turn /\ \E i \in DOMAIN line : line'[j] = line[i]
  <2>1. k \in 1 .. Len(line)
    BY <1>1
  <2>2. line' \in Seq(Turns) /\ IsWithout(line', line, k)
    BY <1>1, <1>3, <2>1, Spliced
  <2>3. /\ Once(line')
        /\ \A j \in DOMAIN line' : line'[j] # line[k] /\ \E i \in DOMAIN line : line'[j] = line[i]
    BY <2>1, <2>2, LineWithout
  <2> QED
    BY <1>3, <2>2, <2>3
<1> QED
  BY <1>2, <1>3 DEF Leaves

\* The sources that have not answered time out.
LEMMA TimeOutKeeps ==
    ASSUME SnapInv, NEW s \in Snapshots, SourcesTimeOut(s)
    PROVE  SnapInv'
<1>t. SnapTyped /\ LineSound /\ SnapSound(s) /\ Busy <= Threads
  BY DEF SnapInv
<1>1. /\ stage[s] = "collecting" /\ Leaves(<<s, "sources">>)
      /\ slot' = [slot EXCEPT ![s] = [l \in labels |-> IF l \in Pending(s) THEN "timeout" ELSE slot[s][l]]]
      /\ call' = [call EXCEPT ![s] = [l \in labels |-> IF call[s][l].pc = "queued" THEN NoCall ELSE call[s][l]]]
      /\ UNCHANGED <<labels, stage, model, features, verdict, intime>>
  BY DEF SourcesTimeOut
<1>2. NoCall \in CallStates /\ NoCall.pc = "none"
  BY DEF NoCall, CallStates
<1>3. /\ slot'[s] = [l \in labels |-> IF l \in Pending(s) THEN "timeout" ELSE slot[s][l]]
      /\ call'[s] = [l \in labels |-> IF call[s][l].pc = "queued" THEN NoCall ELSE call[s][l]]
      /\ \A t \in Snapshots \ {s} : slot'[t] = slot[t] /\ call'[t] = call[t]
  BY <1>t, <1>1 DEF SnapTyped
<1>4. /\ line' \in Seq(Turns) /\ Once(line')
      /\ \A k \in DOMAIN line' : line'[k] # <<s, "sources">> /\ \E i \in DOMAIN line : line'[k] = line[i]
  <2>1. <<s, "sources">> \in Turns
    BY DEF Turns
  <2> QED
    BY <1>t, <1>1, <2>1, LeavesOthers
<1>5. SnapTyped'
  <2>1. slot' \in [Snapshots -> [labels -> SlotStates]]
    <3>1. [l \in labels |-> IF l \in Pending(s) THEN "timeout" ELSE slot[s][l]] \in [labels -> SlotStates]
      BY <1>t DEF SnapTyped, SlotStates
    <3> QED
      BY <1>t, <1>1, <3>1 DEF SnapTyped
  <2>2. call' \in [Snapshots -> [labels -> CallStates]]
    <3>1. [l \in labels |-> IF call[s][l].pc = "queued" THEN NoCall ELSE call[s][l]] \in [labels -> CallStates]
      BY <1>t, <1>2 DEF SnapTyped
    <3> QED
      BY <1>t, <1>1, <3>1 DEF SnapTyped
  <2> QED
    BY <1>t, <1>1, <1>4, <2>1, <2>2 DEF SnapTyped
<1>6. SnapSound(s)'
  <2>1. \A l \in labels : slot'[s][l] = "ok" => l \in intime'[s]
    BY <1>t, <1>1, <1>3 DEF SnapSound
  <2>2. \A l \in labels : call'[s][l].pc # "queued"
    BY <1>2, <1>3
  <2> QED
    BY <1>t, <1>1, <2>1, <2>2 DEF SnapSound, Queued
<1>7. \A t \in Snapshots : SnapSound(t)'
  <2> SUFFICES ASSUME NEW t \in Snapshots, t # s PROVE SnapSound(t)'
    BY <1>6
  <2>1. SnapSound(t)
    BY DEF SnapInv
  <2> QED
    BY <1>1, <1>3, <2>1, RestingStaysSound
<1>8. LineSound'
  <2>1. ASSUME NEW k \in DOMAIN line', NEW turn, turn = line'[k] PROVE Waits(turn)'
    <3>1. Waits(turn) /\ turn \in Turns /\ turn # <<s, "sources">>
      BY <1>t, <1>4, <2>1 DEF LineSound, SnapTyped
    <3>2. CASE turn[2] = "model"
      BY <1>1, <3>1, <3>2 DEF Waits
    <3>3. CASE turn[2] # "model"
      <4>1. turn[1] \in Snapshots \ {s}
        BY <3>1, <3>3 DEF Turns
      <4>2. Queued(turn[1])' = Queued(turn[1])
        BY <1>1, <1>3, <4>1 DEF Queued
      <4> QED
        BY <3>1, <3>3, <4>2 DEF Waits
    <3> QED
      BY <3>2, <3>3
  <2> QED
    BY <1>4, <2>1 DEF LineSound
<1>9. Busy' <= Threads
  <2>1. Running' \subseteq Running
    <3> SUFFICES ASSUME NEW t \in Snapshots, NEW l \in labels, call'[t][l].pc = "calling"
                 PROVE  call[t][l].pc = "calling"
      BY <1>1 DEF Running
    <3>1. CASE t = s
      BY <1>2, <1>3, <3>1
    <3>2. CASE t # s
      BY <1>3, <3>2
    <3> QED
      BY <3>1, <3>2
  <2>2. Modelling' = Modelling
    BY <1>1 DEF Modelling
  <2> QED
    BY <1>t, <2>1, <2>2, NoMoreBusy
<1> QED
  BY <1>5, <1>7, <1>8, <1>9 DEF SnapInv

\* Only the model of one snapshot moves: the turns of the sources wait as before.
LEMMA ModelTurns ==
    ASSUME LineSound, SnapTyped, NEW s \in Snapshots, UNCHANGED <<labels, call>>,
           \A t \in Snapshots \ {s} : model'[t] = model[t],
           Once(line'),
           \A k \in DOMAIN line' : \/ line'[k] = <<s, "model">> /\ model'[s].pc = "queued"
                                   \/ \E i \in DOMAIN line : line'[k] = line[i] /\ line[i] # <<s, "model">>
    PROVE  LineSound'
<1>1. ASSUME NEW k \in DOMAIN line', NEW turn, turn = line'[k] PROVE Waits(turn)'
  <2>1. CASE turn = <<s, "model">> /\ model'[s].pc = "queued"
    BY <2>1 DEF Waits
  <2>2. ASSUME NEW i \in DOMAIN line, turn = line[i], line[i] # <<s, "model">> PROVE Waits(turn)'
    <3>1. Waits(turn) /\ turn \in Turns
      BY <2>2 DEF LineSound, SnapTyped
    <3>2. Queued(turn[1])' = Queued(turn[1])
      BY DEF Queued
    <3>3. turn[2] = "model" => turn[1] \in Snapshots \ {s}
      BY <2>2, <3>1 DEF Turns
    <3> QED
      BY <3>1, <3>2, <3>3 DEF Waits
  <2> QED
    BY <1>1, <2>1, <2>2
<1> QED
  BY <1>1 DEF LineSound

\* The features are drawn, and the model is put in line.
LEMMA ExtractKeeps ==
    ASSUME SnapInv, NEW s \in Snapshots, Extract(s)
    PROVE  SnapInv'
<1>t. SnapTyped /\ LineSound /\ SnapSound(s) /\ Busy <= Threads
  BY DEF SnapInv
<1>1. /\ stage[s] = "collecting" /\ Pending(s) = {}
      /\ stage' = [stage EXCEPT ![s] = "asking"]
      /\ features' = [features EXCEPT ![s] = Populated(s)]
      /\ model' = [model EXCEPT ![s].pc = "queued"]
      /\ line' = Append(line, <<s, "model">>)
      /\ UNCHANGED <<labels, slot, call, verdict, intime>>
  BY DEF Extract
<1>2. /\ model'[s].pc = "queued" /\ stage'[s] = "asking" /\ features'[s] = Populated(s)
      /\ \A t \in Snapshots \ {s} : model'[t] = model[t] /\ stage'[t] = stage[t] /\ features'[t] = features[t]
  BY <1>t, <1>1 DEF SnapTyped
<1>3. \A k \in DOMAIN line : line[k] # <<s, "model">>
  <2> SUFFICES ASSUME NEW k \in DOMAIN line, line[k] = <<s, "model">> PROVE FALSE
    OBVIOUS
  <2>1. model[s].pc = "queued"
    BY <1>t DEF LineSound, Waits
  <2> QED
    BY <1>t, <1>1, <2>1 DEF SnapSound
<1>4. /\ line' \in Seq(Turns) /\ Once(line')
      /\ \A j \in DOMAIN line' : line'[j] = <<s, "model">> \/ \E i \in DOMAIN line : line'[j] = line[i]
  <2>1. <<s, "model">> \in Turns /\ line \in Seq(Turns) /\ Once(line)
    BY <1>t DEF Turns, SnapTyped, LineSound
  <2> QED
    BY <1>1, <1>3, <2>1, TurnAdded
<1>5. SnapTyped'
  <2>1. Populated(s) \in SUBSET DOMAIN FeatureTable
    BY DEF Populated, FeatureTable, ZeroWithout
  <2> QED
    BY <1>t, <1>1, <1>4, <2>1 DEF SnapTyped
<1>6. SnapSound(s)'
  <2>1. \A l : Has(s, l)' <=> Has(s, l)
    BY <1>1 DEF Has
  <2>2. Populated(s)' = Populated(s) /\ Pending(s)' = Pending(s)
    BY <1>1, <2>1 DEF Populated, Pending
  <2> QED
    BY <1>t, <1>1, <1>2, <2>2 DEF SnapSound
<1>7. \A t \in Snapshots : SnapSound(t)'
  <2> SUFFICES ASSUME NEW t \in Snapshots, t # s PROVE SnapSound(t)'
    BY <1>6
  <2>1. SnapSound(t)
    BY DEF SnapInv
  <2> QED
    BY <1>1, <1>2, <2>1, RestingStaysSound
<1>8. LineSound'
  BY <1>t, <1>1, <1>2, <1>3, <1>4, ModelTurns
<1>9. Busy' <= Threads
  <2>1. Running' = Running /\ Modelling' \subseteq Modelling
    BY <1>1, <1>2 DEF Running, Modelling
  <2> QED
    BY <1>t, <2>1, NoMoreBusy
<1> QED
  BY <1>5, <1>7, <1>8, <1>9 DEF SnapInv

\* The model answers, to nobody when the budget is over.
LEMMA ModelKeeps ==
    ASSUME SnapInv, NEW s \in Snapshots, NEW answer \in {"good", "unreadable", "fails"},
           ModelAnswers(s, answer)
    PROVE  SnapInv'
<1>t. SnapTyped /\ LineSound /\ SnapSound(s) /\ Busy <= Threads
  BY DEF SnapInv
<1>1. model[s].pc = "calling" /\ UNCHANGED <<labels, slot, call, line, features, intime>>
  BY DEF ModelAnswers
<1>2. \/ model' = [model EXCEPT ![s].tries = 1] /\ UNCHANGED <<stage, verdict>>
      \/ /\ model' = [model EXCEPT ![s].pc = "over"]
         /\ \/ /\ stage[s] = "asking" /\ stage' = [stage EXCEPT ![s] = "finished"]
               /\ verdict' = [verdict EXCEPT ![s] = IF answer = "good" THEN "opinion" ELSE "neutral"]
            \/ UNCHANGED <<stage, verdict>>
  BY DEF ModelAnswers
<1>3. /\ model' \in [Snapshots -> [pc : {"none", "queued", "calling", "over"}, tries : 0 .. 1]]
      /\ model'[s].pc \in {"calling", "over"}
      /\ \A t \in Snapshots \ {s} : model'[t] = model[t]
  <2>1. CASE model' = [model EXCEPT ![s].tries = 1]
    BY <1>t, <1>1, <2>1 DEF SnapTyped
  <2>2. CASE model' = [model EXCEPT ![s].pc = "over"]
    BY <1>t, <1>1, <2>2 DEF SnapTyped
  <2> QED
    BY <1>2, <2>1, <2>2
<1>4. /\ stage' \in [Snapshots -> {"new", "collecting", "asking", "finished", "failed"}]
      /\ verdict' \in [Snapshots -> {"none", "opinion", "neutral"}]
      /\ stage'[s] = stage[s] \/ (stage[s] = "asking" /\ stage'[s] = "finished")
      /\ \A t \in Snapshots \ {s} : stage'[t] = stage[t]
  BY <1>t, <1>2 DEF SnapTyped
<1>5. SnapTyped'
  BY <1>t, <1>1, <1>3, <1>4 DEF SnapTyped
<1>6. SnapSound(s)'
  <2>1. \A l : Has(s, l)' <=> Has(s, l)
    BY <1>1 DEF Has
  <2>2. Populated(s)' = Populated(s) /\ Pending(s)' = Pending(s) /\ Queued(s)' = Queued(s)
    BY <1>1, <2>1 DEF Populated, Pending, Queued
  <2>3. stage'[s] \in {"new", "collecting"} <=> stage[s] \in {"new", "collecting"}
    BY <1>4
  <2>4. stage'[s] = "new" => stage[s] = "new"
    BY <1>4
  <2> QED
    BY <1>t, <1>1, <1>3, <2>2, <2>3, <2>4 DEF SnapSound
<1>7. \A t \in Snapshots : SnapSound(t)'
  <2> SUFFICES ASSUME NEW t \in Snapshots, t # s PROVE SnapSound(t)'
    BY <1>6
  <2>1. SnapSound(t)
    BY DEF SnapInv
  <2> QED
    BY <1>1, <1>3, <1>4, <2>1, RestingStaysSound
<1>8. LineSound'
  <2>1. \A i \in DOMAIN line : line[i] # <<s, "model">>
    BY <1>t, <1>1 DEF LineSound, Waits
  <2>2. Once(line')
    BY <1>t, <1>1 DEF LineSound
  <2> QED
    BY <1>t, <1>1, <1>3, <2>1, <2>2, ModelTurns
<1>9. Busy' <= Threads
  <2>1. Running' = Running /\ Modelling' \subseteq Modelling
    BY <1>1, <1>3 DEF Running, Modelling
  <2> QED
    BY <1>t, <2>1, NoMoreBusy
<1> QED
  BY <1>5, <1>7, <1>8, <1>9 DEF SnapInv

\* The budget is over: the run waits no longer.
LEMMA BudgetKeeps ==
    ASSUME SnapInv, NEW s \in Snapshots, BudgetOver(s)
    PROVE  SnapInv'
<1>t. SnapTyped /\ LineSound /\ SnapSound(s) /\ Busy <= Threads
  BY DEF SnapInv
<1>1. /\ stage[s] = "asking" /\ stage' = [stage EXCEPT ![s] = "failed"]
      /\ Leaves(<<s, "model">>)
      /\ model' = [model EXCEPT ![s].pc = IF model[s].pc = "queued" THEN "over" ELSE model[s].pc]
      /\ UNCHANGED <<labels, slot, call, features, verdict, intime>>
  BY DEF BudgetOver
<1>2. /\ model' \in [Snapshots -> [pc : {"none", "queued", "calling", "over"}, tries : 0 .. 1]]
      /\ model'[s].pc = IF model[s].pc = "queued" THEN "over" ELSE model[s].pc
      /\ \A t \in Snapshots \ {s} : model'[t] = model[t]
  BY <1>t, <1>1 DEF SnapTyped
<1>3. /\ stage' \in [Snapshots -> {"new", "collecting", "asking", "finished", "failed"}]
      /\ stage'[s] = "failed" /\ \A t \in Snapshots \ {s} : stage'[t] = stage[t]
  BY <1>t, <1>1 DEF SnapTyped
<1>4. /\ line' \in Seq(Turns) /\ Once(line')
      /\ \A k \in DOMAIN line' : line'[k] # <<s, "model">> /\ \E i \in DOMAIN line : line'[k] = line[i]
  <2>1. <<s, "model">> \in Turns
    BY DEF Turns
  <2> QED
    BY <1>t, <1>1, <2>1, LeavesOthers
<1>5. SnapTyped'
  BY <1>t, <1>1, <1>2, <1>3, <1>4 DEF SnapTyped
<1>6. SnapSound(s)'
  <2>1. \A l : Has(s, l)' <=> Has(s, l)
    BY <1>1 DEF Has
  <2>2. Populated(s)' = Populated(s) /\ Pending(s)' = Pending(s) /\ Queued(s)' = Queued(s)
    BY <1>1, <2>1 DEF Populated, Pending, Queued
  <2>3. model'[s].pc # "queued"
    BY <1>2
  <2> QED
    BY <1>t, <1>1, <1>3, <2>2, <2>3 DEF SnapSound
<1>7. \A t \in Snapshots : SnapSound(t)'
  <2> SUFFICES ASSUME NEW t \in Snapshots, t # s PROVE SnapSound(t)'
    BY <1>6
  <2>1. SnapSound(t)
    BY DEF SnapInv
  <2> QED
    BY <1>1, <1>2, <1>3, <2>1, RestingStaysSound
<1>8. LineSound'
  BY <1>t, <1>1, <1>2, <1>4, ModelTurns
<1>9. Busy' <= Threads
  <2>1. Running' = Running /\ Modelling' \subseteq Modelling
    BY <1>1, <1>2 DEF Running, Modelling
  <2> QED
    BY <1>t, <2>1, NoMoreBusy
<1> QED
  BY <1>5, <1>7, <1>8, <1>9 DEF SnapInv

\* The line without its first turn.
LEMMA FirstLeaves ==
    ASSUME SnapTyped, LineSound, line # <<>>, line' = Tail(line)
    PROVE  /\ line' \in Seq(Turns) /\ Once(line')
           /\ \A k \in DOMAIN line' : line'[k] # Head(line) /\ \E i \in DOMAIN line : line'[k] = line[i]
<1>1. line \in Seq(Turns) /\ Once(line)
  BY DEF SnapTyped, LineSound
<1>2. Head(line) = line[1] /\ 1 \in 1 .. Len(line)
  BY <1>1
<1>3. line' \in Seq(Turns) /\ Len(line') = Len(line) - 1 /\ Len(line) \in Nat
  BY <1>1
<1>4. \A j \in 1 .. (Len(line) - 1) : line'[j] = line[j + 1]
  BY <1>1
<1>5. PICK first \in 1 .. Len(line) : first = 1
  BY <1>2
<1>6. IsWithout(line', line, first)
  BY <1>3, <1>4, <1>5 DEF IsWithout
<1>7. /\ Once(line')
      /\ \A k \in DOMAIN line' : line'[k] # line[first] /\ \E i \in DOMAIN line : line'[k] = line[i]
  BY <1>3, <1>5, <1>6, LineWithout
<1> QED
  BY <1>2, <1>3, <1>5, <1>7

\* A thread takes the model of a snapshot.
LEMMA TakesModel ==
    ASSUME SnapInv, line # <<>>, Busy < Threads, NEW s \in Snapshots, Head(line) = <<s, "model">>,
           model[s].pc = "queued", model' = [model EXCEPT ![s].pc = "calling"], line' = Tail(line),
           UNCHANGED <<labels, stage, slot, call, features, verdict, intime>>
    PROVE  SnapInv'
<1>t. SnapTyped /\ LineSound /\ SnapSound(s) /\ Busy <= Threads
  BY DEF SnapInv
<1>1. /\ model' \in [Snapshots -> [pc : {"none", "queued", "calling", "over"}, tries : 0 .. 1]]
      /\ model'[s].pc = "calling" /\ \A t \in Snapshots \ {s} : model'[t] = model[t]
  BY <1>t DEF SnapTyped
<1>2. /\ line' \in Seq(Turns) /\ Once(line')
      /\ \A k \in DOMAIN line' : line'[k] # <<s, "model">> /\ \E i \in DOMAIN line : line'[k] = line[i]
  BY <1>t, FirstLeaves
<1>3. SnapTyped'
  BY <1>t, <1>1, <1>2 DEF SnapTyped
<1>4. SnapSound(s)'
  <2>1. \A l : Has(s, l)' <=> Has(s, l)
    BY DEF Has
  <2>2. Populated(s)' = Populated(s) /\ Pending(s)' = Pending(s) /\ Queued(s)' = Queued(s)
    BY <2>1 DEF Populated, Pending, Queued
  <2> QED
    BY <1>t, <1>1, <2>2 DEF SnapSound
<1>5. \A t \in Snapshots : SnapSound(t)'
  <2> SUFFICES ASSUME NEW t \in Snapshots, t # s PROVE SnapSound(t)'
    BY <1>4
  <2>1. SnapSound(t)
    BY DEF SnapInv
  <2> QED
    BY <1>1, <2>1, RestingStaysSound
<1>6. LineSound'
  BY <1>t, <1>1, <1>2, ModelTurns
<1>7. Busy' <= Threads
  <2>1. /\ IsFiniteSet(Running) /\ Cardinality(Running) \in Nat
        /\ IsFiniteSet(Modelling) /\ Cardinality(Modelling) \in Nat
    BY <1>t, FewCalls
  <2>2. Modelling' = Modelling \cup {s}
    BY <1>1 DEF Modelling
  <2>3. Running' = Running
    BY DEF Running
  <2>4. Cardinality(Modelling') \in Nat /\ Cardinality(Modelling') <= Cardinality(Modelling) + 1
    <3>1. Cardinality(Modelling \cup {s}) =
             IF s \in Modelling THEN Cardinality(Modelling) ELSE Cardinality(Modelling) + 1
      BY <2>1, FS_AddElement
    <3> QED
      BY <2>1, <2>2, <3>1
  <2>5. Busy = Cardinality(Running) + Cardinality(Modelling) /\ Threads \in Nat
    BY SnapshotAssumption DEF Busy
  <2>6. Busy' = Cardinality(Running') + Cardinality(Modelling')
    BY DEF Busy
  <2> QED
    BY <2>1, <2>3, <2>4, <2>5, <2>6
<1> QED
  BY <1>3, <1>5, <1>6, <1>7 DEF SnapInv

\* A thread takes a call of a source.
LEMMA TakesSource ==
    ASSUME SnapInv, line # <<>>, Busy < Threads, NEW s \in Snapshots, Head(line) = <<s, "sources">>,
           NEW l \in Queued(s), NEW c \in CallStates, c.pc = "calling", call' = [call EXCEPT ![s][l] = c],
           line' = IF Queued(s) = {l} THEN Tail(line) ELSE line,
           UNCHANGED <<labels, stage, slot, model, features, verdict, intime>>
    PROVE  SnapInv'
<1>t. SnapTyped /\ LineSound /\ SnapSound(s) /\ Busy <= Threads
  BY DEF SnapInv
<1>0. l \in labels /\ call[s][l].pc = "queued"
  BY DEF Queued
<1>1. /\ call' \in [Snapshots -> [labels -> CallStates]] /\ call'[s][l].pc = "calling"
      /\ \A m \in labels \ {l} : call'[s][m] = call[s][m]
      /\ \A t \in Snapshots \ {s} : call'[t] = call[t]
  BY <1>t, <1>0, CallSet
<1>2. /\ line' \in Seq(Turns) /\ Once(line')
      /\ \A k \in DOMAIN line' : \E i \in DOMAIN line : line'[k] = line[i]
      /\ Queued(s) = {l} => \A k \in DOMAIN line' : line'[k] # <<s, "sources">>
  <2>1. CASE Queued(s) = {l}
    BY <1>t, <2>1, FirstLeaves
  <2>2. CASE Queued(s) # {l}
    BY <1>t, <2>2 DEF SnapTyped, LineSound
  <2> QED
    BY <2>1, <2>2
<1>3. SnapTyped'
  BY <1>t, <1>1, <1>2 DEF SnapTyped
<1>4. Queued(s)' = Queued(s) \ {l}
  BY <1>0, <1>1 DEF Queued
<1>5. SnapSound(s)'
  <2>1. \A m : Has(s, m)' <=> Has(s, m)
    BY DEF Has
  <2>2. Populated(s)' = Populated(s) /\ Pending(s)' = Pending(s)
    BY <2>1 DEF Populated, Pending
  <2>3. \A m \in labels : call'[s][m].pc = "queued" => slot[s][m] = "pending"
    BY <1>t, <1>1 DEF SnapSound
  <2> QED
    BY <1>t, <1>4, <2>2, <2>3 DEF SnapSound
<1>6. \A t \in Snapshots : SnapSound(t)'
  <2> SUFFICES ASSUME NEW t \in Snapshots, t # s PROVE SnapSound(t)'
    BY <1>5
  <2>1. SnapSound(t)
    BY DEF SnapInv
  <2> QED
    BY <1>1, <2>1, RestingStaysSound
<1>7. LineSound'
  <2>1. ASSUME NEW k \in DOMAIN line', NEW turn, turn = line'[k] PROVE Waits(turn)'
    <3>1. Waits(turn) /\ turn \in Turns
      BY <1>t, <1>2, <2>1 DEF LineSound, SnapTyped
    <3>2. CASE turn[2] = "model"
      BY <3>1, <3>2 DEF Waits
    <3>3. CASE turn[2] # "model" /\ turn[1] # s
      <4>1. Queued(turn[1])' = Queued(turn[1])
        BY <1>1, <3>1, <3>3 DEF Turns, Queued
      <4> QED
        BY <3>1, <3>3, <4>1 DEF Waits
    <3>4. CASE turn[2] # "model" /\ turn[1] = s
      <4>1. turn = <<s, "sources">>
        BY <3>1, <3>4 DEF Turns
      <4>2. Queued(s)' # {}
        BY <1>2, <1>4, <2>1, <4>1
      <4> QED
        BY <4>1, <4>2 DEF Waits
    <3> QED
      BY <3>2, <3>3, <3>4
  <2> QED
    BY <1>2, <2>1 DEF LineSound
<1>8. Busy' <= Threads
  <2>1. /\ IsFiniteSet(Running) /\ Cardinality(Running) \in Nat
        /\ IsFiniteSet(Modelling) /\ Cardinality(Modelling) \in Nat
    BY <1>t, FewCalls
  <2>2. Running' = Running \cup {<<s, l>>}
    <3>1. \A t \in Snapshots, m \in labels :
             call'[t][m].pc = "calling" <=> call[t][m].pc = "calling" \/ (t = s /\ m = l)
      BY <1>1
    <3> QED
      BY <1>0, <3>1 DEF Running
  <2>3. Modelling' = Modelling
    BY DEF Modelling
  <2>4. Cardinality(Running') \in Nat /\ Cardinality(Running') <= Cardinality(Running) + 1
    <3>1. Cardinality(Running \cup {<<s, l>>}) =
             IF <<s, l>> \in Running THEN Cardinality(Running) ELSE Cardinality(Running) + 1
      BY <2>1, FS_AddElement
    <3> QED
      BY <2>1, <2>2, <3>1
  <2>5. Busy = Cardinality(Running) + Cardinality(Modelling) /\ Threads \in Nat
    BY SnapshotAssumption DEF Busy
  <2>6. Busy' = Cardinality(Running') + Cardinality(Modelling')
    BY DEF Busy
  <2> QED
    BY <2>1, <2>3, <2>4, <2>5, <2>6
<1> QED
  BY <1>3, <1>6, <1>7, <1>8 DEF SnapInv

\* A thread takes the first of the line.
LEMMA TakeKeeps == SnapInv /\ TakeFromLine => SnapInv'
<1> SUFFICES ASSUME SnapInv, TakeFromLine PROVE SnapInv'
  OBVIOUS
<1>1. /\ line # <<>> /\ Busy < Threads /\ TakeTurn(Head(line))
      /\ UNCHANGED <<labels, stage, slot, features, verdict, intime>>
  BY DEF TakeFromLine
<1>2. line \in Seq(Turns)
  BY DEF SnapInv, SnapTyped
<1>3. Head(line) \in Turns /\ Head(line) = line[1] /\ 1 \in DOMAIN line
  BY <1>1, <1>2
<1>4. Waits(Head(line))
  BY <1>3 DEF SnapInv, LineSound
<1>5. PICK s \in Snapshots, kind \in {"sources", "model"} : Head(line) = <<s, kind>>
  BY <1>3 DEF Turns
<1>6. CASE kind = "model"
  <2>1. model' = [model EXCEPT ![s].pc = "calling"] /\ line' = Tail(line) /\ UNCHANGED call
    BY <1>1, <1>5, <1>6 DEF TakeTurn
  <2>2. model[s].pc = "queued"
    BY <1>4, <1>5, <1>6 DEF Waits
  <2> QED
    BY <1>1, <1>5, <1>6, <2>1, <2>2, TakesModel
<1>7. CASE kind = "sources"
  <2>1. PICK i \in DOMAIN InOrder :
           /\ InOrder[i] \in Queued(s)
           /\ call' = [call EXCEPT ![s][InOrder[i]].pc = "calling"]
           /\ line' = IF Queued(s) = {InOrder[i]} THEN Tail(line) ELSE line
           /\ UNCHANGED model
    <3>1. Head(line)[1] = s /\ Head(line)[2] # "model"
      BY <1>5, <1>7
    <3> QED
      BY <1>1, <3>1 DEF TakeTurn
  <2>2. PICK l \in Queued(s) : l = InOrder[i]
    BY <2>1
  <2>3. PICK c \in CallStates : c.pc = "calling" /\ c = [call[s][l] EXCEPT !.pc = "calling"]
    <3>1. call[s][l] \in CallStates
      BY DEF SnapInv, SnapTyped, Queued
    <3>2. [call[s][l] EXCEPT !.pc = "calling"] \in CallStates
      BY <3>1 DEF CallStates
    <3>3. [call[s][l] EXCEPT !.pc = "calling"].pc = "calling"
      BY <3>1 DEF CallStates
    <3> QED
      BY <3>2, <3>3
  <2>4. call' = [call EXCEPT ![s][l] = c]
    BY <2>1, <2>2, <2>3
  <2>5. line' = IF Queued(s) = {l} THEN Tail(line) ELSE line
    BY <2>1, <2>2
  <2> QED
    BY <1>1, <1>5, <1>7, <2>1, <2>2, <2>3, <2>4, <2>5, TakesSource
<1> QED
  BY <1>6, <1>7

\* Every step of the snapshots keeps the invariant.
LEMMA SnapStep == SnapInv /\ [SnapNext]_snapVars => SnapInv'
<1> SUFFICES ASSUME SnapInv, [SnapNext]_snapVars PROVE SnapInv'
  OBVIOUS
<1>1. ASSUME NEW s \in Snapshots, NEW day \in Days, NEW hour \in Hours, BeginSnapshot(s, day, hour)
      PROVE  SnapInv'
  BY <1>1, BeginKeeps
<1>2. ASSUME NEW s \in Snapshots, Outside(s) PROVE SnapInv'
  <2>1. ASSUME NEW l \in labels, \/ \E answer \in {"rows", "empty", "fails"} : SourceAnswers(s, l, answer)
                                 \/ \E result \in {"unsupported", "frame"} : SourceAnswersAtOnce(s, l, result)
        PROVE  SnapInv'
    BY <2>1, AnswersKeep
  <2>2. ASSUME NEW answer \in {"good", "unreadable", "fails"}, ModelAnswers(s, answer) PROVE SnapInv'
    BY <2>2, ModelKeeps
  <2> QED
    BY <1>2, <2>1, <2>2 DEF Outside
<1>3. ASSUME NEW s \in Snapshots, LoopStep(s) PROVE SnapInv'
  BY <1>3, TimeOutKeeps, ExtractKeeps, BudgetKeeps DEF LoopStep
<1>4. CASE UNCHANGED snapVars
  <2>1. UNCHANGED <<labels, stage, slot, call, model, line, features, verdict, intime>>
    BY <1>4 DEF snapVars
  <2>2. SnapTyped' /\ Busy' <= Threads
    BY <2>1, NoMoreBusy DEF SnapInv, SnapTyped, Running, Modelling
  <2>3. \A s \in Snapshots : SnapSound(s)'
    BY <2>1, RestingStaysSound DEF SnapInv
  <2>4. LineSound'
    BY <2>1 DEF SnapInv, LineSound, Waits, Queued
  <2> QED
    BY <2>2, <2>3, <2>4 DEF SnapInv
<1> QED
  BY <1>1, <1>2, <1>3, <1>4, TakeKeeps DEF SnapNext

\* Along every behaviour of the snapshots the invariant holds.
LEMMA SnapAlways == SnapInit /\ [][SnapNext]_snapVars => []SnapInv
  BY SnapStart, SnapStep, PTL

\* The invariant types every variable.
LEMMA SnapInvTyped == SnapInv => SnapTypeOK
BY DEF SnapInv, SnapTyped, SnapTypeOK, SlotStates, CallStates, Turns

\* What the invariant says founds the verdicts.
LEMMA SnapInvFounded == SnapInv => SnapshotFounded
<1> SUFFICES ASSUME SnapInv PROVE SnapshotFounded
  OBVIOUS
<1>1. ASSUME NEW s \in Snapshots, NEW f \in features[s] \ ZeroWithout
      PROVE  \E of \in FeatureTable[f] : of \subseteq intime[s]
  <2>1. SnapSound(s)
    BY DEF SnapInv
  <2>2. features[s] = Populated(s)
    BY <2>1 DEF SnapSound
  <2>3. PICK of \in FeatureTable[f] : \A l \in of : Has(s, l)
    BY <2>2 DEF Populated
  <2>4. \A l \in of : l \in intime[s]
    BY <2>1, <2>3 DEF SnapSound, Has
  <2> QED
    BY <2>4
<1>2. ASSUME NEW s \in Snapshots
      PROVE  /\ stage[s] \notin {"new", "collecting"} => features[s] = Populated(s) /\ Pending(s) = {}
             /\ \A l \in Queued(s) : slot[s][l] = "pending"
             /\ model[s].pc = "queued" => stage[s] = "asking"
  BY DEF SnapInv, SnapSound, Queued
<1>3. ASSUME NEW s \in Snapshots PROVE Complete(s) <= Eligible(s)
  <2> DEFINE C == {l \in labels : slot[s][l] \in {"ok", "bare"}}
             E == {l \in labels : slot[s][l] # "skipped"}
  <2>1. IsFiniteSet(labels)
    BY FewCalls DEF SnapInv
  <2>2. C \in SUBSET E /\ E \in SUBSET labels
    OBVIOUS
  <2> HIDE DEF C, E
  <2>3. Cardinality(C) <= Cardinality(E)
    BY <2>1, <2>2, FS_Subset
  <2> QED
    BY <2>3 DEF Complete, Eligible, C, E
<1>4. \A k \in DOMAIN line : Waits(line[k])
  BY DEF SnapInv, LineSound
<1> QED
  BY <1>1, <1>2, <1>3, <1>4 DEF SnapshotFounded

\* Every variable of the snapshots keeps its type, and no more calls run than there are
\* threads, those that nobody waits for included.
THEOREM SnapTypeCorrect == SnapSpec => []SnapTypeOK
  BY SnapInvTyped, SnapAlways, PTL DEF SnapSpec

\* Whatever sources, threads, days and hours there are, and whatever is late or fails: the
\* features a verdict rests on were read from rows that came in time, the snapshot that is
\* kept is the one they were read from, and nothing is in line that nobody waits for.
THEOREM SnapshotsAreFounded == SnapSpec => []SnapshotFounded
  BY SnapInvFounded, SnapAlways, PTL DEF SnapSpec

-----------------------------------------------------------------------------
(* The data pool of an analysis.                                           *)

CallAnswers == {"rows", "empty", "fails"}

\* What the methods of the providers have in common: rows are never thrown away for an
\* error, an error does not count as rows, and a method ends in text without an empty
\* answer only where it is known to.
Formed(m) ==
    /\ DOMAIN m.sources = 1 .. Len(m.sources) /\ Len(m.sources) \in 0 .. 6
    /\ Len(m.sources) = 0 <=> m.sources = <<>>
    /\ m.spent \in {"raises", "text", "frame"}
    /\ \A i \in DOMAIN m.sources :
          /\ m.sources[i]["rows"] \in {"rows", "keep", "skip", "next"}
          /\ m.sources[i]["empty"] \in {"text", "frame", "next", "raises"}
          /\ m.sources[i]["fails"] \in {"text", "frame", "next", "raises"}
KeepsRows(m) ==
    \A i, j \in DOMAIN m.sources :
          /\ m.sources[i]["rows"] = "rows" => m.sources[j]["rows"] # "keep"
          /\ i < j /\ m.sources[i]["rows"] \in {"keep", "skip"} =>
                m.sources[j]["empty"] # "raises" /\ m.sources[j]["fails"] # "raises"
TellsFailures(m) ==
    /\ \A i \in DOMAIN m.sources : m.sources[i]["fails"] \in {"next", "raises"}
    /\ m.spent \in {"text", "frame"} => \A i \in DOMAIN m.sources :
          /\ m.sources[i]["rows"] # "skip"
          /\ i = Len(m.sources) => m.sources[i]["rows"] = "rows" /\ m.sources[i]["fails"] = "raises"
Shape(m, swallows) == Formed(m) /\ KeepsRows(m) /\ (~swallows => TellsFailures(m))

\* A method that is offered asks a source, or has its answer.
Offered(m, swallows) == Shape(m, swallows) /\ (m.sources = <<>> => m.spent # "raises")

\* What is said of a table that is turned into text.
LEMMA MarkdownShape ==
    ASSUME NEW m, NEW b \in BOOLEAN, Shape(m, b)
    PROVE  /\ Shape(Markdown(m), b)
           /\ Markdown(m).sources = <<>> <=> m.sources = <<>>
           /\ Markdown(m).spent = "raises" <=> m.spent = "raises"
<1> DEFINE q == [i \in DOMAIN m.sources |-> [answer \in CallAnswers |-> Said(m.sources[i][answer])]]
<1>1. Markdown(m).sources = q /\ Markdown(m).spent = Said(m.spent)
  BY DEF Markdown, Method, CallAnswers
<1>2. DOMAIN m.sources = 1 .. Len(m.sources) /\ Len(m.sources) \in 0 .. 6
  BY DEF Shape, Formed
<1>8. m.spent \in {"raises", "text", "frame"}
  BY DEF Shape, Formed
<1>3. DOMAIN q = 1 .. Len(m.sources)
  BY <1>2
<1>4. Len(q) = Len(m.sources)
  BY <1>2, <1>3
<1>5. \A i \in DOMAIN m.sources : \A answer \in CallAnswers : q[i][answer] = Said(m.sources[i][answer])
  OBVIOUS
<1>6. \A r : Said(r) = IF r = "frame" THEN "text" ELSE r
  BY DEF Said
<1>0. Len(q) = 0 <=> q = <<>>
  <2>1. CASE Len(m.sources) = 0
    <3>1. DOMAIN m.sources = {}
      BY <1>2, <2>1
    <3>2. q = <<>>
      BY <3>1
    <3> QED
      BY <1>4, <2>1, <3>2
  <2>2. CASE Len(m.sources) # 0
    BY <1>4, <2>2
  <2> QED
    BY <2>1, <2>2
<1> HIDE DEF q
<1>7. Shape(Markdown(m), b)
  <2> DEFINE w == Markdown(m)
  <2>1. w.sources = q /\ w.spent = Said(m.spent)
    BY <1>1
  <2> HIDE DEF w
  <2>2. \A i \in DOMAIN w.sources :
          /\ w.sources[i]["rows"] = Said(m.sources[i]["rows"])
          /\ w.sources[i]["empty"] = Said(m.sources[i]["empty"])
          /\ w.sources[i]["fails"] = Said(m.sources[i]["fails"])
    BY <1>2, <1>3, <1>5, <2>1 DEF CallAnswers
  <2>3. DOMAIN w.sources = DOMAIN m.sources /\ Len(w.sources) = Len(m.sources)
    BY <1>2, <1>3, <1>4, <2>1
  <2>4. \A i \in DOMAIN w.sources :
          /\ w.sources[i]["rows"] \in {"rows", "keep", "skip", "next"}
          /\ w.sources[i]["rows"] = m.sources[i]["rows"]
          /\ w.sources[i]["empty"] \in {"text", "frame", "next", "raises"}
          /\ w.sources[i]["empty"] = "raises" <=> m.sources[i]["empty"] = "raises"
          /\ w.sources[i]["fails"] \in {"text", "frame", "next", "raises"}
          /\ w.sources[i]["fails"] = "raises" <=> m.sources[i]["fails"] = "raises"
          /\ w.sources[i]["fails"] = "next" <=> m.sources[i]["fails"] = "next"
    BY <1>6, <2>2, <2>3 DEF Shape, Formed
  <2>5. w.spent \in {"raises", "text", "frame"} /\ (w.spent = "raises" <=> m.spent = "raises")
    BY <1>6, <1>8, <2>1
  <2>6. Formed(w)
    BY <1>0, <1>2, <1>4, <2>1, <2>3, <2>4, <2>5 DEF Formed
  <2>7. KeepsRows(w)
    BY <2>3, <2>4 DEF Shape, KeepsRows
  <2>8. TellsFailures(m) => TellsFailures(w)
    BY <2>3, <2>4, <2>5, <1>8 DEF TellsFailures
  <2> QED
    BY <2>6, <2>7, <2>8 DEF w, Shape
<1>9. Len(m.sources) = 0 <=> m.sources = <<>>
  BY DEF Shape, Formed
<1> QED
  BY <1>0, <1>1, <1>2, <1>4, <1>6, <1>7, <1>8, <1>9

\* A method of one source.
LEMMA OneSource ==
    ASSUME NEW s, NEW spent, NEW b \in BOOLEAN,
           spent \in {"raises", "text", "frame"},
           s["rows"] = "rows", s["empty"] \in {"text", "frame", "next", "raises"},
           s["fails"] \in {"text", "frame", "next", "raises"},
           ~b => s["fails"] = "raises"
    PROVE  Shape(Method(<<s>>, spent), b)
<1>1. Method(<<s>>, spent).sources = <<s>> /\ Method(<<s>>, spent).spent = spent
  BY DEF Method
<1> QED
  BY <1>1 DEF Shape, Formed, KeepsRows, TellsFailures

\* A method of several sources alike.
MayRepeat(s, n, spent, b) ==
    /\ n \in 1 .. 6 /\ b \in BOOLEAN /\ spent \in {"raises", "text", "frame"}
    /\ s["rows"] = "rows" /\ s["empty"] \in {"text", "frame", "next", "raises"}
    /\ s["fails"] \in {"text", "frame", "next", "raises"}
    /\ ~b => s["fails"] \in {"next", "raises"} /\ (s["fails"] = "raises" \/ spent = "raises")

\* A method of several sources alike has that shape.
LEMMA Alike ==
    ASSUME NEW s, NEW spent, NEW b, NEW n, MayRepeat(s, n, spent, b)
    PROVE  Shape(Method([i \in 1 .. n |-> s], spent), b)
<1>0. /\ n \in 1 .. 6 /\ b \in BOOLEAN /\ spent \in {"raises", "text", "frame"}
      /\ s["rows"] = "rows" /\ s["empty"] \in {"text", "frame", "next", "raises"}
      /\ s["fails"] \in {"text", "frame", "next", "raises"}
      /\ ~b => s["fails"] \in {"next", "raises"} /\ (s["fails"] = "raises" \/ spent = "raises")
  BY DEF MayRepeat
<1> DEFINE m == Method([i \in 1 .. n |-> s], spent)
<1>1. m.sources = [i \in 1 .. n |-> s] /\ m.spent = spent
  BY DEF Method
<1> HIDE DEF m
<1>2. Len(m.sources) = n /\ DOMAIN m.sources = 1 .. n /\ m.sources # <<>>
  BY <1>0, <1>1
<1>3. \A i \in DOMAIN m.sources : m.sources[i] = s
  BY <1>0, <1>1
<1>4. Formed(m)
  BY <1>0, <1>1, <1>2, <1>3 DEF Formed
<1>5. KeepsRows(m)
  BY <1>0, <1>3 DEF KeepsRows
<1>6. ~b => TellsFailures(m)
  BY <1>0, <1>1, <1>2, <1>3 DEF TellsFailures
<1> QED
  BY <1>4, <1>5, <1>6 DEF Shape, m

Kinds(s, a, t, n) == [i \in 1 .. a |-> s] \o [i \in 1 .. n |-> t]
AreKinds(q, s, a, t, n) ==
    /\ Len(q) = a + n /\ DOMAIN q = 1 .. a + n /\ q # <<>>
    /\ \A i \in 1 .. a + n : q[i] = IF i <= a THEN s ELSE t

\* Sources of one kind, then of another.
LEMMA Joined ==
    ASSUME NEW s, NEW t, NEW a \in 0 .. 2, NEW n \in 1 .. 4
    PROVE  AreKinds(Kinds(s, a, t, n), s, a, t, n)
<1> DEFINE q == Kinds(s, a, t, n)
           u == [i \in 1 .. a |-> s]
           w == [i \in 1 .. n |-> t]
<1>1. u \in Seq({s, t}) /\ Len(u) = a /\ (\A i \in 1 .. a : u[i] = s)
  OBVIOUS
<1>2. w \in Seq({s, t}) /\ Len(w) = n /\ (\A i \in 1 .. n : w[i] = t)
  OBVIOUS
<1>3. q = u \o w
  BY DEF Kinds
<1> HIDE DEF q, u, w
<1>4. Len(q) = a + n /\ q \in Seq({s, t})
  BY <1>1, <1>2, <1>3
<1>5. \A i \in 1 .. a + n : q[i] = IF i <= a THEN u[i] ELSE w[i - a]
  BY <1>1, <1>2, <1>3
<1>6. \A i \in 1 .. a + n : i <= a => i \in 1 .. a
  OBVIOUS
<1>7. \A i \in 1 .. a + n : ~(i <= a) => i - a \in 1 .. n
  OBVIOUS
<1>8. \A i \in 1 .. a + n : q[i] = IF i <= a THEN s ELSE t
  BY <1>1, <1>2, <1>5, <1>6, <1>7
<1>9. DOMAIN q = 1 .. a + n /\ q # <<>>
  BY <1>4
<1> QED
  BY <1>4, <1>8, <1>9 DEF q, AreKinds

\* A method whose sources are of two kinds.
MayJoin(s, a, t, n, spent, b) ==
    /\ a \in 0 .. 2 /\ n \in 1 .. 4 /\ b \in BOOLEAN /\ spent \in {"raises", "text", "frame"}
    /\ s["rows"] \in {"rows", "keep", "next"} /\ t["rows"] \in {"rows", "keep", "next"}
    /\ s["rows"] = "rows" => t["rows"] # "keep"
    /\ t["rows"] = "rows" => s["rows"] # "keep"
    /\ s["empty"] \in {"text", "frame", "next"} /\ t["empty"] \in {"text", "frame", "next"}
    /\ s["fails"] \in {"text", "frame", "next", "raises"} /\ t["fails"] \in {"text", "frame", "next"}
    /\ s["rows"] = "keep" => a = 1
    /\ ~b => s["fails"] \in {"next", "raises"} /\ t["fails"] = "next" /\ spent = "raises"

\* A method whose sources are of two kinds has that shape.
LEMMA TwoKinds ==
    ASSUME NEW s, NEW t, NEW a, NEW n, NEW spent, NEW b, MayJoin(s, a, t, n, spent, b)
    PROVE  Shape(Method(Kinds(s, a, t, n), spent), b) /\ Method(Kinds(s, a, t, n), spent).sources # <<>>
<1> DEFINE m == Method(Kinds(s, a, t, n), spent)
<1>0. /\ a \in 0 .. 2 /\ n \in 1 .. 4 /\ b \in BOOLEAN /\ spent \in {"raises", "text", "frame"}
      /\ s["rows"] \in {"rows", "keep", "next"} /\ t["rows"] \in {"rows", "keep", "next"}
      /\ s["rows"] = "rows" => t["rows"] # "keep"
      /\ t["rows"] = "rows" => s["rows"] # "keep"
      /\ s["empty"] \in {"text", "frame", "next"} /\ t["empty"] \in {"text", "frame", "next"}
      /\ s["fails"] \in {"text", "frame", "next", "raises"} /\ t["fails"] \in {"text", "frame", "next"}
      /\ s["rows"] = "keep" => a = 1
      /\ ~b => s["fails"] \in {"next", "raises"} /\ t["fails"] = "next" /\ spent = "raises"
  BY DEF MayJoin
<1>1. m.sources = Kinds(s, a, t, n) /\ m.spent = spent
  BY DEF Method
<1> HIDE DEF m
<1>2. /\ Len(m.sources) = a + n /\ DOMAIN m.sources = 1 .. a + n /\ m.sources # <<>>
      /\ \A i \in 1 .. a + n : m.sources[i] = IF i <= a THEN s ELSE t
  <2>1. AreKinds(Kinds(s, a, t, n), s, a, t, n)
    BY <1>0, Joined
  <2>2. AreKinds(m.sources, s, a, t, n)
    BY <1>0, <1>1, <2>1
  <2> QED
    BY <1>0, <2>2 DEF AreKinds
<1>3. a + n \in 1 .. 6
  BY <1>0
<1>7. s["rows"] \in {"rows", "keep", "skip", "next"} /\ t["rows"] \in {"rows", "keep", "skip", "next"}
  BY <1>0
<1>8. \A i \in DOMAIN m.sources : m.sources[i] \in {s, t}
  BY <1>0, <1>2
<1>4. Formed(m)
  <2>1. DOMAIN m.sources = 1 .. Len(m.sources) /\ Len(m.sources) \in 0 .. 6 /\ (Len(m.sources) = 0 <=> m.sources = <<>>)
    BY <1>2, <1>3
  <2> QED
    BY <1>0, <1>1, <1>7, <1>8, <2>1 DEF Formed
<1>5. KeepsRows(m)
  <2> SUFFICES ASSUME NEW i \in DOMAIN m.sources, NEW j \in DOMAIN m.sources
               PROVE  /\ m.sources[i]["rows"] = "rows" => m.sources[j]["rows"] # "keep"
                      /\ i < j /\ m.sources[i]["rows"] \in {"keep", "skip"} =>
                            m.sources[j]["empty"] # "raises" /\ m.sources[j]["fails"] # "raises"
    BY DEF KeepsRows
  <2>1. i \in 1 .. a + n /\ j \in 1 .. a + n
    BY <1>0, <1>2
  <2>2. (m.sources[i] = IF i <= a THEN s ELSE t) /\ (m.sources[j] = IF j <= a THEN s ELSE t)
    BY <1>2, <2>1
  <2>3. m.sources[i]["rows"] = "rows" => m.sources[j]["rows"] # "keep"
    BY <1>0, <2>2
  <2>4. i < j /\ j <= a /\ m.sources[i]["rows"] \in {"keep", "skip"} => FALSE
    BY <1>0, <2>1, <2>2
  <2>5. ~(j <= a) => m.sources[j]["empty"] # "raises" /\ m.sources[j]["fails"] # "raises"
    BY <1>0, <2>2
  <2> QED
    BY <1>0, <2>3, <2>4, <2>5
<1>6. ~b => TellsFailures(m)
  BY <1>0, <1>1, <1>2 DEF TellsFailures
<1> QED
  BY <1>2, <1>4, <1>5, <1>6 DEF Shape, m

\* A method of two sources, or of three.
Listed(m, n) ==
    /\ n \in 1 .. 3
    /\ Len(m.sources) = n /\ DOMAIN m.sources = 1 .. n /\ m.sources # <<>> /\ m.spent = "raises"
    /\ \A i \in 1 .. n :
          /\ m.sources[i]["rows"] \in {"rows", "keep", "skip"}
          /\ m.sources[i]["rows"] = "rows" => \A j \in 1 .. n : m.sources[j]["rows"] = "rows"
          /\ m.sources[i]["empty"] \in {"text", "frame", "next"}
          /\ m.sources[i]["fails"] = "next" \/ (i = n /\ n = 2 /\ m.sources[i]["fails"] = "raises")
          /\ n = 2 => m.sources[i]["rows"] = "rows"

\* A method of two sources, or of three, has that shape.
LEMMA OneByOne ==
    ASSUME NEW m, NEW b \in BOOLEAN, NEW n, Listed(m, n)
    PROVE  Shape(m, b)
<1>1. Formed(m)
  BY DEF Formed, Listed
<1>2. KeepsRows(m)
  BY DEF KeepsRows, Listed
<1>3. TellsFailures(m)
  BY DEF TellsFailures, Listed
<1> QED
  BY <1>1, <1>2, <1>3 DEF Shape

\* A method that is offered may be turned into text.
LEMMA MarkdownOffered ==
    ASSUME NEW m, NEW b \in BOOLEAN, Offered(m, b)
    PROVE  Offered(Markdown(m), b)
BY MarkdownShape DEF Offered

\* The methods that ask one source.
LEMMA SingleMethods ==
    /\ \A m \in {TsFundamentals, TsStatement, TsZtPool, AkNews, BsBars, YfBars, AvAny, OneCall} : Offered(m, FALSE)
    /\ \A m \in {AkBoardFlow, AkIndividualFlow, AkLhb, AkZtPool, AkHotStocks, YfStatement, YfNews, YfGlobalNews} :
          Offered(m, TRUE)
<1> DEFINE plain == Source("rows", "text", "raises")
           framed == Source("rows", "frame", "raises")
           told == Source("rows", "text", "text")
<1>1. /\ plain["rows"] = "rows" /\ plain["empty"] = "text" /\ plain["fails"] = "raises"
      /\ framed["rows"] = "rows" /\ framed["empty"] = "frame" /\ framed["fails"] = "raises"
      /\ told["rows"] = "rows" /\ told["empty"] = "text" /\ told["fails"] = "text"
  BY DEF Source
<1>2. /\ \A m \in {TsFundamentals, TsStatement, TsZtPool, AkNews, BsBars, YfBars, AvAny} : m = Method(<<plain>>, "raises")
      /\ OneCall = Method(<<framed>>, "raises")
      /\ \A m \in {AkBoardFlow, AkIndividualFlow, AkLhb, AkZtPool, AkHotStocks, YfStatement, YfNews, YfGlobalNews} :
            m = Method(<<told>>, "text")
  BY DEF TsFundamentals, TsStatement, TsZtPool, AkNews, BsBars, YfBars, AvAny, OneCall, AkBoardFlow,
         AkIndividualFlow, AkLhb, AkZtPool, AkHotStocks, YfStatement, YfNews, YfGlobalNews
<1> HIDE DEF plain, framed, told
<1>3. /\ Shape(Method(<<plain>>, "raises"), FALSE) /\ Shape(Method(<<framed>>, "raises"), FALSE)
      /\ Shape(Method(<<told>>, "text"), TRUE)
  <2>1. Shape(Method(<<plain>>, "raises"), FALSE)
    BY <1>1, OneSource
  <2>2. Shape(Method(<<framed>>, "raises"), FALSE)
    BY <1>1, OneSource
  <2>3. Shape(Method(<<told>>, "text"), TRUE)
    BY <1>1, OneSource
  <2> QED
    BY <2>1, <2>2, <2>3
<1>4. /\ Method(<<plain>>, "raises").sources # <<>> /\ Method(<<framed>>, "raises").sources # <<>>
      /\ Method(<<told>>, "text").sources # <<>>
  BY DEF Method
<1> QED
  BY <1>2, <1>3, <1>4 DEF Offered

\* The methods that ask several, and tell when a call failed.
LEMMA TushareSeveral ==
    /\ Offered(TsBarFrame, FALSE) /\ Offered(TsAuction, FALSE)
    /\ \A on : Offered(TsOrderqueue(on), FALSE) /\ Offered(TsFactor(on), FALSE)
<1>1. Offered(SwitchedOff, FALSE)
  <2>1. SwitchedOff.sources = <<>> /\ SwitchedOff.spent = "frame"
    BY DEF SwitchedOff, Method
  <2> QED
    BY <2>1 DEF Offered, Shape, Formed, KeepsRows, TellsFailures
<1>2. Offered(TsBarFrame, FALSE)
  <2> DEFINE s == Source("keep", "frame", "raises")
             t == Source("next", "next", "next")
  <2>1. /\ s["rows"] = "keep" /\ s["empty"] = "frame" /\ s["fails"] = "raises"
        /\ t["rows"] = "next" /\ t["empty"] = "next" /\ t["fails"] = "next"
    BY DEF Source
  <2>2. TsBarFrame = Method(<<s>> \o [i \in 1 .. 2 |-> t], "raises")
    BY DEF TsBarFrame
  <2> HIDE DEF s, t
  <2>3. <<s>> = [i \in 1 .. 1 |-> s]
    OBVIOUS
  <2>4. TsBarFrame = Method(Kinds(s, 1, t, 2), "raises")
    BY <2>2, <2>3 DEF Kinds
  <2>5. Shape(TsBarFrame, FALSE) /\ TsBarFrame.sources # <<>>
    <3>1. MayJoin(s, 1, t, 2, "raises", FALSE)
      BY <2>1 DEF MayJoin
    <3> QED
      BY <2>4, <3>1, TwoKinds
  <2> QED
    BY <2>5 DEF Offered
<1>3. Offered(TsAuction, FALSE)
  <2> DEFINE s == Source("rows", "frame", "next")
             t == Source("rows", "frame", "raises")
  <2>1. /\ s["rows"] = "rows" /\ s["empty"] = "frame" /\ s["fails"] = "next"
        /\ t["rows"] = "rows" /\ t["empty"] = "frame" /\ t["fails"] = "raises"
    BY DEF Source
  <2>2. TsAuction.sources = <<s, t>> /\ TsAuction.spent = "raises"
    BY DEF TsAuction, Method
  <2> HIDE DEF s, t
  <2>3. /\ Len(TsAuction.sources) = 2 /\ DOMAIN TsAuction.sources = 1 .. 2 /\ TsAuction.sources # <<>>
        /\ TsAuction.sources[1] = s /\ TsAuction.sources[2] = t
    BY <2>2
  <2>4. Shape(TsAuction, FALSE)
    <3>1. Listed(TsAuction, 2)
      BY <2>1, <2>2, <2>3 DEF Listed
    <3> QED
      BY <3>1, OneByOne
  <2> QED
    BY <2>3, <2>4 DEF Offered
<1>4. ASSUME NEW on PROVE Offered(TsOrderqueue(on), FALSE)
  <2> DEFINE s == Source("rows", "frame", "next")
             q == Method([i \in 1 .. 4 |-> s], "raises")
  <2>1. s["rows"] = "rows" /\ s["empty"] = "frame" /\ s["fails"] = "next"
    BY DEF Source
  <2>2. TsOrderqueue(on) = q \/ TsOrderqueue(on) = SwitchedOff
    BY DEF TsOrderqueue
  <2> HIDE DEF s
  <2>3. Shape(q, FALSE)
    <3>1. MayRepeat(s, 4, "raises", FALSE)
      BY <2>1 DEF MayRepeat
    <3> QED
      BY <3>1, Alike
  <2>4. q.sources # <<>>
    BY DEF Method
  <2> HIDE DEF q
  <2>5. Offered(q, FALSE)
    BY <2>3, <2>4 DEF Offered
  <2> QED
    BY <1>1, <2>2, <2>5
<1>5. ASSUME NEW on PROVE Offered(TsFactor(on), FALSE)
  BY <1>1, SingleMethods DEF TsFactor
<1> QED
  BY <1>2, <1>3, <1>4, <1>5

\* Those of AkShare.
LEMMA AkshareSeveral ==
    /\ Offered(AkFundamentals, FALSE) /\ Offered(AkStatement, FALSE) /\ Offered(AkInsider, FALSE)
    /\ Offered(AkGlobalNews, FALSE)
    /\ \A on : Offered(AkBars(on), FALSE)
<1>1. Offered(AkFundamentals, FALSE)
  <2> DEFINE s == Source("skip", "next", "next")
             t == Source("keep", "next", "next")
  <2>1. /\ s["rows"] = "skip" /\ s["empty"] = "next" /\ s["fails"] = "next"
        /\ t["rows"] = "keep" /\ t["empty"] = "next" /\ t["fails"] = "next"
    BY DEF Source
  <2>2. AkFundamentals.sources = <<s, t, t>> /\ AkFundamentals.spent = "raises"
    BY DEF AkFundamentals, Method
  <2> HIDE DEF s, t
  <2>3. /\ Len(AkFundamentals.sources) = 3 /\ DOMAIN AkFundamentals.sources = 1 .. 3
        /\ AkFundamentals.sources # <<>> /\ AkFundamentals.sources[1] = s
        /\ AkFundamentals.sources[2] = t /\ AkFundamentals.sources[3] = t
    BY <2>2
  <2>4. Shape(AkFundamentals, FALSE)
    <3>1. Listed(AkFundamentals, 3)
      BY <2>1, <2>2, <2>3 DEF Listed
    <3> QED
      BY <3>1, OneByOne
  <2> QED
    BY <2>3, <2>4 DEF Offered
<1>2. Offered(AkStatement, FALSE)
  <2> DEFINE s == Source("rows", "next", "next")
  <2>1. s["rows"] = "rows" /\ s["empty"] = "next" /\ s["fails"] = "next"
    BY DEF Source
  <2>2. AkStatement.sources = <<s, s>> /\ AkStatement.spent = "raises"
    BY DEF AkStatement, Method
  <2> HIDE DEF s
  <2>3. /\ Len(AkStatement.sources) = 2 /\ DOMAIN AkStatement.sources = 1 .. 2 /\ AkStatement.sources # <<>>
        /\ AkStatement.sources[1] = s /\ AkStatement.sources[2] = s
    BY <2>2
  <2>4. Shape(AkStatement, FALSE)
    <3>1. Listed(AkStatement, 2)
      BY <2>1, <2>2, <2>3 DEF Listed
    <3> QED
      BY <3>1, OneByOne
  <2> QED
    BY <2>3, <2>4 DEF Offered
<1>3. Offered(AkInsider, FALSE)
  <2> DEFINE s == Source("rows", "next", "next")
             t == Source("rows", "text", "next")
  <2>1. /\ s["rows"] = "rows" /\ s["empty"] = "next" /\ s["fails"] = "next"
        /\ t["rows"] = "rows" /\ t["empty"] = "text" /\ t["fails"] = "next"
    BY DEF Source
  <2>2. AkInsider.sources = <<s, t>> /\ AkInsider.spent = "raises"
    BY DEF AkInsider, Method
  <2> HIDE DEF s, t
  <2>3. /\ Len(AkInsider.sources) = 2 /\ DOMAIN AkInsider.sources = 1 .. 2 /\ AkInsider.sources # <<>>
        /\ AkInsider.sources[1] = s /\ AkInsider.sources[2] = t
    BY <2>2
  <2>4. Shape(AkInsider, FALSE)
    <3>1. Listed(AkInsider, 2)
      BY <2>1, <2>2, <2>3 DEF Listed
    <3> QED
      BY <3>1, OneByOne
  <2> QED
    BY <2>3, <2>4 DEF Offered
<1>4. Offered(AkGlobalNews, FALSE)
  <2> DEFINE s == Source("rows", "next", "raises")
  <2>1. s["rows"] = "rows" /\ s["empty"] = "next" /\ s["fails"] = "raises"
    BY DEF Source
  <2>2. AkGlobalNews = Method([i \in 1 .. 4 |-> s], "text")
    BY DEF AkGlobalNews
  <2> HIDE DEF s
  <2>3. Shape(Method([i \in 1 .. 4 |-> s], "text"), FALSE)
    <3>1. MayRepeat(s, 4, "text", FALSE)
      BY <2>1 DEF MayRepeat
    <3> QED
      BY <3>1, Alike
  <2>4. AkGlobalNews.sources # <<>>
    BY <2>2 DEF Method
  <2> QED
    BY <2>2, <2>3, <2>4 DEF Offered
<1>5. ASSUME NEW on PROVE Offered(AkBars(on), FALSE)
  <2> DEFINE s == Source("rows", "next", "next")
             t == Source("rows", "text", "next")
  <2>1. /\ s["rows"] = "rows" /\ s["empty"] = "next" /\ s["fails"] = "next"
        /\ t["rows"] = "rows" /\ t["empty"] = "text" /\ t["fails"] = "next"
    BY DEF Source
  <2>2. AkBars(on) = Method((IF "etf" \in on THEN [i \in 1 .. 2 |-> s] ELSE <<>>) \o [i \in 1 .. 4 |-> t], "raises")
    BY DEF AkBars
  <2> HIDE DEF s, t
  <2>3. <<>> = [i \in 1 .. 0 |-> s]
    OBVIOUS
  <2>4. AkBars(on) = Method(Kinds(s, 2, t, 4), "raises") \/ AkBars(on) = Method(Kinds(s, 0, t, 4), "raises")
    BY <2>2, <2>3 DEF Kinds
  <2>5. ASSUME NEW a \in {0, 2}, AkBars(on) = Method(Kinds(s, a, t, 4), "raises")
        PROVE  Shape(AkBars(on), FALSE) /\ AkBars(on).sources # <<>>
    <3>1. MayJoin(s, a, t, 4, "raises", FALSE)
      BY <2>1 DEF MayJoin
    <3> QED
      BY <2>5, <3>1, TwoKinds
  <2> QED
    BY <2>4, <2>5 DEF Offered
<1> QED
  BY <1>1, <1>2, <1>3, <1>4, <1>5

\* The methods that are known to pass off a failed call.
LEMMA SwallowingSeveral == Offered(TsTopList, TRUE) /\ Offered(TsBoardFlow, TRUE)
<1>1. Offered(TsTopList, TRUE)
  <2> DEFINE s == Source("next", "frame", "frame")
             t == Source("keep", "next", "next")
  <2>1. /\ s["rows"] = "next" /\ s["empty"] = "frame" /\ s["fails"] = "frame"
        /\ t["rows"] = "keep" /\ t["empty"] = "next" /\ t["fails"] = "next"
    BY DEF Source
  <2>2. TsTopList = Method(<<s>> \o [i \in 1 .. 2 |-> t], "frame")
    BY DEF TsTopList
  <2> HIDE DEF s, t
  <2>3. <<s>> = [i \in 1 .. 1 |-> s]
    OBVIOUS
  <2>4. TsTopList = Method(Kinds(s, 1, t, 2), "frame")
    BY <2>2, <2>3 DEF Kinds
  <2>5. Shape(TsTopList, TRUE) /\ TsTopList.sources # <<>>
    <3>1. MayJoin(s, 1, t, 2, "frame", TRUE)
      BY <2>1 DEF MayJoin
    <3> QED
      BY <2>4, <3>1, TwoKinds
  <2> QED
    BY <2>5 DEF Offered
<1>2. Offered(TsBoardFlow, TRUE)
  <2> DEFINE s == Source("rows", "text", "next")
  <2>1. s["rows"] = "rows" /\ s["empty"] = "text" /\ s["fails"] = "next"
    BY DEF Source
  <2>2. TsBoardFlow = Method([i \in 1 .. 3 |-> s], "text")
    BY DEF TsBoardFlow
  <2> HIDE DEF s
  <2>3. Shape(Method([i \in 1 .. 3 |-> s], "text"), TRUE)
    <3>1. MayRepeat(s, 3, "text", TRUE)
      BY <2>1 DEF MayRepeat
    <3> QED
      BY <3>1, Alike
  <2>4. TsBoardFlow.sources # <<>>
    BY <2>2 DEF Method
  <2> QED
    BY <2>2, <2>3, <2>4 DEF Offered
<1> QED
  BY <1>1, <1>2

\* What tells of failures may be taken for what need not.
LEMMA OfferedEitherWay ==
    ASSUME NEW m, Offered(m, FALSE)
    PROVE  Offered(m, TRUE) /\ TellsFailures(m)
BY DEF Offered, Shape

\* What Tushare offers.
LEMMA TushareOffers ==
    ASSUME NEW k, NEW on
    PROVE  \/ Tushare(k, on) = Unoffered
           \/ Offered(Tushare(k, on), FALSE)
           \/ /\ k \in {"fund_flow_board", "lhb", "top_list_history", "top_list_df_window"}
              /\ Offered(Tushare(k, on), TRUE)
<1>1. \/ Tushare(k, on) \in {Markdown(TsBarFrame), TsFundamentals, TsStatement, Markdown(TsWindow), TsWindow,
                             Markdown(TsReport), TsReport, Markdown(TsAuction), TsAuctionLeg,
                             Markdown(TsFactor(on)), Markdown(TsOrderqueue(on)), TsZtPool, TsMins, Unoffered}
      \/ /\ k \in {"fund_flow_board", "lhb", "top_list_history", "top_list_df_window"}
         /\ Tushare(k, on) \in {Markdown(TsTopList), TsTopList, TsBoardFlow}
  BY DEF Tushare, Statements
<1>2. /\ TsWindow = OneCall /\ TsReport = OneCall /\ TsAuctionLeg = OneCall /\ TsMins = OneCall
  BY DEF TsWindow, TsReport, TsAuctionLeg, TsMins
<1>3. /\ Offered(TsBarFrame, FALSE) /\ Offered(OneCall, FALSE) /\ Offered(TsAuction, FALSE)
      /\ Offered(TsFactor(on), FALSE) /\ Offered(TsOrderqueue(on), FALSE)
      /\ Offered(TsFundamentals, FALSE) /\ Offered(TsStatement, FALSE) /\ Offered(TsZtPool, FALSE)
  BY SingleMethods, TushareSeveral
<1>4. /\ Offered(Markdown(TsBarFrame), FALSE) /\ Offered(Markdown(OneCall), FALSE)
      /\ Offered(Markdown(TsAuction), FALSE) /\ Offered(Markdown(TsFactor(on)), FALSE)
      /\ Offered(Markdown(TsOrderqueue(on)), FALSE)
  BY <1>3, MarkdownOffered
<1>5. Offered(TsTopList, TRUE) /\ Offered(Markdown(TsTopList), TRUE) /\ Offered(TsBoardFlow, TRUE)
  BY SwallowingSeveral, MarkdownOffered
<1> QED
  BY <1>1, <1>2, <1>3, <1>4, <1>5

\* What AkShare offers.
LEMMA AkshareOffers ==
    ASSUME NEW k, NEW on
    PROVE  \/ Akshare(k, on) = Unoffered
           \/ Offered(Akshare(k, on), FALSE)
           \/ /\ k \in {"fund_flow_board", "fund_flow_individual", "lhb", "zt_pool", "hot_stocks"}
              /\ Offered(Akshare(k, on), TRUE)
<1>1. \/ Akshare(k, on) \in {AkBars(on), AkFundamentals, AkStatement, AkNews, AkGlobalNews, AkInsider, Unoffered}
      \/ /\ k \in {"fund_flow_board", "fund_flow_individual", "lhb", "zt_pool", "hot_stocks"}
         /\ Akshare(k, on) \in {AkBoardFlow, AkIndividualFlow, AkLhb, AkZtPool, AkHotStocks}
  BY DEF Akshare, Statements
<1> QED
  BY <1>1, SingleMethods, AkshareSeveral

\* What Yahoo offers.
LEMMA YahooOffers ==
    ASSUME NEW k
    PROVE  \/ Yahoo(k) = Unoffered
           \/ Offered(Yahoo(k), FALSE)
           \/ k \in Statements \union News \union {"fundamentals"} /\ Offered(Yahoo(k), TRUE)
<1>1. \/ Yahoo(k) \in {YfBars, Unoffered}
      \/ /\ k \in Statements \union News \union {"fundamentals"}
         /\ Yahoo(k) \in {YfStatement, YfNews, YfGlobalNews}
  BY DEF Yahoo, Statements, News
<1> QED
  BY <1>1, SingleMethods

AllVendors == {"cn_tushare", "cn_akshare", "cn_baostock", "yfinance", "alpha_vantage"}

Known(v, k, m) == Offered(m, TRUE) /\ (<<v, k>> \notin Swallowing => TellsFailures(m))

\* What any of the vendors offers: of those not known to pass off a failed call none does.
LEMMA OffersKnown ==
    ASSUME NEW v \in AllVendors, NEW k, NEW on, Offer(v, k, on) # Unoffered
    PROVE  Known(v, k, Offer(v, k, on))
<1>1. CASE v = "cn_tushare"
  <2>1. Offer(v, k, on) = Tushare(k, on)
    BY <1>1 DEF Offer
  <2>2. k \in {"fund_flow_board", "lhb", "top_list_history", "top_list_df_window"} => <<v, k>> \in Swallowing
    BY <1>1 DEF Swallowing
  <2> QED
    BY <2>1, <2>2, TushareOffers, OfferedEitherWay DEF Known
<1>2. CASE v = "cn_akshare"
  <2>1. Offer(v, k, on) = Akshare(k, on)
    BY <1>2 DEF Offer
  <2>2. k \in {"fund_flow_board", "fund_flow_individual", "lhb", "zt_pool", "hot_stocks"} => <<v, k>> \in Swallowing
    BY <1>2 DEF Swallowing
  <2> QED
    BY <2>1, <2>2, AkshareOffers, OfferedEitherWay DEF Known
<1>3. CASE v = "cn_baostock"
  <2>1. Offer(v, k, on) = BsBars
    BY <1>3 DEF Offer
  <2> QED
    BY <2>1, SingleMethods, OfferedEitherWay DEF Known
<1>4. CASE v = "yfinance"
  <2>1. Offer(v, k, on) = Yahoo(k)
    BY <1>4 DEF Offer
  <2>2. k \in Statements \union News \union {"fundamentals"} => <<v, k>> \in Swallowing
    BY <1>4 DEF Swallowing
  <2> QED
    BY <2>1, <2>2, YahooOffers, OfferedEitherWay DEF Known
<1>5. CASE v = "alpha_vantage"
  <2>1. Offer(v, k, on) = AvAny
    BY <1>5 DEF Offer
  <2> QED
    BY <2>1, SingleMethods, OfferedEitherWay DEF Known
<1> QED
  BY <1>1, <1>2, <1>3, <1>4, <1>5 DEF AllVendors

Places == [vendor : 0 .. 5, source : 1 .. 6, kept : BOOLEAN, lost : BOOLEAN]
Items == [value : {"pending", "rows", "part", "text", "frame", "none"}, vendor : AllVendors \union {"none"},
          status : {"none", "hit", "fallback", "error"}]

PoolTyped ==
    /\ tasks \in Batches /\ registered \in ProviderSets /\ switches \in SwitchSets
    /\ place \in [tasks -> Places] /\ item \in [tasks -> Items]
    /\ heard \in [tasks -> SUBSET (AllVendors \X {"rows", "opens", "empty", "fails"})]

\* Of the vendors that offer the task's method, those up to the n-th were asked, no others.
AskedUpTo(k, n, H) ==
    /\ \A h \in H : \E m \in Offering(k, 0) : m <= n /\ h[1] = FallbackChain(k)[m]
    /\ \A m \in Offering(k, 0) : m <= n => \E h \in H : h[1] = FallbackChain(k)[m]

AskedInVain(k, n, H) == n \in 0 .. 5 /\ AskedUpTo(k, n, H) /\ \A h \in H : h[2] # "rows"

\* A task whose turn has come: all before its vendor were asked and gave no rows, and what is
\* said of its own vendor's rows is what was heard.
InTurn(k) ==
    LET n == place[k].vendor
        sources == Offer(Vendor(k), k, switches).sources IN
    /\ n \in Offering(k, 0) /\ place[k].source \in 1 .. Len(sources)
    /\ \A h \in heard[k] : \E m \in Offering(k, 0) : m <= n /\ h[1] = FallbackChain(k)[m]
    /\ \A m \in Offering(k, 0) : m < n => \E h \in heard[k] : h[1] = FallbackChain(k)[m]
    /\ \A h \in heard[k] : h[2] = "rows" => h[1] = Vendor(k) /\ place[k].kept
    /\ place[k].kept => /\ <<Vendor(k), "rows">> \in heard[k]
                        /\ \E i \in DOMAIN sources : i < place[k].source /\ sources[i]["rows"] \in {"keep", "skip"}
    /\ <<Vendor(k), "fails">> \in heard[k] => place[k].lost

\* A task that has ended tells the truth of a vendor that is there.
Ended(k) == ItemTrue(k) /\ (item[k].value \in {"rows", "part"} => item[k].vendor \in registered)

TaskSound(k) ==
    /\ item[k].value = "pending" /\ place[k].vendor = 0 => heard[k] = {}
    /\ item[k].value = "pending" /\ place[k].vendor > 0 => InTurn(k)
    /\ item[k].value # "pending" => Ended(k)

SignalSound ==
    /\ \A s \in DOMAIN signal \ {"hot", "news"} : signal[s] = "content" =>
           \E k \in tasks : \E v \in registered : <<v, "rows">> \in heard[k]
    /\ signal["indicators"] = signal["vpa"]

PoolInv == PoolTyped /\ (\A k \in tasks : TaskSound(k)) /\ SignalSound

\* The chain of a task.
LEMMA ChainFacts ==
    ASSUME NEW k
    PROVE  /\ Len(FallbackChain(k)) = 5 /\ DOMAIN FallbackChain(k) = 1 .. 5
           /\ \A m \in 1 .. 5 : FallbackChain(k)[m] \in AllVendors
           /\ \A l, m \in 1 .. 5 : FallbackChain(k)[l] = FallbackChain(k)[m] => l = m
<1>1. ASSUME NEW c, c \in {<<"cn_akshare", "cn_baostock", "yfinance", "cn_tushare", "alpha_vantage">>,
                          <<"cn_tushare", "cn_akshare", "cn_baostock", "yfinance", "alpha_vantage">>}
      PROVE  /\ Len(c) = 5 /\ DOMAIN c = 1 .. 5 /\ (\A m \in 1 .. 5 : c[m] \in AllVendors)
             /\ \A l, m \in 1 .. 5 : c[l] = c[m] => l = m
  <2>1. Len(c) = 5 /\ DOMAIN c = 1 .. 5
    BY <1>1
  <2>2. \A m \in 1 .. 5 : c[m] \in AllVendors
    BY <1>1 DEF AllVendors
  <2>3. \A l, m \in 1 .. 5 : c[l] = c[m] => l = m
    BY <1>1
  <2> QED
    BY <2>1, <2>2, <2>3
<1> QED
  BY <1>1 DEF FallbackChain

\* Who offers the method of a task.
LEMMA OfferingFacts ==
    ASSUME NEW k, NEW n \in 0 .. 5
    PROVE  /\ Offering(k, 0) \subseteq 1 .. 5
           /\ Offering(k, n) = {m \in Offering(k, 0) : m > n}
           /\ \A m \in Offering(k, 0) :
                 /\ FallbackChain(k)[m] \in registered
                 /\ Known(FallbackChain(k)[m], k, Offer(FallbackChain(k)[m], k, switches))
<1>1. /\ Len(FallbackChain(k)) = 5
      /\ \A m \in 1 .. 5 : FallbackChain(k)[m] \in AllVendors
  BY ChainFacts
<1>2. \A l \in 0 .. 5 : \A m : m \in Offering(k, l) <=>
         /\ m \in 1 .. 5 /\ m > l /\ FallbackChain(k)[m] \in registered
         /\ Offer(FallbackChain(k)[m], k, switches) # Unoffered
  BY <1>1 DEF Offering
<1>3. ASSUME NEW m \in Offering(k, 0)
      PROVE  Known(FallbackChain(k)[m], k, Offer(FallbackChain(k)[m], k, switches))
  <2>1. FallbackChain(k)[m] \in AllVendors /\ Offer(FallbackChain(k)[m], k, switches) # Unoffered
    BY <1>1, <1>2
  <2> QED
    BY <2>1, OffersKnown
<1> QED
  BY <1>2, <1>3

\* The next vendor is the first after those asked.
LEMMA VendorAfterFacts ==
    ASSUME NEW k, NEW n \in 0 .. 5, Offering(k, n) # {}
    PROVE  /\ VendorAfter(k, n) \in Offering(k, n)
           /\ \A l \in Offering(k, n) : VendorAfter(k, n) <= l
<1>1. Offering(k, n) \subseteq 1 .. 5
  BY OfferingFacts
<1>2. \E m \in Offering(k, n) : \A l \in Offering(k, n) : m <= l
  <2> DEFINE O == Offering(k, n)
  <2>1. O \subseteq 1 .. 5 /\ O # {}
    BY <1>1
  <2> HIDE DEF O
  <2>2. \E m \in O : \A l \in O : m <= l
    <3>1. 1 \in O => (\A l \in O : 1 <= l)
      BY <2>1
    <3>2. 1 \notin O => (\A l \in O : 2 <= l)
      BY <2>1
    <3>3. 1 \notin O /\ 2 \notin O => (\A l \in O : 3 <= l)
      BY <2>1
    <3>4. 1 \notin O /\ 2 \notin O /\ 3 \notin O => (\A l \in O : 4 <= l)
      BY <2>1
    <3>5. 1 \notin O /\ 2 \notin O /\ 3 \notin O /\ 4 \notin O => (5 \in O /\ \A l \in O : 5 <= l)
      <4>1. PICK x \in O : TRUE
        BY <2>1
      <4>2. \A y \in O : y = 1 \/ y = 2 \/ y = 3 \/ y = 4 \/ y = 5
        BY <2>1
      <4>3. 1 \notin O /\ 2 \notin O /\ 3 \notin O /\ 4 \notin O => (\A y \in O : y = 5)
        BY <4>2
      <4> QED
        BY <4>1, <4>3
    <3> QED
      BY <3>1, <3>2, <3>3, <3>4, <3>5
  <2> QED
    BY <2>2 DEF O
<1> QED
  BY <1>2 DEF VendorAfter

\* Where a task ends with a vendor's result that is what was heard, what is said of it is true.
Closes(k, n, value, H) ==
    /\ n \in Offering(k, 0) /\ value \in {"rows", "part", "text", "frame"}
    /\ value \in {"rows", "part"} => <<FallbackChain(k)[n], "rows">> \in H
    /\ value = "rows" /\ <<FallbackChain(k)[n], "fails">> \in H =>
           ~Accumulates(Offer(FallbackChain(k)[n], k, switches))
    /\ value \in {"text", "frame"} =>
           \/ <<FallbackChain(k)[n], "empty">> \in H \/ <<FallbackChain(k)[n], k>> \in Swallowing
           \/ Offer(FallbackChain(k)[n], k, switches).sources = <<>>
    /\ \A h \in H : h[2] = "rows" => h[1] = FallbackChain(k)[n]

\* A task that closes so is sound.
LEMMA EndsTrue ==
    ASSUME NEW k \in tasks, PoolTyped, NEW n, NEW value, UNCHANGED <<tasks, registered, switches>>,
           Ends(k, n, value), Closes(k, n, value, heard'[k])
    PROVE  /\ item' \in [tasks -> Items] /\ place' = place /\ TaskSound(k)'
           /\ \A j \in tasks \ {k} : item'[j] = item[j]
<1> DEFINE v == FallbackChain(k)[n]
           status == IF n = 1 THEN "hit" ELSE "fallback"
<1>0. /\ n \in Offering(k, 0) /\ value \in {"rows", "part", "text", "frame"}
      /\ value \in {"rows", "part"} => <<v, "rows">> \in heard'[k]
      /\ value = "rows" /\ <<v, "fails">> \in heard'[k] => ~Accumulates(Offer(v, k, switches))
      /\ value \in {"text", "frame"} =>
             \/ <<v, "empty">> \in heard'[k] \/ <<v, k>> \in Swallowing
             \/ Offer(v, k, switches).sources = <<>>
      /\ \A h \in heard'[k] : h[2] = "rows" => h[1] = v
  BY DEF Closes
<1>1. v \in AllVendors /\ v \in registered
  BY <1>0, OfferingFacts, ChainFacts
<1>2. status \in {"hit", "fallback"}
  OBVIOUS
<1>3. item' = [item EXCEPT ![k] = [value |-> value, vendor |-> v, status |-> status]] /\ place' = place
  BY DEF Ends
<1> HIDE DEF v, status
<1>4. item' \in [tasks -> Items]
  <2>1. [value |-> value, vendor |-> v, status |-> status] \in Items
    BY <1>0, <1>1, <1>2 DEF Items
  <2> QED
    BY <1>3, <2>1 DEF PoolTyped
<1>5. item'[k].value = value /\ item'[k].vendor = v /\ item'[k].status = status
  BY <1>3 DEF PoolTyped
<1>6. \A j \in tasks \ {k} : item'[j] = item[j]
  BY <1>3 DEF PoolTyped
<1>7. ItemTrue(k)'
  <2>1. item'[k].value \in {"rows", "part"} => <<v, "rows">> \in heard'[k]
    BY <1>0, <1>5
  <2>2. item'[k].value = "rows" /\ <<v, "fails">> \in heard'[k] => ~Accumulates(Offer(v, k, switches))
    BY <1>0, <1>5
  <2>3. item'[k].value \in {"text", "frame"} =>
            \/ <<v, "empty">> \in heard'[k] \/ <<v, k>> \in Swallowing \/ Offer(v, k, switches).sources = <<>>
    BY <1>0, <1>5
  <2>4. \A w \in {h[1] : h \in heard'[k]} \ {v} : <<w, "rows">> \notin heard'[k]
    BY <1>0
  <2>5. item'[k].status # "error" /\ item'[k].value # "none"
    BY <1>0, <1>2, <1>5
  <2>6. switches' = switches
    OBVIOUS
  <2> QED
    BY <1>5, <2>1, <2>2, <2>3, <2>4, <2>5, <2>6 DEF ItemTrue
<1> QED
  BY <1>0, <1>1, <1>3, <1>4, <1>5, <1>6, <1>7 DEF TaskSound, Ended

\* A task that goes on to the next vendor, the first n having been asked in vain, is sound.
LEMMA NextVendorKeeps ==
    ASSUME NEW k \in tasks, PoolTyped, NEW n, UNCHANGED <<tasks, registered, switches>>,
           item[k].value = "pending", AskedInVain(k, n, heard'[k]), NextVendorOf(k, n)
    PROVE  /\ item' \in [tasks -> Items] /\ place' \in [tasks -> Places] /\ TaskSound(k)'
           /\ \A j \in tasks \ {k} : item'[j] = item[j] /\ place'[j] = place[j]
<1>0. n \in 0 .. 5 /\ AskedUpTo(k, n, heard'[k]) /\ \A h \in heard'[k] : h[2] # "rows"
  BY DEF AskedInVain
<1>1. /\ Offering(k, 0) \subseteq 1 .. 5 /\ Offering(k, n) = {m \in Offering(k, 0) : m > n}
      /\ \A m \in Offering(k, 0) : /\ FallbackChain(k)[m] \in registered
                                   /\ Known(FallbackChain(k)[m], k, Offer(FallbackChain(k)[m], k, switches))
  BY <1>0, OfferingFacts
<1>2. Offering(k, 0)' = Offering(k, 0)
  BY DEF Offering
<1>3. CASE Offering(k, n) = {}
  <2>1. /\ item' = [item EXCEPT ![k] = [value |-> "none", vendor |-> FallbackChain(k)[1], status |-> "error"]]
        /\ place' = place
    BY <1>3 DEF NextVendorOf
  <2>2. FallbackChain(k)[1] \in AllVendors
    BY ChainFacts
  <2>3. item' \in [tasks -> Items]
    <3>1. [value |-> "none", vendor |-> FallbackChain(k)[1], status |-> "error"] \in Items
      BY <2>2 DEF Items
    <3> QED
      BY <2>1, <3>1 DEF PoolTyped
  <2>4. item'[k].value = "none" /\ item'[k].status = "error"
    BY <2>1 DEF PoolTyped
  <2>5. {h[1] : h \in heard'[k]} = {FallbackChain(k)[m] : m \in Offering(k, 0)}
    <3>1. \A m \in Offering(k, 0) : m <= n
      BY <1>0, <1>1, <1>3
    <3> QED
      BY <1>0, <3>1 DEF AskedUpTo
  <2>6. ItemTrue(k)'
    BY <1>2, <2>4, <2>5 DEF ItemTrue
  <2>7. TaskSound(k)'
    BY <2>4, <2>6 DEF TaskSound, Ended
  <2> QED
    BY <2>1, <2>3, <2>7 DEF PoolTyped
<1>4. CASE Offering(k, n) # {}
  <2> DEFINE m == VendorAfter(k, n)
             method == Offer(FallbackChain(k)[m], k, switches)
  <2>1. /\ m \in Offering(k, 0) /\ m \in 1 .. 5 /\ m > n
        /\ \A l \in Offering(k, 0) : l < m <=> l <= n
    <3>1. m \in Offering(k, n) /\ \A l \in Offering(k, n) : m <= l
      BY <1>0, <1>4, VendorAfterFacts
    <3>2. m \in Offering(k, 0) /\ m \in 1 .. 5 /\ m > n
      BY <1>0, <1>1, <3>1
    <3>3. ASSUME NEW l \in Offering(k, 0) PROVE l < m <=> l <= n
      <4>1. l \in 1 .. 5 /\ (l > n => m <= l)
        BY <1>0, <1>1, <3>1
      <4> QED
        BY <1>0, <3>2, <4>1
    <3> QED
      BY <3>2, <3>3
  <2>2. Known(FallbackChain(k)[m], k, method)
    BY <1>0, <1>1, <2>1
  <2>3. IF method.sources = <<>> THEN Ends(k, m, method.spent)
        ELSE place' = [place EXCEPT ![k] = At(m)] /\ UNCHANGED item
    BY <1>4 DEF NextVendorOf
  <2> HIDE DEF m
  <2>4. CASE method.sources = <<>>
    <3>1. Ends(k, m, method.spent)
      BY <2>3, <2>4
    <3>2. method.spent \in {"text", "frame"}
      BY <2>2, <2>4 DEF Known, Offered, Shape, Formed
    <3> HIDE DEF method
    <3>3. /\ item' \in [tasks -> Items] /\ place' = place /\ TaskSound(k)'
          /\ \A j \in tasks \ {k} : item'[j] = item[j]
      <4>1. Closes(k, m, method.spent, heard'[k])
        BY <1>0, <2>1, <2>4, <3>2 DEF Closes, method
      <4> QED
        BY <3>1, <4>1, EndsTrue
    <3> QED
      BY <3>3 DEF PoolTyped
  <2>5. CASE method.sources # <<>>
    <3>1. place' = [place EXCEPT ![k] = At(m)] /\ item' = item
      BY <2>3, <2>5
    <3>2. At(m) \in Places /\ At(m).vendor = m /\ At(m).source = 1 /\ ~At(m).kept
      BY <2>1 DEF At, Places
    <3>3. place' \in [tasks -> Places] /\ place'[k] = At(m)
      BY <3>1, <3>2 DEF PoolTyped
    <3>4. Vendor(k)' = FallbackChain(k)[m]
      BY <3>2, <3>3 DEF Vendor
    <3>5. 1 \in 1 .. Len(method.sources)
      BY <2>2, <2>5 DEF Known, Offered, Shape, Formed
    <3>6. <<FallbackChain(k)[m], "fails">> \notin heard'[k]
      <4>1. \A h \in heard'[k] : \E l \in Offering(k, 0) : l <= n /\ h[1] = FallbackChain(k)[l]
        BY <1>0 DEF AskedUpTo
      <4>2. \A l \in Offering(k, 0) : l <= n => l \in 1 .. 5 /\ l # m
        BY <1>0, <1>1, <2>1
      <4>3. \A l \in 1 .. 5 : FallbackChain(k)[l] = FallbackChain(k)[m] => l = m
        BY <2>1, ChainFacts
      <4> QED
        BY <4>1, <4>2, <4>3
    <3>7. /\ \A h \in heard'[k] : \E l \in Offering(k, 0) : l <= m /\ h[1] = FallbackChain(k)[l]
          /\ \A l \in Offering(k, 0) : l < m => \E h \in heard'[k] : h[1] = FallbackChain(k)[l]
      <4>1. \A l \in Offering(k, 0) : l <= n => l <= m
        BY <1>0, <1>1, <2>1
      <4> QED
        BY <1>0, <2>1, <4>1 DEF AskedUpTo
    <3>8. InTurn(k)'
      <4>1. place'[k].vendor = m /\ place'[k].source = 1 /\ ~place'[k].kept
        BY <3>2, <3>3
      <4>2. Offer(Vendor(k), k, switches)' = method
        BY <3>4
      <4> HIDE DEF method
      <4>3. m \in Offering(k, 0)' /\ place'[k].source \in 1 .. Len(method.sources)
        BY <1>2, <2>1, <3>5, <4>1
      <4>4. /\ \A h \in heard'[k] : \E l \in Offering(k, 0)' : l <= m /\ h[1] = FallbackChain(k)[l]
            /\ \A l \in Offering(k, 0)' : l < m => \E h \in heard'[k] : h[1] = FallbackChain(k)[l]
        BY <1>2, <3>7
      <4>5. \A h \in heard'[k] : h[2] = "rows" => h[1] = Vendor(k)' /\ place'[k].kept
        BY <1>0
      <4>6. <<Vendor(k), "fails">>' \notin heard'[k]
        BY <3>4, <3>6
      <4> QED
        BY <4>1, <4>2, <4>3, <4>4, <4>5, <4>6 DEF InTurn
    <3>9. TaskSound(k)'
      BY <1>0, <2>1, <3>1, <3>2, <3>3, <3>8 DEF TaskSound
    <3> QED
      BY <3>1, <3>3, <3>9 DEF PoolTyped
  <2> QED
    BY <2>4, <2>5
<1> QED
  BY <1>3, <1>4

\* A task that is left alone stays sound.
LEMMA LeftAlone ==
    ASSUME NEW j \in tasks, TaskSound(j), UNCHANGED <<registered, switches>>,
           item'[j] = item[j], place'[j] = place[j], heard'[j] = heard[j]
    PROVE  TaskSound(j)'
<1>1. Offering(j, 0)' = Offering(j, 0) /\ Vendor(j)' = Vendor(j)
  BY DEF Offering, Vendor
<1>2. InTurn(j) => InTurn(j)'
  BY <1>1 DEF InTurn
<1>3. Ended(j) => Ended(j)'
  <2>1. ItemTrue(j) => ItemTrue(j)'
    BY <1>1 DEF ItemTrue
  <2> QED
    BY <2>1 DEF Ended
<1> QED
  BY <1>2, <1>3 DEF TaskSound

\* What a signal speaks of has been heard for good.
LEMMA SignalStays ==
    ASSUME SignalSound, UNCHANGED <<tasks, registered, signal>>, \A k \in tasks : heard[k] \subseteq heard'[k]
    PROVE  SignalSound'
BY DEF SignalSound

\* A task is taken from the queue.
LEMMA BeginTaskKeeps == ASSUME PoolInv, NEW k \in tasks, BeginTask(k) PROVE PoolInv'
<1>1. /\ item[k].value = "pending" /\ place[k].vendor = 0 /\ NextVendorOf(k, 0)
      /\ UNCHANGED <<tasks, registered, switches, heard, signal>>
  BY DEF BeginTask
<1>2. PoolTyped /\ TaskSound(k) /\ heard[k] = {}
  BY <1>1 DEF PoolInv, TaskSound
<1>3. AskedUpTo(k, 0, heard'[k])
  <2>1. Offering(k, 0) \subseteq 1 .. 5
    BY OfferingFacts
  <2>2. \A m \in Offering(k, 0) : ~(m <= 0)
    BY <2>1
  <2>3. heard'[k] = {}
    BY <1>1, <1>2
  <2> QED
    BY <2>2, <2>3 DEF AskedUpTo
<1>4. AskedInVain(k, 0, heard'[k])
  BY <1>1, <1>2, <1>3 DEF AskedInVain
<1>5. /\ item' \in [tasks -> Items] /\ place' \in [tasks -> Places] /\ TaskSound(k)'
      /\ \A j \in tasks \ {k} : item'[j] = item[j] /\ place'[j] = place[j]
  BY <1>1, <1>2, <1>4, NextVendorKeeps
<1>6. PoolTyped'
  BY <1>1, <1>2, <1>5 DEF PoolTyped
<1>7. ASSUME NEW j \in tasks \ {k} PROVE TaskSound(j)'
  BY <1>1, <1>5, LeftAlone DEF PoolInv
<1>8. SignalSound'
  BY <1>1, SignalStays DEF PoolInv
<1> QED
  BY <1>1, <1>5, <1>6, <1>7, <1>8 DEF PoolInv

\* A source answers.
LEMMA CallSourceKeeps ==
    ASSUME PoolInv, NEW k \in tasks, NEW answer \in CallAnswers, CallSource(k, answer)
    PROVE  PoolInv'
<1> DEFINE v == Vendor(k)
           n == place[k].vendor
           src == place[k].source
           method == Offer(v, k, switches)
           sources == method.sources
           reaction == sources[src][answer]
           next == src + IF reaction = "skip" THEN 2 ELSE 1
           kept == place[k].kept \/ reaction \in {"keep", "skip"}
           lost == place[k].lost \/ answer = "fails"
           opens == answer = "rows" /\ reaction = "next"
           word == IF opens THEN "opens" ELSE answer
           H == heard'[k]
<1>1. /\ item[k].value = "pending" /\ place[k].vendor > 0
      /\ heard' = [heard EXCEPT ![k] = @ \union {<<v, word>>}]
      /\ UNCHANGED <<tasks, registered, switches, signal>>
  BY DEF CallSource
<1>2. \/ reaction \in {"rows", "text", "frame"} /\ Ends(k, n, reaction)
      \/ reaction = "raises" /\ NextVendorOf(k, n)
      \/ /\ reaction \notin {"rows", "text", "frame", "raises"} /\ next <= Len(sources)
         /\ place' = [place EXCEPT ![k] = [vendor |-> n, source |-> next, kept |-> kept, lost |-> lost]]
         /\ UNCHANGED item
      \/ /\ reaction \notin {"rows", "text", "frame", "raises"} /\ ~(next <= Len(sources))
         /\ \/ \E value \in KeptRows(kept, lost) : Ends(k, n, value)
            \/ ~kept /\ method.spent # "raises" /\ Ends(k, n, method.spent)
            \/ ~kept /\ method.spent = "raises" /\ NextVendorOf(k, n)
  BY DEF CallSource
<1>3. PoolTyped /\ InTurn(k)
  BY <1>1 DEF PoolInv, TaskSound
<1>4. n \in Offering(k, 0) /\ n \in 1 .. 5 /\ v = FallbackChain(k)[n] /\ v \in AllVendors
  BY <1>3, OfferingFacts, ChainFacts DEF InTurn, Vendor
<1>5. Known(v, k, method)
  BY <1>4, OfferingFacts
<1> HIDE DEF v, n, method
<1>6. /\ src \in 1 .. Len(sources) /\ DOMAIN sources = 1 .. Len(sources) /\ Len(sources) \in 1 .. 6 /\ sources # <<>>
      /\ \A h \in heard[k] : \E m \in Offering(k, 0) : m <= n /\ h[1] = FallbackChain(k)[m]
      /\ \A m \in Offering(k, 0) : m < n => \E h \in heard[k] : h[1] = FallbackChain(k)[m]
      /\ \A h \in heard[k] : h[2] = "rows" => h[1] = v /\ place[k].kept
      /\ place[k].kept => /\ <<v, "rows">> \in heard[k]
                          /\ \E i \in DOMAIN sources : i < src /\ sources[i]["rows"] \in {"keep", "skip"}
      /\ <<v, "fails">> \in heard[k] => place[k].lost
  <2>1. /\ src \in 1 .. Len(sources)
        /\ \A h \in heard[k] : \E m \in Offering(k, 0) : m <= n /\ h[1] = FallbackChain(k)[m]
        /\ \A m \in Offering(k, 0) : m < n => \E h \in heard[k] : h[1] = FallbackChain(k)[m]
        /\ \A h \in heard[k] : h[2] = "rows" => h[1] = v /\ place[k].kept
        /\ place[k].kept => /\ <<v, "rows">> \in heard[k]
                            /\ \E i \in DOMAIN sources : i < src /\ sources[i]["rows"] \in {"keep", "skip"}
        /\ <<v, "fails">> \in heard[k] => place[k].lost
    BY <1>3 DEF InTurn, v, n, method
  <2>2. DOMAIN sources = 1 .. Len(sources) /\ Len(sources) \in 0 .. 6 /\ (Len(sources) = 0 <=> sources = <<>>)
    BY <1>5 DEF Known, Offered, Shape, Formed
  <2>3. Len(sources) \in 1 .. 6
    BY <2>1, <2>2
  <2> QED
    BY <2>1, <2>2, <2>3
<1>7. /\ sources[src]["rows"] \in {"rows", "keep", "skip", "next"}
      /\ sources[src]["empty"] \in {"text", "frame", "next", "raises"}
      /\ sources[src]["fails"] \in {"text", "frame", "next", "raises"}
      /\ method.spent \in {"raises", "text", "frame"}
  BY <1>5, <1>6 DEF Known, Offered, Shape, Formed
<1>8. KeepsRows(method) /\ (<<v, k>> \notin Swallowing => TellsFailures(method))
  BY <1>5 DEF Known, Offered, Shape
<1> HIDE DEF reaction, next, kept, lost, opens, word
<1>9. word \in {"rows", "opens", "empty", "fails"} /\ (word = "rows" <=> answer = "rows" /\ reaction # "next")
      /\ (word = "empty" <=> answer = "empty") /\ (word = "fails" <=> answer = "fails")
  BY DEF word, opens, CallAnswers
<1>10. /\ H = heard[k] \union {<<v, word>>} /\ (\A j \in tasks \ {k} : heard'[j] = heard[j])
       /\ heard' \in [tasks -> SUBSET (AllVendors \X {"rows", "opens", "empty", "fails"})]
  BY <1>1, <1>3, <1>4, <1>9 DEF PoolTyped
<1>11. answer = "rows" => reaction \in {"rows", "keep", "skip", "next"}
  BY <1>7 DEF reaction
<1>12. answer # "rows" => reaction \in {"text", "frame", "next", "raises"}
  BY <1>7 DEF reaction, CallAnswers
<1>13. src \in 1 .. 6 /\ (next = src + 1 \/ (reaction = "skip" /\ next = src + 2)) /\ src < next
       /\ (reaction # "skip" => next = src + 1)
  <2>1. src \in 1 .. 6
    BY <1>3 DEF PoolTyped, Places
  <2> HIDE DEF src
  <2> QED
    BY <2>1 DEF next
<1> HIDE DEF H, src
<1>14. AskedUpTo(k, n, H)
  <2>1. ASSUME NEW h \in H PROVE \E m \in Offering(k, 0) : m <= n /\ h[1] = FallbackChain(k)[m]
    <3>1. CASE h \in heard[k]
      BY <1>6, <3>1
    <3>2. CASE h = <<v, word>>
      BY <1>4, <3>2
    <3> QED
      BY <1>10, <3>1, <3>2
  <2>2. ASSUME NEW m \in Offering(k, 0), m <= n PROVE \E h \in H : h[1] = FallbackChain(k)[m]
    <3>1. CASE m < n
      BY <1>6, <1>10, <3>1
    <3>2. CASE m = n
      <4>1. <<v, word>> \in H /\ <<v, word>>[1] = v
        BY <1>10
      <4> QED
        BY <1>4, <3>2, <4>1
    <3>3. m \in 1 .. 5
      BY OfferingFacts
    <3> QED
      BY <1>4, <2>2, <3>1, <3>2, <3>3
  <2> QED
    BY <2>1, <2>2 DEF AskedUpTo
<1>15. \A h \in H : h[2] = "rows" => h[1] = v
  BY <1>6, <1>10
<1>16. \A h \in H : h[2] = "rows" => kept \/ reaction = "rows"
  <2>1. word = "rows" => kept \/ reaction = "rows"
    BY <1>9, <1>11 DEF kept
  <2> QED
    BY <1>6, <1>10, <2>1 DEF kept
<1>17. kept => /\ <<v, "rows">> \in H
               /\ \E i \in DOMAIN sources : i < next /\ sources[i]["rows"] \in {"keep", "skip"}
  <2>1. CASE place[k].kept
    <3>1. PICK i \in DOMAIN sources : i < src /\ sources[i]["rows"] \in {"keep", "skip"}
      BY <1>6, <2>1
    <3>2. i < next
      BY <1>6, <1>13, <3>1
    <3> QED
      BY <1>6, <1>10, <2>1, <3>1, <3>2
  <2>2. CASE reaction \in {"keep", "skip"}
    <3>1. answer = "rows" /\ word = "rows"
      BY <1>9, <1>12, <2>2 DEF CallAnswers
    <3>2. sources[src]["rows"] \in {"keep", "skip"}
      BY <2>2, <3>1 DEF reaction
    <3> QED
      BY <1>6, <1>10, <1>13, <3>1, <3>2
  <2> QED
    BY <2>1, <2>2 DEF kept
<1>18. <<v, "fails">> \in H => lost
  BY <1>6, <1>9, <1>10 DEF lost
<1>19. kept \in BOOLEAN /\ lost \in BOOLEAN
  BY <1>3 DEF kept, lost, PoolTyped, Places
<1>20. item' \in [tasks -> Items] /\ place' \in [tasks -> Places] /\ TaskSound(k)'
       /\ \A j \in tasks \ {k} : item'[j] = item[j] /\ place'[j] = place[j]
  <2>1. CASE reaction \in {"rows", "text", "frame"}
    <3>1. Ends(k, n, reaction)
      BY <1>2, <2>1
    <3>2. reaction = "rows" => answer = "rows"
      BY <1>12
    <3>3. reaction \in {"rows", "part"} => <<v, "rows">> \in H
      BY <1>9, <1>10, <2>1, <3>2
    <3>4. reaction = "rows" => ~Accumulates(method)
      BY <1>6, <1>8, <3>2 DEF KeepsRows, Accumulates, reaction
    <3>5. reaction \in {"text", "frame"} => <<v, "empty">> \in H \/ <<v, k>> \in Swallowing
      <4>1. reaction \in {"text", "frame"} => answer = "empty" \/ answer = "fails"
        BY <1>11 DEF CallAnswers
      <4>2. reaction \in {"text", "frame"} /\ answer = "fails" => ~TellsFailures(method)
        BY <1>6 DEF TellsFailures, reaction
      <4> QED
        BY <1>8, <1>9, <1>10, <4>1, <4>2
    <3>6. UNCHANGED <<tasks, registered, switches>> /\ reaction \in {"rows", "part", "text", "frame"}
      BY <1>1, <2>1
    <3>7. Closes(k, n, reaction, H)
      BY <1>4, <1>15, <3>3, <3>4, <3>5, <3>6 DEF Closes, method
    <3>8. /\ item' \in [tasks -> Items] /\ place' = place /\ TaskSound(k)'
          /\ \A j \in tasks \ {k} : item'[j] = item[j]
      BY <1>3, <3>1, <3>6, <3>7, EndsTrue DEF H
    <3> QED
      BY <1>3, <3>8 DEF PoolTyped
  <2>2. ASSUME NextVendorOf(k, n), \A h \in H : h[2] # "rows"
        PROVE  /\ item' \in [tasks -> Items] /\ place' \in [tasks -> Places] /\ TaskSound(k)'
               /\ \A j \in tasks \ {k} : item'[j] = item[j] /\ place'[j] = place[j]
    <3>1. AskedInVain(k, n, H)
      BY <1>4, <1>14, <2>2 DEF AskedInVain
    <3>2. UNCHANGED <<tasks, registered, switches>>
      BY <1>1
    <3> QED
      BY <1>1, <1>3, <2>2, <3>1, <3>2, NextVendorKeeps DEF H
  <2>3. CASE reaction = "raises"
    <3>1. NextVendorOf(k, n)
      BY <1>2, <2>3
    <3>2. answer \in {"empty", "fails"}
      BY <1>11, <2>3 DEF CallAnswers
    <3>3. ~place[k].kept
      BY <1>6, <1>8, <2>3, <3>2 DEF KeepsRows, reaction
    <3>4. ~kept
      BY <2>3, <3>3 DEF kept
    <3> QED
      BY <1>16, <2>2, <2>3, <3>1, <3>4
  <2>4. CASE reaction \in {"keep", "skip", "next"} /\ next <= Len(sources)
    <3>1. /\ place' = [place EXCEPT ![k] = [vendor |-> n, source |-> next, kept |-> kept, lost |-> lost]]
          /\ item' = item
      BY <1>2, <2>4
    <3>2. next \in 1 .. Len(sources) /\ next \in 1 .. 6
      <4>1. Len(sources) \in 1 .. 6 /\ next \in 1 .. 8 /\ next <= Len(sources)
        BY <1>6, <1>13, <2>4
      <4>2. \A most \in 1 .. 6, x \in 1 .. 8 : x <= most => x \in 1 .. most /\ x \in 1 .. 6
        OBVIOUS
      <4> QED
        BY <4>1, <4>2
    <3>3. [vendor |-> n, source |-> next, kept |-> kept, lost |-> lost] \in Places
      BY <1>4, <1>19, <3>2 DEF Places
    <3>4. /\ place' \in [tasks -> Places] /\ place'[k].vendor = n /\ place'[k].source = next
          /\ place'[k].kept = kept /\ place'[k].lost = lost
      BY <1>3, <3>1, <3>3 DEF PoolTyped
    <3>5. Vendor(k)' = v /\ Offer(Vendor(k), k, switches)' = method /\ Offering(k, 0)' = Offering(k, 0)
      BY <1>1, <1>4, <3>4 DEF Vendor, method, Offering
    <3>6. /\ \A h \in H : \E m \in Offering(k, 0)' : m <= n /\ h[1] = FallbackChain(k)[m]
          /\ \A m \in Offering(k, 0)' : m < n => \E h \in H : h[1] = FallbackChain(k)[m]
      <4>1. \A m \in Offering(k, 0) : m < n => m <= n
        BY <1>4, OfferingFacts
      <4> QED
        BY <1>14, <3>5, <4>1 DEF AskedUpTo
    <3>7. \A h \in H : h[2] = "rows" => h[1] = v /\ kept
      BY <1>15, <1>16, <2>4
    <3>8. InTurn(k)'
      BY <1>4, <1>17, <1>18, <3>2, <3>4, <3>5, <3>6, <3>7 DEF InTurn, H
    <3>9. TaskSound(k)'
      BY <1>1, <1>4, <3>1, <3>4, <3>8 DEF TaskSound
    <3> QED
      BY <1>3, <3>1, <3>4, <3>9 DEF PoolTyped
  <2>5. CASE reaction \in {"keep", "skip", "next"} /\ ~(next <= Len(sources))
    <3>1. \/ \E value \in KeptRows(kept, lost) : Ends(k, n, value)
          \/ ~kept /\ method.spent # "raises" /\ Ends(k, n, method.spent)
          \/ ~kept /\ method.spent = "raises" /\ NextVendorOf(k, n)
      BY <1>2, <2>5
    <3>2. ASSUME NEW value, Ends(k, n, value), Closes(k, n, value, H)
          PROVE  /\ item' \in [tasks -> Items] /\ place' \in [tasks -> Places] /\ TaskSound(k)'
                 /\ \A j \in tasks \ {k} : item'[j] = item[j] /\ place'[j] = place[j]
      <4>1. UNCHANGED <<tasks, registered, switches>>
        BY <1>1
      <4>2. /\ item' \in [tasks -> Items] /\ place' = place /\ TaskSound(k)'
            /\ \A j \in tasks \ {k} : item'[j] = item[j]
        BY <1>3, <3>2, <4>1, EndsTrue DEF H
      <4> QED
        BY <1>3, <4>2 DEF PoolTyped
    <3>3. ASSUME NEW value \in KeptRows(kept, lost) PROVE Closes(k, n, value, H)
      <4>1. kept /\ (value = "part" \/ (value = "rows" /\ ~lost))
        BY DEF KeptRows
      <4> QED
        BY <1>4, <1>15, <1>17, <1>18, <4>1 DEF Closes
    <3>4. method.spent # "raises" => Closes(k, n, method.spent, H)
      <4>1. method.spent # "raises" => method.spent \in {"text", "frame"}
        BY <1>7
      <4>2. method.spent \in {"text", "frame"} /\ TellsFailures(method) => answer = "empty"
        <5>1. method.spent \in {"text", "frame"} /\ TellsFailures(method) => reaction # "skip"
          BY <1>6, <1>12 DEF TellsFailures, reaction, CallAnswers
        <5>2. reaction # "skip" => src = Len(sources)
          BY <1>6, <1>13, <2>5
        <5>3. src = Len(sources) /\ method.spent \in {"text", "frame"} /\ TellsFailures(method) =>
                  sources[src]["rows"] = "rows" /\ sources[src]["fails"] = "raises"
          BY <1>6 DEF TellsFailures
        <5> QED
          BY <2>5, <5>1, <5>2, <5>3 DEF reaction, CallAnswers
      <4> QED
        BY <1>4, <1>8, <1>9, <1>10, <1>15, <4>1, <4>2 DEF Closes
    <3>5. ~kept => \A h \in H : h[2] # "rows"
      BY <1>16, <2>5
    <3> QED
      BY <2>2, <3>1, <3>2, <3>3, <3>4, <3>5
  <2> QED
    BY <1>11, <1>12, <2>1, <2>3, <2>4, <2>5
<1>21. PoolTyped'
  BY <1>1, <1>3, <1>10, <1>20 DEF PoolTyped
<1>22. ASSUME NEW j \in tasks \ {k} PROVE TaskSound(j)'
  BY <1>1, <1>10, <1>20, LeftAlone DEF PoolInv
<1>23. \A j \in tasks : heard[j] \subseteq heard'[j]
  BY <1>10 DEF H
<1>24. SignalSound'
  BY <1>1, <1>23, SignalStays DEF PoolInv
<1> QED
  BY <1>1, <1>20, <1>21, <1>22, <1>24 DEF PoolInv

\* The signals are derived from tasks that have ended.
LEMMA DeriveKeeps == ASSUME PoolInv, Derive PROVE PoolInv'
<1>1. /\ \A k \in tasks : item[k].value # "pending"
      /\ UNCHANGED <<tasks, registered, switches, place, item, heard>>
      /\ signal' = [indicators |-> Says(Indicators), vpa |-> Says(VpaIndicators),
                    auction |-> Says(OpeningAuctionSignal),
                    strength |-> SwitchedOn("auction_oc", AuctionStrength),
                    active_buy |-> SwitchedOn("translator", ActiveBuyProxy),
                    moneyflow |-> SwitchedOn("translator", MoneyflowStructure),
                    health |-> SwitchedOn("translator", FinancialHealth),
                    hot |-> Says(SentimentHot), news |-> Says(SentimentNews)]
  BY DEF Derive
<1>2. ASSUME NEW k, Filled(k)
      PROVE  \E j \in tasks : \E v \in registered : <<v, "rows">> \in heard[j]
  <2>1. k \in tasks /\ item[k].value \in {"rows", "part"}
    BY <1>2 DEF Filled, Result
  <2>2. Ended(k)
    BY <2>1 DEF PoolInv, TaskSound
  <2>3. item[k].vendor \in registered /\ <<item[k].vendor, "rows">> \in heard[k]
    BY <2>1, <2>2 DEF Ended, ItemTrue
  <2> QED
    BY <2>1, <2>3
<1> DEFINE Spoken == \E j \in tasks : \E v \in registered : <<v, "rows">> \in heard[j]
<1>3. /\ Indicators => Spoken
      /\ VpaIndicators => Spoken
      /\ OpeningAuctionSignal => Spoken
      /\ AuctionStrength => Spoken
      /\ ActiveBuyProxy => Spoken
      /\ MoneyflowStructure => Spoken
      /\ FinancialHealth => Spoken
  <2>1. \A k : Filled(k) => Spoken
    BY <1>2
  <2> HIDE DEF Spoken
  <2> QED
    BY <2>1 DEF Indicators, VpaIndicators, OpeningAuctionSignal, AuctionStrength, ActiveBuyProxy, MoneyflowStructure,
                FinancialHealth
<1>4. Spoken' <=> Spoken
  BY <1>1
<1> HIDE DEF Spoken
<1>5. /\ \A content : Says(content) = "content" => content
      /\ \A switch, content : SwitchedOn(switch, content) = "content" => content
  BY DEF Says, SwitchedOn
<1>6. DOMAIN signal' = {"indicators", "vpa", "auction", "strength", "active_buy", "moneyflow", "health", "hot", "news"}
  BY <1>1
<1>7. /\ signal'["indicators"] = "content" => Spoken
      /\ signal'["vpa"] = "content" => Spoken
      /\ signal'["auction"] = "content" => Spoken
      /\ signal'["strength"] = "content" => Spoken
      /\ signal'["active_buy"] = "content" => Spoken
      /\ signal'["moneyflow"] = "content" => Spoken
      /\ signal'["health"] = "content" => Spoken
  BY <1>1, <1>3, <1>5
<1>8. signal'["indicators"] = signal'["vpa"]
  BY <1>1 DEF Indicators, VpaIndicators
<1>9. SignalSound'
  BY <1>4, <1>6, <1>7, <1>8 DEF SignalSound, Spoken
<1>10. PoolTyped'
  BY <1>1 DEF PoolInv, PoolTyped
<1>11. ASSUME NEW k \in tasks PROVE TaskSound(k)'
  BY <1>1, LeftAlone DEF PoolInv
<1> QED
  BY <1>1, <1>9, <1>10, <1>11 DEF PoolInv

\* A pool starts with nothing heard.
LEMMA PoolStart == PoolInit => PoolInv
<1> SUFFICES ASSUME PoolInit PROVE PoolInv
  OBVIOUS
<1>1. At(0) \in Places /\ NoItem \in Items /\ At(0).vendor = 0 /\ NoItem.value = "pending"
  BY DEF At, Places, NoItem, Items
<1>2. PoolTyped
  BY <1>1 DEF PoolInit, PoolTyped
<1>3. ASSUME NEW k \in tasks PROVE TaskSound(k)
  BY <1>1 DEF PoolInit, TaskSound
<1>4. SignalSound
  BY DEF PoolInit, NoSignal, SignalSound
<1> QED
  BY <1>2, <1>3, <1>4 DEF PoolInv

\* Every step of the pool keeps what holds of it.
LEMMA PoolStep == PoolInv /\ [PoolNext]_poolVars => PoolInv'
<1> SUFFICES ASSUME PoolInv, [PoolNext]_poolVars PROVE PoolInv'
  OBVIOUS
<1>1. ASSUME NEW k \in tasks, BeginTask(k) PROVE PoolInv'
  BY <1>1, BeginTaskKeeps
<1>2. ASSUME NEW k \in tasks, NEW answer \in {"rows", "empty", "fails"}, CallSource(k, answer) PROVE PoolInv'
  BY <1>2, CallSourceKeeps DEF CallAnswers
<1>3. CASE Derive
  BY <1>3, DeriveKeeps
<1>4. CASE UNCHANGED poolVars
  <2>1. UNCHANGED <<tasks, registered, switches, place, item, heard, signal>>
    BY <1>4 DEF poolVars
  <2>2. PoolTyped'
    BY <2>1 DEF PoolInv, PoolTyped
  <2>3. ASSUME NEW k \in tasks PROVE TaskSound(k)'
    BY <2>1, LeftAlone DEF PoolInv
  <2>4. SignalSound'
    BY <2>1 DEF PoolInv, SignalSound
  <2> QED
    BY <2>1, <2>2, <2>3, <2>4 DEF PoolInv
<1> QED
  BY <1>1, <1>2, <1>3, <1>4 DEF PoolNext

\* What holds of the pool holds always.
LEMMA PoolAlways == PoolInit /\ [][PoolNext]_poolVars => []PoolInv
BY PoolStart, PoolStep, PTL

\* The type of every variable of a pool.
THEOREM PoolTypeCorrect == PoolSpec => []PoolTypeOK
<1>1. PoolInv => PoolTypeOK
  <2> SUFFICES ASSUME PoolInv, NEW k \in tasks
               PROVE  /\ tasks \in Batches /\ registered \in ProviderSets /\ switches \in SwitchSets
                      /\ item[k].value \in {"pending", "rows", "part", "text", "frame", "none"}
                      /\ item[k].status \in {"none", "hit", "fallback", "error"}
                      /\ place[k].vendor \in 0 .. 5 /\ place[k].source \in 1 .. 6
    BY DEF PoolTypeOK, PoolInv, PoolTyped
  <2>1. PoolTyped /\ place[k] \in Places /\ item[k] \in Items
    BY DEF PoolInv, PoolTyped
  <2> QED
    BY <2>1 DEF PoolTyped, Places, Items
<1> QED
  BY <1>1, PoolAlways, PTL DEF PoolSpec

\* What an analysis says of its sources is what they said, whichever of them fail, and a
\* signal that speaks has rows to speak of: for every set of vendors, tasks and switches.
THEOREM PoolAlwaysTellsTruth == PoolSpec => []PoolTellsTruth
<1>1. PoolInv => PoolTellsTruth
  BY DEF PoolInv, TaskSound, Ended, SignalSound, PoolTellsTruth
<1> QED
  BY <1>1, PoolAlways, PTL DEF PoolSpec

-----------------------------------------------------------------------------
(* The five parts side by side.                                            *)

\* A step of the whole is a step of one part, and the others rest: each part behaves as it
\* does alone.
LEMMA PartsAsAlone ==
    /\ Init => StoreInit /\ CachesInit /\ PoolInit /\ SnapInit /\ MapInit
    /\ [Next]_platformVars =>
           /\ [StoreNext]_storeVars /\ [CachesNext]_cacheVars /\ [PoolNext]_poolVars
           /\ [SnapNext]_snapVars /\ [MapNext]_mapVars
<1>1. Init => StoreInit /\ CachesInit /\ PoolInit /\ SnapInit /\ MapInit
  BY DEF Init
<1>2. ASSUME [Next]_platformVars
      PROVE  /\ [StoreNext]_storeVars /\ [CachesNext]_cacheVars /\ [PoolNext]_poolVars
             /\ [SnapNext]_snapVars /\ [MapNext]_mapVars
  BY <1>2 DEF Next, platformVars, Storing, Quoting, Pooling, Snapping, Naming
<1> QED
  BY <1>1, <1>2

\* Every variable of the five parts has its type, whatever the constants.
THEOREM PlatformTypeCorrect == Spec => []PlatformTypeOK
<1>1. Spec => /\ StoreSpec /\ CachesInit /\ [][CachesNext]_cacheVars /\ PoolSpec
              /\ SnapInit /\ [][SnapNext]_snapVars /\ MapSpec
  BY PartsAsAlone, PTL DEF Spec, StoreSpec, PoolSpec, MapSpec
<1>2. CachesInv => CachesTypeOK
  BY DEF CachesInv, CachesTyped, Placed, CachesTypeOK
<1>3. SnapInv => SnapTypeOK
  BY SnapInvTyped
<1> QED
  BY <1>1, <1>2, <1>3, StoreTypeCorrect, CachesAlways, PoolTypeCorrect, SnapAlways, MapTypeCorrect, PTL
     DEF PlatformTypeOK

\* Side by side as alone: the caches answer with nothing older than they may, the pool
\* tells the truth of its sources, the snapshots are founded, and no names are forgotten.
THEOREM PlatformKeepsItsPromises ==
    Spec => [](CachesHonest /\ PoolTellsTruth /\ SnapshotFounded) /\ StockMapHonest
<1>1. Spec => /\ CachesInit /\ [][CachesNext]_cacheVars /\ PoolSpec
              /\ SnapInit /\ [][SnapNext]_snapVars /\ MapSpec
  BY PartsAsAlone, PTL DEF Spec, PoolSpec, MapSpec
<1>2. CachesInv => CachesHonest
  BY InvShares DEF CachesInv, CachesHonest
<1>3. SnapInv => SnapshotFounded
  BY SnapInvFounded
<1> QED
  BY <1>1, <1>2, <1>3, CachesAlways, PoolAlwaysTellsTruth, SnapAlways, MapAlwaysHonest, PTL
=============================================================================
