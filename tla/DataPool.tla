------------------------------ MODULE DataPool ------------------------------
(***************************************************************************)
(* What the data pool of an analysis holds and what it says of its sources *)
(* (tradingagents/graph/data_collector.py, dataflows/interface.py).  The    *)
(* tasks of a pool run side by side; each goes along a chain of vendors,   *)
(* whose methods are those of Vendors.  Signals are derived                *)
(* from the tasks' results, and what is shown of every source is what the  *)
(* route noted of it.  DataSources models the throttle and the lock of the *)
(* calls, JobShared how jobs share a pool.                                 *)
(***************************************************************************)
EXTENDS Vendors, FiniteSets

CONSTANTS
    Batches,       \* the sets of tasks followed together
    ProviderSets,  \* the sets of registered vendors told apart
    SwitchSets     \* what may be switched on ("l2", "factor", "auction_oc", "translator"), and
                   \* "etf" when the symbol is one

VARIABLES
    tasks,      \* the tasks followed, keys of TASK_TO_METHOD
    registered, \* _registry
    switches,   \* what is switched on
    place,      \* place[k]: the vendor whose turn it is, its source, what was kept
    item,       \* item[k]: the result of task k and what was noted of it
    heard,      \* history: heard[k]: what the sources of each vendor said
    signal      \* what was derived, "none" before

poolVars == <<tasks, registered, switches, place, item, heard, signal>>

-----------------------------------------------------------------------------
\* The vendors after the n-th that are registered and offer the method.
Offering(k, n) ==
    {m \in n + 1 .. Len(FallbackChain(k)) :
        FallbackChain(k)[m] \in registered /\ Offer(FallbackChain(k)[m], k, switches) # Unoffered}
Vendor(k) == FallbackChain(k)[place[k].vendor]

NoItem == [value |-> "pending", vendor |-> "none", status |-> "none"]
At(n) == [vendor |-> n, source |-> 1, kept |-> FALSE, lost |-> FALSE]

\* The task ends with the result of the n-th vendor; the first of the chain is a hit.
Ends(k, n, value) ==
    /\ item' = [item EXCEPT ![k] = [value |-> value, vendor |-> FallbackChain(k)[n],
                    status |-> IF n = 1 THEN "hit" ELSE "fallback"]]
    /\ UNCHANGED place

\* The next vendor that offers the method; without one there is no result, and what is
\* shown as its vendor is the first of the chain (enrich_data_source_item).
VendorAfter(k, n) == CHOOSE m \in Offering(k, n) : \A l \in Offering(k, n) : m <= l
NextVendorOf(k, n) ==
    \/ /\ Offering(k, n) = {}
       /\ item' = [item EXCEPT ![k] = [value |-> "none", vendor |-> FallbackChain(k)[1], status |-> "error"]]
       /\ UNCHANGED place
    \/ /\ Offering(k, n) # {}
       /\ LET m == VendorAfter(k, n)
              method == Offer(FallbackChain(k)[m], k, switches) IN
          IF method.sources = <<>> THEN Ends(k, m, method.spent)
          ELSE place' = [place EXCEPT ![k] = At(m)] /\ UNCHANGED item

\* The task is taken from the executor's queue.
BeginTask(k) ==
    /\ item[k].value = "pending" /\ place[k].vendor = 0
    /\ NextVendorOf(k, 0)
    /\ UNCHANGED <<tasks, registered, switches, heard, signal>>

\* What the rows that were kept come to at the end: rows, or a part of them.
KeptRows(kept, lost) == IF ~kept THEN {} ELSE IF lost THEN {"part"} ELSE {"rows"}

\* A source of the vendor answers.
CallSource(k, answer) ==
    LET method == Offer(Vendor(k), k, switches)
        reaction == method.sources[place[k].source][answer]
        next == place[k].source + IF reaction = "skip" THEN 2 ELSE 1
        kept == place[k].kept \/ reaction \in {"keep", "skip"}
        lost == place[k].lost \/ answer = "fails"
        opens == answer = "rows" /\ reaction = "next" IN
    /\ item[k].value = "pending" /\ place[k].vendor > 0
    /\ heard' = [heard EXCEPT ![k] = @ \union {<<Vendor(k), IF opens THEN "opens" ELSE answer>>}]
    /\ CASE reaction \in {"rows", "text", "frame"} -> Ends(k, place[k].vendor, reaction)
         [] reaction = "raises" -> NextVendorOf(k, place[k].vendor)
         [] OTHER ->
              IF next <= Len(method.sources)
              THEN /\ place' = [place EXCEPT ![k] = [vendor |-> @.vendor, source |-> next, kept |-> kept, lost |-> lost]]
                   /\ UNCHANGED item
              ELSE \/ \E value \in KeptRows(kept, lost) : Ends(k, place[k].vendor, value)
                   \/ ~kept /\ method.spent # "raises" /\ Ends(k, place[k].vendor, method.spent)
                   \/ ~kept /\ method.spent = "raises" /\ NextVendorOf(k, place[k].vendor)
    /\ UNCHANGED <<tasks, registered, switches, signal>>

-----------------------------------------------------------------------------
\* The derived signals: what results.get gives, and what counts as data: a text with
\* rows where a text is read, a table with rows where a table is.
Result(k) == IF k \in tasks THEN item[k].value ELSE "none"
Filled(k) == Result(k) \in {"rows", "part"}

\* Bars: the CSV is parsed once, a text without a table comes to nothing.
Indicators == Filled("stock_data")
VpaIndicators == Filled("stock_data")
OpeningAuctionSignal == Filled("opening_auction")
AuctionStrength == Filled("opening_auction_o") \/ Filled("opening_auction_c")
ActiveBuyProxy == Filled("individual_moneyflow_df_window")
\* The board's flow is a text, which _to_df takes for an empty table.
MoneyflowStructure == Filled("individual_moneyflow_df_window") \/ Filled("top_list_df_window")
\* So are the statements.
FinancialHealth == Filled("fina_indicator_df")
\* sentiment_data: any text will do.
SentimentHot == Result("hot_stocks") # "none"
SentimentNews == Result("news") # "none"

NoSignal == [s \in {"indicators", "vpa", "auction", "strength", "active_buy", "moneyflow", "health", "hot", "news"}
                |-> "none"]
Says(content) == IF content THEN "content" ELSE "insufficient"
SwitchedOn(switch, content) == IF switch \in switches THEN Says(content) ELSE "none"

\* _fetch_all goes on when every task is done.
Derive ==
    /\ \A k \in tasks : item[k].value # "pending"
    /\ signal = NoSignal
    /\ signal' = [indicators |-> Says(Indicators), vpa |-> Says(VpaIndicators),
                  auction |-> Says(OpeningAuctionSignal),
                  strength |-> SwitchedOn("auction_oc", AuctionStrength),
                  active_buy |-> SwitchedOn("translator", ActiveBuyProxy),
                  moneyflow |-> SwitchedOn("translator", MoneyflowStructure),
                  health |-> SwitchedOn("translator", FinancialHealth),
                  hot |-> Says(SentimentHot), news |-> Says(SentimentNews)]
    /\ UNCHANGED <<tasks, registered, switches, place, item, heard>>

PoolInit ==
    /\ tasks \in Batches /\ registered \in ProviderSets /\ switches \in SwitchSets
    /\ place = [k \in tasks |-> At(0)]
    /\ item = [k \in tasks |-> NoItem]
    /\ heard = [k \in tasks |-> {}]
    /\ signal = NoSignal

PoolNext ==
    \/ \E k \in tasks : BeginTask(k)
    \/ \E k \in tasks, answer \in {"rows", "empty", "fails"} : CallSource(k, answer)
    \/ Derive

PoolSpec == PoolInit /\ [][PoolNext]_poolVars

-----------------------------------------------------------------------------
\* The type of every variable.
PoolTypeOK ==
    /\ tasks \in Batches /\ registered \in ProviderSets /\ switches \in SwitchSets
    /\ \A k \in tasks : item[k].value \in {"pending", "rows", "part", "text", "frame", "none"}
    /\ \A k \in tasks : item[k].status \in {"none", "hit", "fallback", "error"}
    /\ \A k \in tasks : place[k].vendor \in 0 .. 5 /\ place[k].source \in 1 .. 6

\* The methods known to pass off a failed call as their answer.
Swallowing ==
    {<<"cn_tushare", k>> : k \in {"fund_flow_board", "lhb", "top_list_history", "top_list_df_window"}}
    \union {<<"cn_akshare", k>> : k \in {"fund_flow_board", "fund_flow_individual", "lhb", "zt_pool", "hot_stocks"}}
    \union {<<"yfinance", k>> : k \in Statements \union News \union {"fundamentals"}}

Accumulates(m) == \E i \in DOMAIN m.sources : m.sources[i].rows = "keep"

\* What is said of task k is what happened: rows are those of the vendor that is named and
\* a part is not called the whole; "no data" was the vendor's answer, but for the methods
\* that are known to swallow a failure; rows that an earlier vendor gave are not thrown
\* away; and there is an error only after all who offer the method were asked in vain.
ItemTrue(k) ==
    LET i == item[k]
        asked == {h[1] : h \in heard[k]} IN
    /\ i.value \in {"rows", "part"} => <<i.vendor, "rows">> \in heard[k]
    /\ i.value = "rows" /\ <<i.vendor, "fails">> \in heard[k] => ~Accumulates(Offer(i.vendor, k, switches))
    /\ i.value \in {"text", "frame"} =>
           \/ <<i.vendor, "empty">> \in heard[k] \/ <<i.vendor, k>> \in Swallowing
           \/ Offer(i.vendor, k, switches).sources = <<>>
    /\ i.status \in {"hit", "fallback"} => \A v \in asked \ {i.vendor} : <<v, "rows">> \notin heard[k]
    /\ i.status = "error" <=> i.value = "none"
    /\ i.status = "error" => asked = {FallbackChain(k)[m] : m \in Offering(k, 0)}

\* The sources of a pool tell the truth, whatever failed in whatever order, and a signal
\* that speaks has rows to speak of.
PoolTellsTruth ==
    /\ \A k \in tasks : item[k].value # "pending" => ItemTrue(k)
    /\ \A s \in DOMAIN signal \ {"hot", "news"} : signal[s] = "content" =>
           \E k \in tasks : \E v \in registered : <<v, "rows">> \in heard[k]
    /\ signal["indicators"] = signal["vpa"]
=============================================================================
