---------------------------- MODULE FastSnapshot ----------------------------
(***************************************************************************)
(* What a fast analysis knows of the market                                *)
(* (tradingagents/fastline/data_snapshot.py, feature_extractor.py and      *)
(* fast_analyst.py).  All sources are asked side by side on the threads of *)
(* the event loop's default executor, eight seconds long; then features    *)
(* are drawn from what came, and a model is asked on one more of these     *)
(* threads.  A thread cannot be stopped: a call that timed out runs on,    *)
(* holds its thread, and answers to nobody.  Several snapshots share the   *)
(* executor.  The deadline of thirty seconds lies behind the eight of      *)
(* every source and never decides.  FastRun models what a run writes.      *)
(***************************************************************************)
EXTENDS Vendors, FiniteSets

CONSTANTS
    Snapshots,      \* runs of fast analyses
    SourceSets,     \* sets of sources followed together
    Threads,        \* max_workers of the default executor
    FactorSwitch    \* {"factor"} or {}: TA_TUSHARE_FACTOR_ENABLED

\* SOURCE_LABELS
SourceLabels == {"kline_60d", "rt_k", "factor", "mins", "moneyflow", "industry_flow", "index_pulse",
                 "top_list", "limit_list", "anns", "basic", "auction"}

ASSUME SnapshotAssumption ==
    /\ IsFiniteSet(Snapshots) /\ Threads \in Nat \ {0}
    /\ SourceSets \subseteq SUBSET SourceLabels

VARIABLES
    labels,   \* the sources followed
    stage,    \* stage[s]: where snapshot s is
    slot,     \* slot[s][l]: the status of source l
    call,     \* call[s][l]: its call: where it is, at which request, what it kept
    model,    \* model[s]: the call of the language model, and the try
    line,     \* the executor's queue: the turns of the snapshots, in order
    features, \* features[s]: the features that have a value
    verdict,  \* verdict[s]
    intime    \* history: intime[s]: the sources that returned rows in their eight seconds

snapVars == <<labels, stage, slot, call, model, line, features, verdict, intime>>

-----------------------------------------------------------------------------
\* fetch_index_realtime: four names of the realtime interface, then the last bars of the
\* indices, two of them here.
IndexPulse == Method([i \in 1 .. 4 |-> Source("rows", "next", "next")]
                        \o [i \in 1 .. 2 |-> Source("keep", "next", "next")], "frame")
\* fetch_moneyflow_industry_dc
IndustryFlow == Method([i \in 1 .. 3 |-> Source("rows", "frame", "next")], "raises")
\* fetch_top_list: the list, then the seats.
TopListOfDay == Method(<<Source("keep", "next", "raises"), Source("keep", "next", "next")>>, "frame")

\* What collect_snapshot asks of the provider for a source.
Asks(l) ==
    CASE l = "kline_60d" -> TsBarFrame
      [] l = "factor" -> TsFactor(FactorSwitch)
      [] l = "industry_flow" -> IndustryFlow
      [] l = "index_pulse" -> IndexPulse
      [] l = "top_list" -> TopListOfDay
      [] l = "auction" -> TsAuction
      [] OTHER -> OneCall

\* The day is told apart by whether the analysis is about today, and the hour by what is
\* published: "early" is before 9:25, "session" the rest until the close.
Days == {"today", "past", "no trading"}
Hours == {"early", "session", "closed"}

\* _eod_skip_for_phase
EodOnly == {"moneyflow", "industry_flow", "basic", "limit_list", "top_list"}
EodSkips(l, day, hour) == l \in EodOnly /\ day = "today" /\ hour # "closed"

\* _auction_available
AuctionAvailable(day, hour) == day = "past" \/ (day = "today" /\ hour # "early")

Skips(l, day, hour) ==
    \/ EodSkips(l, day, hour)
    \/ l = "auction" /\ ~AuctionAvailable(day, hour)

-----------------------------------------------------------------------------
\* The executor.  A snapshot puts its calls in line all at once, that of its model later: a
\* turn is <<s, "sources">> or <<s, "model">>, and is in the line while calls of it wait.

Running == {e \in Snapshots \X labels : call[e[1]][e[2]].pc = "calling"}
Modelling == {s \in Snapshots : model[s].pc = "calling"}
Busy == Cardinality(Running) + Cardinality(Modelling)

NoCall == [pc |-> "none", request |-> 1, kept |-> FALSE]

\* SOURCE_LABELS in the order in which the calls are made.
InOrder == <<"kline_60d", "rt_k", "factor", "mins", "moneyflow", "industry_flow", "index_pulse",
             "top_list", "limit_list", "anns", "basic", "auction">>

\* A snapshot begins: every source that is not skipped is put in line.
BeginSnapshot(s, day, hour) ==
    LET asked == {l \in labels : ~Skips(l, day, hour)} IN
    /\ stage[s] = "new"
    /\ stage' = [stage EXCEPT ![s] = "collecting"]
    /\ slot' = [slot EXCEPT ![s] = [l \in labels |-> IF l \in asked THEN "pending" ELSE "skipped"]]
    /\ call' = [call EXCEPT ![s] = [l \in labels |->
                   IF l \in asked THEN [NoCall EXCEPT !.pc = "queued"] ELSE NoCall]]
    /\ line' = IF asked = {} THEN line ELSE Append(line, <<s, "sources">>)
    /\ UNCHANGED <<labels, model, features, verdict, intime>>

Queued(s) == {l \in labels : call[s][l].pc = "queued"}
Waits(turn) == IF turn[2] = "model" THEN model[turn[1]].pc = "queued" ELSE Queued(turn[1]) # {}

\* The call whose turn it is gets a thread; the turn is over with the last.
TakeTurn(turn) ==
    LET s == turn[1] IN
    IF turn[2] = "model"
    THEN model' = [model EXCEPT ![s].pc = "calling"] /\ line' = Tail(line) /\ UNCHANGED call
    ELSE \E i \in DOMAIN InOrder :
            /\ InOrder[i] \in Queued(s) /\ \A h \in 1 .. (i - 1) : InOrder[h] \notin Queued(s)
            /\ call' = [call EXCEPT ![s][InOrder[i]].pc = "calling"]
            /\ line' = IF Queued(s) = {InOrder[i]} THEN Tail(line) ELSE line
            /\ UNCHANGED model

\* Mutant of TakeFromLine: every call gets a thread of its own.
TakeOnNewThread ==
    /\ line # <<>>
    /\ TakeTurn(Head(line))
    /\ UNCHANGED <<labels, stage, slot, features, verdict, intime>>

\* A thread takes the first of the line.
TakeFromLine ==
    /\ line # <<>> /\ Busy < Threads
    /\ TakeTurn(Head(line))
    /\ UNCHANGED <<labels, stage, slot, features, verdict, intime>>

\* _safe_call: what a result makes of the slot; a table without rows is "ok" as well.
StatusOf(result) ==
    CASE result = "rows" -> "ok"
      [] result = "frame" -> "bare"
      [] result = "unsupported" -> "unsupported_channel"
      [] result = "raises" -> "unavailable"

\* Mutant of Returns: the slot is filled though nobody waits any more.
ReturnsAnyway(s, l, result) ==
    /\ call' = [call EXCEPT ![s][l].pc = "over"]
    /\ slot' = [slot EXCEPT ![s][l] = StatusOf(result)]
    /\ intime' = IF slot[s][l] = "pending" /\ result = "rows"
                 THEN [intime EXCEPT ![s] = @ \union {l}] ELSE intime

\* The thread is done; the result fills the slot if the event loop still waits for it.
Returns(s, l, result) ==
    /\ call' = [call EXCEPT ![s][l].pc = "over"]
    /\ slot' = IF slot[s][l] = "pending" THEN [slot EXCEPT ![s][l] = StatusOf(result)] ELSE slot
    /\ intime' = IF slot[s][l] = "pending" /\ result = "rows"
                 THEN [intime EXCEPT ![s] = @ \union {l}] ELSE intime

\* The vendor answers a request of source l.
SourceAnswers(s, l, answer) ==
    LET method == Asks(l)
        c == call[s][l]
        reaction == method.sources[c.request][answer]
        kept == c.kept \/ reaction = "keep" IN
    /\ c.pc = "calling" /\ method.sources # <<>>
    /\ CASE reaction \in {"rows", "frame", "raises"} -> Returns(s, l, reaction)
         [] reaction \in {"keep", "next"} /\ c.request < Len(method.sources) ->
              /\ call' = [call EXCEPT ![s][l] =
                   [pc |-> "calling", request |-> c.request + 1, kept |-> kept]]
              /\ UNCHANGED <<slot, intime>>
         [] OTHER -> Returns(s, l, IF kept THEN "rows" ELSE method.spent)
    /\ UNCHANGED <<labels, stage, model, line, features, verdict>>

\* A source that is switched off returns an empty table; without the tushare package every
\* one raises NotImplementedError.
SourceAnswersAtOnce(s, l, result) ==
    /\ call[s][l].pc = "calling" /\ call[s][l].request = 1
    /\ result = "unsupported" \/ (Asks(l).sources = <<>> /\ result = Asks(l).spent)
    /\ Returns(s, l, result)
    /\ UNCHANGED <<labels, stage, model, line, features, verdict>>

Pending(s) == {l \in labels : slot[s][l] = "pending"}

\* The calls of a turn that still wait are cancelled; what has a thread keeps it.
Leaves(turn) ==
    \/ (\A k \in DOMAIN line : line[k] # turn) /\ UNCHANGED line
    \/ \E k \in DOMAIN line :
          line[k] = turn /\ line' = SubSeq(line, 1, k - 1) \o SubSeq(line, k + 1, Len(line))

\* Mutant of SourcesTimeOut: the time counts from when the call has a thread.
TimeOutOnThread(s) ==
    LET due == {l \in Pending(s) : call[s][l].pc = "calling"} IN
    /\ stage[s] = "collecting" /\ due # {}
    /\ slot' = [slot EXCEPT ![s] = [l \in labels |-> IF l \in due THEN "timeout" ELSE @[l]]]
    /\ UNCHANGED <<labels, stage, call, model, line, features, verdict, intime>>

\* wait_for: eight seconds after they were created, whether they had a thread or waited in
\* line, the calls that have not returned time out.
SourcesTimeOut(s) ==
    /\ stage[s] = "collecting" /\ Pending(s) # {}
    /\ slot' = [slot EXCEPT ![s] = [l \in labels |-> IF l \in Pending(s) THEN "timeout" ELSE @[l]]]
    /\ call' = [call EXCEPT ![s] = [l \in labels |-> IF @[l].pc = "queued" THEN NoCall ELSE @[l]]]
    /\ Leaves(<<s, "sources">>)
    /\ UNCHANGED <<labels, stage, model, features, verdict, intime>>

-----------------------------------------------------------------------------
\* extract_fast_features: the sources a feature is read from; of the alternatives the
\* first that has it (of the lists of a day the last row, whatever its symbol).  A feature
\* without one has no value, but for the two that are then 0.
FeatureTable ==
    [intraday_vwap_dev |-> {{"mins"}}, vol_ratio_5min |-> {{"mins"}},
     intraday_pos_in_range |-> {{"rt_k"}}, bid_ask_imbalance |-> {{"rt_k"}},
     factor_rsi_14 |-> {{"factor"}}, factor_macd_dif_signal |-> {{"factor"}},
     factor_boll_pos |-> {{"factor"}}, factor_atr_pct |-> {{"factor", "rt_k"}},
     big_order_net_inflow_pct |-> {{"moneyflow"}}, industry_strength_rank |-> {{"industry_flow"}},
     northbound_change_pct |-> {}, lhb_inst_net_buy_7d |-> {{"top_list"}},
     limit_streak_today |-> {{"limit_list"}}, market_pulse_score |-> {{"index_pulse"}},
     relative_strength_vs_index |-> {{"rt_k", "index_pulse"}}, position_pnl_state |-> {{"rt_k"}},
     news_catalyst_score |-> {{"anns"}}, valuation_percentile_3y |-> {{"basic"}, {"factor"}},
     liquidity_turnover |-> {{"basic"}, {"factor"}}, auction_premium_pct |-> {{"auction"}},
     auction_volume_ratio |-> {{"auction"}}, intraday_vs_auction_pct |-> {{"auction", "rt_k"}},
     kline_ma_alignment_score |-> {{"kline_60d"}}, kline_total_return_pct |-> {{"kline_60d"}},
     kline_close_vs_ma20_pct |-> {{"kline_60d"}}]
ZeroWithout == {"limit_streak_today", "news_catalyst_score"}

Has(s, l) == l \in labels /\ slot[s][l] = "ok"
Populated(s) ==
    {f \in DOMAIN FeatureTable : \E of \in FeatureTable[f] : \A l \in of : Has(s, l)} \union ZeroWithout

\* data_completeness is Complete over Eligible.
Complete(s) == Cardinality({l \in labels : slot[s][l] \in {"ok", "bare"}})
Eligible(s) == Cardinality({l \in labels : slot[s][l] # "skipped"})

\* Every source has its status: the features are drawn, and the model is put in line.
Extract(s) ==
    /\ stage[s] = "collecting" /\ Pending(s) = {}
    /\ stage' = [stage EXCEPT ![s] = "asking"]
    /\ features' = [features EXCEPT ![s] = Populated(s)]
    /\ model' = [model EXCEPT ![s].pc = "queued"]
    /\ line' = Append(line, <<s, "model">>)
    /\ UNCHANGED <<labels, slot, call, verdict, intime>>

\* run_fast_analyst: an answer that cannot be read is asked for once more; what fails
\* comes to a neutral verdict.  The run takes it if it still waits.
ModelAnswers(s, answer) ==
    /\ model[s].pc = "calling"
    /\ IF answer = "unreadable" /\ model[s].tries = 0
       THEN model' = [model EXCEPT ![s].tries = 1] /\ UNCHANGED <<stage, verdict>>
       ELSE /\ model' = [model EXCEPT ![s].pc = "over"]
            /\ IF stage[s] = "asking"
               THEN /\ stage' = [stage EXCEPT ![s] = "finished"]
                    /\ verdict' = [verdict EXCEPT ![s] = IF answer = "good" THEN "opinion" ELSE "neutral"]
               ELSE UNCHANGED <<stage, verdict>>
    /\ UNCHANGED <<labels, slot, call, line, features, intime>>

\* The run waits with a heartbeat, and fails when the budget is over (fast_budget_sec).
BudgetOver(s) ==
    /\ stage[s] = "asking"
    /\ stage' = [stage EXCEPT ![s] = "failed"]
    /\ model' = [model EXCEPT ![s].pc = IF @ = "queued" THEN "over" ELSE @]
    /\ Leaves(<<s, "model">>)
    /\ UNCHANGED <<labels, slot, call, features, verdict, intime>>

SnapInit ==
    /\ labels \in SourceSets
    /\ stage = [s \in Snapshots |-> "new"]
    /\ slot = [s \in Snapshots |-> [l \in labels |-> "pending"]]
    /\ call = [s \in Snapshots |-> [l \in labels |-> NoCall]]
    /\ model = [s \in Snapshots |-> [pc |-> "none", tries |-> 0]]
    /\ line = <<>> /\ features = [s \in Snapshots |-> {}]
    /\ verdict = [s \in Snapshots |-> "none"] /\ intime = [s \in Snapshots |-> {}]

\* What the vendor and the model do, in their own time.
Outside(s) ==
    \/ \E l \in labels, answer \in {"rows", "empty", "fails"} : SourceAnswers(s, l, answer)
    \/ \E l \in labels, result \in {"unsupported", "frame"} : SourceAnswersAtOnce(s, l, result)
    \/ \E answer \in {"good", "unreadable", "fails"} : ModelAnswers(s, answer)

\* What the timers and the event loop do.
LoopStep(s) == SourcesTimeOut(s) \/ Extract(s) \/ BudgetOver(s)

SnapNext ==
    \/ \E s \in Snapshots, day \in Days, hour \in Hours : BeginSnapshot(s, day, hour)
    \/ TakeFromLine
    \/ \E s \in Snapshots : Outside(s) \/ LoopStep(s)

\* The timers and the loop go on; the vendors and the model may never answer.
SnapFairness == \A s \in Snapshots : WF_snapVars(LoopStep(s))
SnapSpec == SnapInit /\ [][SnapNext]_snapVars /\ SnapFairness

-----------------------------------------------------------------------------
\* The type of every variable.
SnapTypeOK ==
    /\ labels \in SourceSets
    /\ stage \in [Snapshots -> {"new", "collecting", "asking", "finished", "failed"}]
    /\ \A s \in Snapshots, l \in labels :
          /\ slot[s][l] \in {"pending", "ok", "bare", "timeout", "unavailable", "unsupported_channel", "skipped"}
          /\ call[s][l].pc \in {"none", "queued", "calling", "over"}
    /\ line \in Seq(Snapshots \X {"sources", "model"})
    /\ Busy <= Threads
    /\ verdict \in [Snapshots -> {"none", "opinion", "neutral"}]

\* Whatever was slow, failed or came too late, and whoever held the threads: the features a
\* verdict rests on were read from sources that returned rows in their eight seconds, the
\* snapshot that is kept beside the verdict is still the one they were read from, and no
\* call is in line that is not waited for.
SnapshotFounded ==
    /\ \A s \in Snapshots :
          /\ \A f \in features[s] \ ZeroWithout : \E of \in FeatureTable[f] : of \subseteq intime[s]
          /\ stage[s] \notin {"new", "collecting"} => features[s] = Populated(s) /\ Pending(s) = {}
          /\ Complete(s) <= Eligible(s)
          /\ \A l \in Queued(s) : slot[s][l] = "pending"
          /\ model[s].pc = "queued" => stage[s] = "asking"
    /\ \A k \in DOMAIN line : Waits(line[k])

\* A fast analysis that began ends with a verdict or a failure, even when the threads are
\* all held by calls that never return.
SnapshotsEnd == \A s \in Snapshots : stage[s] = "collecting" ~> stage[s] \in {"finished", "failed"}
=============================================================================
