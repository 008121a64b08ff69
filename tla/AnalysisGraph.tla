--------------------------- MODULE AnalysisGraph ---------------------------
(***************************************************************************)
(* The graph of agents behind one analysis: the analysts in parallel, the  *)
(* debate of the researchers, the trader, the debate on the risk of his    *)
(* plan and the judge, who may send the plan back.  One agent's answer is  *)
(* one step; between two of them the state is in a checkpoint, from which  *)
(* an attempt that failed may be resumed.                                  *)
(***************************************************************************)
EXTENDS Naturals, Sequences

CONSTANTS
    Analysts,      \* the analysts selected for the job
    DebateRounds,  \* max_debate_rounds
    RiskRounds,    \* max_risk_discuss_rounds
    MaxClaims,     \* bound: claims raised in one debate
    MaxPlans,      \* bound on the plans told apart: more than the graph can write
    MaxFails       \* bound: attempts that fail

AnalystKeys == {"market", "social", "news", "fundamentals", "macro", "smart_money", "volume_price"}
Agents == {"Bull", "Bear", "Research Manager", "Trader", "Aggressive", "Conservative", "Neutral",
           "Risk Judge"}

ASSUME GraphAssumption ==
    /\ Analysts \subseteq AnalystKeys
    /\ DebateRounds \in Nat \ {0} /\ RiskRounds \in Nat \ {0}
    /\ MaxClaims \in Nat /\ MaxPlans \in Nat \ {0} /\ MaxFails \in Nat

VARIABLES
    nodes,      \* the agents whose turn it is (the tasks of the graph's superstep)
    reports,    \* the analysts whose report is in the state
    invest,     \* investment_debate_state
    risk,       \* risk_debate_state
    feedback,   \* risk_feedback_state
    plan,       \* trader_investment_plan: how many the trader has written
    decision,   \* final_trade_decision: the plan it is about, and the verdict
    grun,       \* the attempt: "new", "running", "failed" or "delivered"
    fails       \* attempts that failed

graphVars == <<nodes, reports, invest, risk, feedback, plan, decision, grun, fails>>

RiskTeam == <<"Aggressive", "Conservative", "Neutral">>
Verdicts == {"pass", "revise", "reject"}
NoDecision == [about |-> 0, verdict |-> ""]

\* A debate: who argued about which plan, the number of arguments, who spoke
\* last, the status of each claim, and the claims by state.
EmptyDebate ==
    [history |-> <<>>, count |-> 0, speaker |-> "", status |-> <<>>,
     open |-> {}, resolved |-> {}, unresolved |-> {}]

NoFeedback == [retry_count |-> 0, revision_required |-> FALSE, latest_risk_verdict |-> ""]
max_retries == 1

\* The state given to the graph when it does not resume.
create_initial_state ==
    /\ nodes' = Analysts /\ reports' = {} /\ invest' = EmptyDebate /\ risk' = EmptyDebate
    /\ feedback' = NoFeedback /\ plan' = 0 /\ decision' = NoDecision

GraphInit ==
    /\ nodes = {} /\ reports = {} /\ invest = EmptyDebate /\ risk = EmptyDebate
    /\ feedback = NoFeedback /\ plan = 0 /\ decision = NoDecision
    /\ grun = "new" /\ fails = 0

-----------------------------------------------------------------------------
(* Routing *)

should_continue_debate(d) ==
    IF d.count >= 2 * DebateRounds THEN "Research Manager"
    ELSE IF d.speaker = "Bull" THEN "Bear" ELSE "Bull"

should_continue_risk_analysis(d) ==
    CASE d.count >= 3 * RiskRounds -> "Risk Judge"
      [] d.count < 3 * RiskRounds /\ d.speaker = "Aggressive"   -> "Conservative"
      [] d.count < 3 * RiskRounds /\ d.speaker = "Conservative" -> "Neutral"
      [] OTHER -> "Aggressive"

should_revise_after_risk_judge(f) ==
    IF f.revision_required /\ f.retry_count <= max_retries THEN {"Trader"} ELSE {}

-----------------------------------------------------------------------------
(* Debates *)

\* What the machine-readable block of an answer may say of the claims; ids that
\* are not known are dropped, a block that cannot be read says nothing.
Payloads(d) ==
    LET known == 1..Len(d.status)
    IN  [responded : SUBSET known, resolved : SUBSET known, unresolved : SUBSET known,
         new : 0..(MaxClaims - Len(d.status))]

\* The status of a known claim after an answer: what is called unresolved is
\* written last.
ClaimStatus(d, answer, c) ==
    CASE c \in answer.unresolved -> "unresolved"
      [] c \in answer.resolved \ answer.unresolved -> "resolved"
      [] c \in answer.responded \ (answer.resolved \cup answer.unresolved)
           /\ d.status[c] = "open" -> "addressed"
      [] OTHER -> d.status[c]

\* A claim that was resolved and is disputed again stays among the resolved ones.
ReopenedStaysResolved(d, who, answer) ==
    LET old == Len(d.status)
        all == old + answer.new
    IN  [history    |-> Append(d.history, <<who, plan>>),
         count      |-> d.count + 1,
         speaker    |-> who,
         status     |-> [c \in 1..all |-> IF c > old THEN "open" ELSE ClaimStatus(d, answer, c)],
         open       |-> (d.open \ answer.resolved) \cup answer.unresolved \cup (old + 1)..all,
         resolved   |-> d.resolved \cup answer.resolved,
         unresolved |-> (d.unresolved \ answer.resolved) \cup answer.unresolved]

update_debate_state_with_payload(d, who, answer) ==
    LET old == Len(d.status)
        all == old + answer.new
    IN  [history    |-> Append(d.history, <<who, plan>>),
         count      |-> d.count + 1,
         speaker    |-> who,
         status     |-> [c \in 1..all |-> IF c > old THEN "open" ELSE ClaimStatus(d, answer, c)],
         open       |-> (d.open \ answer.resolved) \cup answer.unresolved \cup (old + 1)..all,
         resolved   |-> (d.resolved \cup answer.resolved) \ answer.unresolved,
         unresolved |-> (d.unresolved \ answer.resolved) \cup answer.unresolved]

-----------------------------------------------------------------------------
(* Agents *)

Turn(n) == grun = "running" /\ n \in nodes

\* An analyst writes its report: it has its data before it starts and calls no
\* tool, so that it is done; the debate starts when all are done.
Analyst(a) ==
    /\ Turn(a)
    /\ reports' = reports \cup {a}
    /\ nodes' = IF nodes = {a} THEN {"Bull"} ELSE nodes \ {a}
    /\ UNCHANGED <<invest, risk, feedback, plan, decision, grun, fails>>

MarketAnalyst       == "market" \in Analysts /\ Analyst("market")
SocialMediaAnalyst  == "social" \in Analysts /\ Analyst("social")
NewsAnalyst         == "news" \in Analysts /\ Analyst("news")
FundamentalsAnalyst == "fundamentals" \in Analysts /\ Analyst("fundamentals")
MacroAnalyst        == "macro" \in Analysts /\ Analyst("macro")
SmartMoneyAnalyst   == "smart_money" \in Analysts /\ Analyst("smart_money")
VolumePriceAnalyst  == "volume_price" \in Analysts /\ Analyst("volume_price")

\* A researcher argues for or against; the claims of the answer are booked.
Researcher(who) ==
    /\ Turn(who)
    /\ \E answer \in Payloads(invest) :
           invest' = update_debate_state_with_payload(invest, who, answer)
    /\ nodes' = {should_continue_debate(invest')}
    /\ UNCHANGED <<reports, risk, feedback, plan, decision, grun, fails>>

BullResearcher == Researcher("Bull")
BearResearcher == Researcher("Bear")

ResearchManager ==
    /\ Turn("Research Manager")
    /\ nodes' = {"Trader"}
    /\ UNCHANGED <<reports, invest, risk, feedback, plan, decision, grun, fails>>

\* The debate on the earlier plan is kept.
TraderKeepsDebate ==
    /\ Turn("Trader")
    /\ plan' = IF plan < MaxPlans THEN plan + 1 ELSE plan
    /\ IF feedback.latest_risk_verdict = "revise"
       THEN feedback' = [feedback EXCEPT !.revision_required = FALSE] ELSE UNCHANGED feedback
    /\ nodes' = {"Aggressive"}
    /\ UNCHANGED <<reports, invest, risk, decision, grun, fails>>

\* A plan that answers a revision starts the debate on its risk anew.
Trader ==
    /\ Turn("Trader")
    /\ plan' = IF plan < MaxPlans THEN plan + 1 ELSE plan
    /\ IF feedback.latest_risk_verdict = "revise"
       THEN risk' = EmptyDebate /\ feedback' = [feedback EXCEPT !.revision_required = FALSE]
       ELSE UNCHANGED <<risk, feedback>>
    /\ nodes' = {"Aggressive"}
    /\ UNCHANGED <<reports, invest, decision, grun, fails>>

RiskDebater(who) ==
    /\ Turn(who)
    /\ \E answer \in Payloads(risk) :
           risk' = update_debate_state_with_payload(risk, who, answer)
    /\ nodes' = {should_continue_risk_analysis(risk')}
    /\ UNCHANGED <<reports, invest, feedback, plan, decision, grun, fails>>

AggressiveDebator   == RiskDebater("Aggressive")
ConservativeDebator == RiskDebater("Conservative")
NeutralDebator      == RiskDebater("Neutral")

RiskJudge ==
    /\ Turn("Risk Judge")
    /\ \E verdict \in Verdicts :
           /\ feedback' = [retry_count |-> feedback.retry_count + (IF verdict = "revise" THEN 1 ELSE 0),
                           revision_required |-> verdict = "revise",
                           latest_risk_verdict |-> verdict]
           /\ decision' = [about |-> plan, verdict |-> verdict]
    /\ risk' = [risk EXCEPT !.speaker = "Judge"]
    /\ nodes' = should_revise_after_risk_judge(feedback')
    /\ UNCHANGED <<reports, invest, plan, grun, fails>>

-----------------------------------------------------------------------------
(* Attempts *)

\* The stream ends and the caller finds a decision and a plan.
Deliver ==
    /\ grun = "running" /\ nodes = {} /\ decision # NoDecision /\ plan # 0
    /\ grun' = "delivered"
    /\ UNCHANGED <<nodes, reports, invest, risk, feedback, plan, decision, fails>>

\* A node raises, the process dies, or what comes after the stream fails.
AttemptFails ==
    /\ grun \in {"running", "delivered"} /\ fails < MaxFails
    /\ grun' = "failed" /\ fails' = fails + 1
    /\ UNCHANGED <<nodes, reports, invest, risk, feedback, plan, decision>>

\* A resumed run goes on from the checkpoint: agents that had answered are not
\* asked again.
ResumeGraph ==
    /\ grun = "failed" /\ grun' = "running"
    /\ UNCHANGED <<nodes, reports, invest, risk, feedback, plan, decision, fails>>

\* The first attempt starts from the initial state; a repeated one, and a resumed
\* run that finds no checkpoint, start over.
StartGraph ==
    /\ grun \in {"new", "failed"} /\ grun' = "running"
    /\ create_initial_state
    /\ UNCHANGED fails

AgentStep ==
    \/ MarketAnalyst \/ SocialMediaAnalyst \/ NewsAnalyst \/ FundamentalsAnalyst \/ MacroAnalyst
    \/ SmartMoneyAnalyst \/ VolumePriceAnalyst
    \/ BullResearcher \/ BearResearcher \/ ResearchManager \/ Trader
    \/ AggressiveDebator \/ ConservativeDebator \/ NeutralDebator \/ RiskJudge
    \/ Deliver

GraphNext == AgentStep \/ AttemptFails \/ ResumeGraph \/ StartGraph

GraphSpec == GraphInit /\ [][GraphNext]_graphVars /\ WF_graphVars(AgentStep)

-----------------------------------------------------------------------------
(* Properties *)

Debates ==
    [history : Seq({"Bull", "Bear", "Aggressive", "Conservative", "Neutral"} \X (0..MaxPlans)),
     count : Nat, speaker : {"", "Bull", "Bear", "Aggressive", "Conservative", "Neutral", "Judge"},
     status : Seq({"open", "addressed", "resolved", "unresolved"}),
     open : SUBSET (1..MaxClaims), resolved : SUBSET (1..MaxClaims),
     unresolved : SUBSET (1..MaxClaims)]

\* The type of the graph's state.
GraphTypeOK ==
    /\ nodes \subseteq Analysts \cup Agents
    /\ reports \subseteq Analysts /\ invest \in Debates /\ risk \in Debates
    /\ feedback \in [retry_count : 0..(max_retries + 1), revision_required : BOOLEAN,
                     latest_risk_verdict : Verdicts \cup {""}]
    /\ plan \in 0..MaxPlans
    /\ decision \in [about : 0..MaxPlans, verdict : Verdicts \cup {""}]
    /\ grun \in {"new", "running", "failed", "delivered"} /\ fails \in 0..MaxFails

\* What is delivered was heard in full: every analyst reported, the researchers
\* spoke in turn for all their rounds, and the decision is about the trader's
\* last plan, on which (and on no earlier one) each of the three risk analysts
\* spoke in every round - across revisions, failed attempts and resumes.
FairHearing ==
    grun = "delivered" =>
        /\ reports = Analysts
        /\ invest.history = [i \in 1..(2 * DebateRounds) |-> <<IF i % 2 = 1 THEN "Bull" ELSE "Bear", 0>>]
        /\ decision.about = plan
        /\ risk.history = [i \in 1..(3 * RiskRounds) |-> <<RiskTeam[((i - 1) % 3) + 1], plan>>]

\* The books of a debate agree: a claim is open or resolved and not both, a
\* disputed one is open, and the status of a claim says the same as the lists,
\* in whatever order the speakers settle, dispute and reopen it.
ClaimsAgree ==
    \A d \in {invest, risk} :
        /\ d.open \cap d.resolved = {} /\ d.open \cup d.resolved = 1..Len(d.status)
        /\ d.unresolved \subseteq d.open
        /\ \A c \in 1..Len(d.status) :
               /\ d.status[c] = "resolved" <=> c \in d.resolved
               /\ d.status[c] = "unresolved" <=> c \in d.unresolved

\* An attempt ends: debates and revisions are bounded, whatever the judge says.
GraphEnds == grun = "running" ~> grun \in {"failed", "delivered"}
=============================================================================
