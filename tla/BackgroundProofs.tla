-------------------------- MODULE BackgroundProofs --------------------------
(***************************************************************************)
(* What holds of the background work whatever the number of syncs, days,   *)
(* reports, stored analyses, requests, rounds and claims: the market-data  *)
(* loop leaves nothing of a day behind, a settled outcome stays as it is,  *)
(* a stored analysis is run as its row says, the counts of the             *)
(* administrator are those of the requests, the books of a debate agree    *)
(* and what is delivered was heard in full; and the six workers side by    *)
(* side, of which StartupProofs has the start, behave as each alone.  The  *)
(* bounds of MCBackground have no part in it.                              *)
(***************************************************************************)
EXTENDS MCBackground, StartupProofs, FiniteSetTheorems, SequenceTheorems,
        WellFoundedInduction, TLAPS

-----------------------------------------------------------------------------
(* The market-data loop.                                                   *)

\* The sync at a place is due at a tick, by a calendar.
DueBy(i, t, cal) == Plan[i].at <= t.hour /\ OnDay(Plan[i], IF Reread(i) THEN cal ELSE t.day)

\* Every variable has its type, the fields of the ticks included.
MarketTyped ==
    /\ mday \in Days /\ mhour \in Clock /\ mpc \in Place \union {0}
    /\ mtick \in [day : Nat, hour : Nat] /\ mcal \in Nat
    /\ mlast \in [day : Nat, hour : Nat, over : BOOLEAN]
    /\ mdone \subseteq Syncs \X Days
    /\ raises \in 0 .. MaxRaises /\ restarts \in 0 .. MaxRestarts

\* What the tick t has done when it stands before place i and has read the calendar cal.
DoneBefore(i, t, cal, done) ==
    \A j \in Place : (j < i /\ DueBy(j, t, cal)) => <<Plan[j].key, t.day>> \in done

\* A tick under way has done what was due at the places it has passed, by the calendar
\* it has read, which is that of its own day or of a later one.
PassedIsDone ==
    mpc # 0 =>
        /\ mtick.day \in Days /\ mtick.day <= mcal /\ mcal <= mday
        /\ DoneBefore(mpc, mtick, mcal, mdone)

\* The last tick that went through did all that was due by the calendar of its day.
LastIsDone ==
    (mlast.day # 0 /\ ~mlast.over) =>
        \A i \in Place : (Plan[i].at <= mlast.hour /\ OnDay(Plan[i], mlast.day))
                            => <<Plan[i].key, mlast.day>> \in mdone

MarketInv == MarketTyped /\ PassedIsDone /\ LastIsDone

\* The plan is a list, and every sync of it that is configured has its key in Syncs.
LEMMA PlanIsList == Place \subseteq Nat \ {0} /\ \A i \in Place : Plan[i].key \in Syncs
  BY DEF Place, Plan

\* Once the calendar has been read again it is read no more.
LEMMA RereadStays ==
    ASSUME NEW i \in Nat, NEW j \in Nat, i <= j, Reread(i)
    PROVE  Reread(j)
  BY DEF Reread

\* From finds the first place, from i on, whose sync is due, or 0 when none is.
LEMMA FromFinds ==
    ASSUME NEW i \in Nat, NEW t, NEW cal
    PROVE  /\ From(i, t, cal) \in Place \union {0}
           /\ From(i, t, cal) # 0 => From(i, t, cal) >= i /\ SyncDue(From(i, t, cal), t, cal)
           /\ \A j \in Place : (j >= i /\ SyncDue(j, t, cal)) => From(i, t, cal) # 0 /\ From(i, t, cal) <= j
<1> DEFINE D == {j \in Place : j >= i /\ SyncDue(j, t, cal)}
<1>1. From(i, t, cal) = IF D = {} THEN 0 ELSE CHOOSE j \in D : \A k \in D : j <= k
  BY DEF From
<1>2. CASE D = {}
  BY <1>1, <1>2
<1>3. CASE D # {}
  <2>1. D \subseteq Nat
    BY PlanIsList
  <2> HIDE DEF D
  <2>2. \E n \in D : \A m \in D : n <= m
    BY <2>1, <1>3, LeastNatural
  <2>3. From(i, t, cal) \in D /\ \A k \in D : From(i, t, cal) <= k
    BY <1>1, <1>3, <2>2
  <2>4. From(i, t, cal) # 0
    BY <2>3, PlanIsList DEF D
  <2> QED
    BY <2>3, <2>4 DEF D
<1> QED
  BY <1>2, <1>3

\* A tick that goes on from place i, with what was due before it done, either stands
\* before the next sync that is due, or is through and has left nothing.
LEMMA GoingOn ==
    ASSUME MarketTyped, LastIsDone, NEW i \in Nat \ {0}, NEW t \in [day : Days, hour : Nat],
           GoOn(i, t), mdone \subseteq mdone', mdone' \subseteq Syncs \X Days,
           UNCHANGED <<mday, mhour, raises, restarts>>,
           t.day <= Calendar(i), Calendar(i) <= mday, Calendar(i) \in Nat,
           DoneBefore(i, t, Calendar(i), mdone')
    PROVE  MarketInv'
<1> DEFINE cal == Calendar(i)
           j == From(i, t, cal)
<1>1. /\ j \in Place \union {0}
      /\ \A k \in Place : (k >= i /\ SyncDue(k, t, cal)) => j # 0 /\ j <= k
  BY FromFinds
<1>2. /\ mpc' = j /\ mtick' = t /\ mcal' = cal
      /\ mlast' = IF j = 0 THEN [day |-> t.day, hour |-> t.hour, over |-> mday > t.day] ELSE mlast
  BY DEF GoOn
<1> HIDE DEF j, cal
<1>3. t.day \in Days /\ t.day \in Nat /\ t.hour \in Nat /\ mday \in Nat
  BY MarketAssumption DEF MarketTyped
<1>4. (mday > t.day) \in BOOLEAN
  OBVIOUS
<1>5. mlast' \in [day : Nat, hour : Nat, over : BOOLEAN]
  BY <1>2, <1>3, <1>4 DEF MarketTyped
<1>6. MarketTyped'
  BY <1>1, <1>2, <1>3, <1>5 DEF MarketTyped, cal
<1>7. \A k \in Place : (k >= i /\ DueBy(k, t, cal) /\ (j = 0 \/ k < j)) => <<Plan[k].key, t.day>> \in mdone'
  <2> SUFFICES ASSUME NEW k \in Place, k >= i, DueBy(k, t, cal), j = 0 \/ k < j
               PROVE  <<Plan[k].key, t.day>> \in mdone'
    OBVIOUS
  <2>1. ~SyncDue(k, t, cal)
    BY <1>1, PlanIsList
  <2> QED
    BY <2>1 DEF SyncDue, DueBy
<1>8. \A k \in Place : (DueBy(k, t, cal) /\ (j = 0 \/ k < j)) => <<Plan[k].key, t.day>> \in mdone'
  <2> SUFFICES ASSUME NEW k \in Place, DueBy(k, t, cal), j = 0 \/ k < j
               PROVE  <<Plan[k].key, t.day>> \in mdone'
    OBVIOUS
  <2>1. CASE k >= i
    BY <2>1, <1>7
  <2>2. CASE k < i
    BY <2>2 DEF DoneBefore, cal
  <2> QED
    BY <2>1, <2>2, PlanIsList
<1>9. PassedIsDone'
  <2> SUFFICES ASSUME j # 0
               PROVE  /\ t.day \in Days /\ t.day <= cal /\ cal <= mday
                      /\ DoneBefore(j, t, cal, mdone')
    BY <1>2 DEF PassedIsDone, DoneBefore, DueBy
  <2> QED
    BY <1>3, <1>8 DEF DoneBefore, cal
<1>10. LastIsDone'
  <2>1. CASE j # 0
    BY <2>1, <1>2 DEF LastIsDone
  <2>2. CASE j = 0 /\ mday > t.day
    BY <2>2, <1>2 DEF LastIsDone
  <2>3. CASE j = 0 /\ ~(mday > t.day)
    <3>1. cal = t.day
      BY <2>3, <1>3 DEF cal
    <3>2. \A k \in Place : (Plan[k].at <= t.hour /\ OnDay(Plan[k], t.day)) => <<Plan[k].key, t.day>> \in mdone'
      BY <2>3, <1>8, <3>1 DEF DueBy
    <3>3. mlast'.day = t.day /\ mlast'.hour = t.hour
      BY <2>3, <1>2
    <3> QED
      BY <3>2, <3>3 DEF LastIsDone
  <2> QED
    BY <2>1, <2>2, <2>3
<1> QED
  BY <1>6, <1>9, <1>10 DEF MarketInv

\* The loop begins in order.
LEMMA MarketStart == MarketInit => MarketInv
<1> SUFFICES ASSUME MarketInit PROVE MarketInv
  OBVIOUS
<1>1. \E h \in Clock : \A k \in Clock : h <= k
  BY LeastNatural, MarketAssumption
<1>2. mhour \in Clock
  BY <1>1 DEF MarketInit
<1>3. QED
  BY <1>2, MarketAssumption DEF MarketInit, MarketInv, MarketTyped, PassedIsDone, LastIsDone

\* Every step of the loop and of the clock keeps it so.
LEMMA MarketStep == MarketInv /\ [MarketNext]_marketVars => MarketInv'
<1> SUFFICES ASSUME MarketInv, [MarketNext]_marketVars PROVE MarketInv'
  OBVIOUS
<1>0. mday \in Days /\ mhour \in Clock /\ mday \in Nat /\ mcal \in Nat /\ mtick.day \in Nat
  BY MarketAssumption DEF MarketInv, MarketTyped
<1>1. CASE MarketTick
  <2>1. GoOn(1, [day |-> mday, hour |-> mhour]) /\ mdone' = mdone /\ UNCHANGED <<mday, mhour, raises, restarts>>
    BY <1>1 DEF MarketTick
  <2>2. Calendar(1) = mday
    BY DEF Calendar
  <2>3. DoneBefore(1, [day |-> mday, hour |-> mhour], Calendar(1), mdone')
    BY PlanIsList DEF DoneBefore
  <2>4. [day |-> mday, hour |-> mhour] \in [day : Days, hour : Nat]
    BY <1>0, MarketAssumption
  <2>5. mdone' \subseteq Syncs \X Days
    BY <2>1 DEF MarketInv, MarketTyped
  <2> QED
    BY <1>0, <2>1, <2>2, <2>3, <2>4, <2>5, GoingOn DEF MarketInv
<1>2. CASE SyncReturns
  <2> DEFINE k == <<Plan[mpc].key, mtick.day>>
  <2>1. mpc # 0 /\ mdone' = mdone \union {k} /\ GoOn(mpc + 1, mtick) /\ UNCHANGED <<mday, mhour, raises, restarts>>
    BY <1>2 DEF SyncReturns
  <2>2. mpc \in Place /\ mpc \in Nat /\ mtick.day \in Days /\ mtick.day <= mcal /\ mcal <= mday
    BY <2>1, PlanIsList DEF MarketInv, MarketTyped, PassedIsDone
  <2>3. mtick \in [day : Days, hour : Nat]
    BY <2>2 DEF MarketInv, MarketTyped
  <2>4. mdone' \subseteq Syncs \X Days
    BY <2>1, <2>2, PlanIsList DEF MarketInv, MarketTyped
  <2>5. Calendar(mpc + 1) \in {mcal, mday}
    BY DEF Calendar
  <2>6. DoneBefore(mpc + 1, mtick, Calendar(mpc + 1), mdone')
    <3> SUFFICES ASSUME NEW j \in Place, j < mpc + 1, DueBy(j, mtick, Calendar(mpc + 1))
                 PROVE  <<Plan[j].key, mtick.day>> \in mdone'
      BY DEF DoneBefore
    <3>1. CASE j = mpc
      BY <3>1, <2>1
    <3>2. CASE j # mpc
      <4>1. j < mpc
        BY <3>2, <2>2, PlanIsList
      <4>2. Reread(j) => Reread(mpc)
        BY <4>1, <2>2, PlanIsList, RereadStays
      <4>3. Reread(j) => Calendar(mpc + 1) = mcal
        BY <4>2, <2>1, <2>2, PlanIsList DEF Calendar
      <4>4. DueBy(j, mtick, mcal)
        BY <4>3 DEF DueBy
      <4> QED
        BY <4>1, <4>4, <2>1 DEF MarketInv, PassedIsDone, DoneBefore
    <3> QED
      BY <3>1, <3>2
  <2> QED
    BY <1>0, <2>1, <2>2, <2>3, <2>4, <2>5, <2>6, GoingOn DEF MarketInv
<1>3. CASE SyncRaises
  BY <1>3, MarketAssumption DEF SyncRaises, MarketInv, MarketTyped, PassedIsDone, LastIsDone
<1>4. CASE TimePasses
  <2>1. UNCHANGED <<mpc, mtick, mcal, mdone, mlast, raises, restarts>>
    BY <1>4 DEF TimePasses
  <2>2. mday' \in Days /\ mday' >= mday /\ mhour' \in Clock
    <3>1. \E h \in Clock : \A n \in Clock : h <= n
      BY LeastNatural, MarketAssumption
    <3>2. CASE \E h \in Clock : h > mhour /\ mhour' = h /\ \A k \in Clock : k > mhour => h <= k
      BY <3>2, <1>4, <1>0, MarketAssumption DEF TimePasses, Later
    <3>3. CASE mday' = mday + 1 /\ mday + 1 \in Days /\ mhour' = CHOOSE h \in Clock : \A k \in Clock : h <= k
      BY <3>1, <3>3, <1>0
    <3> QED
      BY <3>2, <3>3, <1>4 DEF TimePasses, Later
  <2>3. MarketTyped' /\ LastIsDone'
    BY <2>1, <2>2 DEF MarketInv, MarketTyped, LastIsDone
  <2>4. PassedIsDone'
    BY <2>1, <2>2, <1>0, MarketAssumption DEF MarketInv, PassedIsDone, DoneBefore, DueBy
  <2> QED
    BY <2>3, <2>4 DEF MarketInv
<1>5. CASE MarketRestart
  BY <1>5, MarketAssumption DEF MarketRestart, MarketInv, MarketTyped, PassedIsDone, LastIsDone
<1>6. CASE UNCHANGED marketVars
  BY <1>6 DEF marketVars, MarketInv, MarketTyped, PassedIsDone, LastIsDone, DoneBefore, DueBy
<1> QED
  BY <1>1, <1>2, <1>3, <1>4, <1>5, <1>6 DEF MarketNext

\* Along every behaviour of the loop MarketInv holds.
LEMMA MarketAlways == MarketSpec => []MarketInv
<1>1. MarketInit => MarketInv
  BY MarketStart
<1>2. MarketInv /\ [MarketNext]_marketVars => MarketInv'
  BY MarketStep
<1> QED
  BY <1>1, <1>2, PTL DEF MarketSpec

\* Every variable of the market-data loop keeps its type.
THEOREM MarketTypeCorrect == MarketSpec => []MarketTypeOK
<1>1. MarketInv => MarketTypeOK
  BY DEF MarketInv, MarketTyped, MarketTypeOK
<1> QED
  BY <1>1, MarketAlways, PTL

\* A tick of the market-data loop that goes through leaves nothing undone that was due at
\* its hour, whatever syncs are configured, at whatever hours, and however many of the
\* ticks before it were ended by an exception or a restart.
THEOREM TickLeavesNothingBehind == MarketSpec => []TickLeavesNothing
<1>1. MarketInv => TickLeavesNothing
  BY DEF MarketInv, LastIsDone, TickLeavesNothing
<1> QED
  BY <1>1, MarketAlways, PTL

-----------------------------------------------------------------------------
(* The outcomes of the reports.                                            *)

\* The rows are those of the reports, and a report that is not written has none.
OutInv ==
    /\ odate \in 1 .. EndDay /\ open \in BOOLEAN
    /\ written \in [ScoredReports -> 0 .. EndDay] /\ removed \subseteq ScoredReports
    /\ score = [r \in ScoredReports |-> score[r]]
    /\ \A r \in ScoredReports : score[r] \in OutcomeRows(r)
    /\ \A r \in ScoredReports : written[r] = 0 => ~score[r].there

\* The step of SettledStays.
SettledStay == \A r \in ScoredReports : (score[r].there /\ ~Unsettled(r)) => score'[r] = score[r]

\* The least of a set of natural numbers is one of them.
LEMMA MinIsMember ==
    ASSUME NEW S, S \subseteq Nat, S # {}
    PROVE  Min(S) \in S
<1>1. \E n \in S : \A m \in S : n <= m
  BY LeastNatural
<1> QED
  BY <1>1 DEF Min

\* The horizons of a report are at most five days away.
LEMMA HorizonsNear ==
    ASSUME NEW r
    PROVE  Horizons(r) \subseteq 0 .. 5 /\ Horizons(r) # {}
  BY DEF Horizons

\* A time at which the close of a target day of a report is looked at.
LEMMA ClosesInTime ==
    ASSUME NEW r, NEW base \in 0 .. EndDay, NEW S, S \subseteq Horizons(r), S # {}
    PROVE  CloseOf(base + Min(S)) \in 0 .. CloseOf(EndDay + 5)
<1>1. S \subseteq 0 .. 5 /\ S \subseteq Nat
  BY HorizonsNear
<1>2. Min(S) \in 0 .. 5
  BY <1>1, MinIsMember
<1> QED
  BY <1>2, OutAssumption DEF CloseOf

\* When to look again is within the days modelled.
LEMMA NextInTime ==
    ASSUME OutInv, NEW r \in ScoredReports, NEW base \in 0 .. EndDay, NEW last
    PROVE  NextAfter(r, base, last) \in 0 .. CloseOf(EndDay + 5)
<1> DEFINE ahead == {h \in Horizons(r) : base + h > last}
<1>1. CASE ahead = {}
  BY <1>1, OutAssumption DEF NextAfter, CloseOf
<1>2. CASE ahead # {} /\ Short(r, base, last) # {}
  <2>1. NextAfter(r, base, last) = Now
    BY <1>2 DEF NextAfter
  <2> QED
    BY <2>1, OutAssumption DEF Now, CloseOf, OutInv
<1>3. CASE ahead # {} /\ Short(r, base, last) = {}
  <2>1. NextAfter(r, base, last) = CloseOf(base + Min(ahead))
    BY <1>3 DEF NextAfter
  <2> QED
    BY <2>1, <1>3, ClosesInTime
<1> QED
  BY <1>1, <1>2, <1>3

\* The prices of a report are those of its own windows.
LEMMA PricesOwn ==
    ASSUME NEW r, NEW base, NEW last
    PROVE  Prices(r, base, last) \subseteq Horizons(r)
  BY DEF Prices

\* A row of a report is made of these three.
LEMMA RowTyped ==
    ASSUME NEW r, NEW b \in BOOLEAN, NEW px \in SUBSET Horizons(r), NEW n \in 0 .. CloseOf(EndDay + 5)
    PROVE  [there |-> b, px |-> px, next |-> n] \in OutcomeRows(r)
  BY DEF OutcomeRows

\* An evaluation makes a row of a row.
LEMMA EvaluatedTyped ==
    ASSUME OutInv, NEW r \in ScoredReports, NEW row \in OutcomeRows(r), NEW last
    PROVE  Evaluated(r, row, last) \in OutcomeRows(r) /\ Evaluated(r, row, last).there = row.there
<1> DEFINE px == Prices(r, written[r], last)
           n  == NextAfter(r, written[r], last)
<1>1. px \in SUBSET Horizons(r) /\ n \in 0 .. CloseOf(EndDay + 5)
  BY PricesOwn, NextInTime DEF OutInv
<1>2. Evaluated(r, row, last) = row \/ Evaluated(r, row, last) = [row EXCEPT !.px = px, !.next = n]
  BY DEF Evaluated
<1> HIDE DEF px, n
<1>3. [row EXCEPT !.px = px, !.next = n] \in OutcomeRows(r) /\ [row EXCEPT !.px = px, !.next = n].there = row.there
  BY <1>1 DEF OutcomeRows
<1> QED
  BY <1>2, <1>3

\* So does enqueueing one.
LEMMA EnqueuedTyped ==
    ASSUME OutInv, NEW r \in ScoredReports
    PROVE  Enqueued(r) \in OutcomeRows(r)
<1>1. CloseOf(written[r] + Min(Horizons(r))) \in 0 .. CloseOf(EndDay + 5)
  BY ClosesInTime, HorizonsNear DEF OutInv
<1> QED
  BY <1>1, RowTyped DEF Enqueued

\* A batch is taken from the rows it is of.
LEMMA BatchWithin ==
    ASSUME NEW S, NEW limit, NEW B \in Batches(S, limit)
    PROVE  B \subseteq S
  BY DEF Batches

\* The outcomes begin without rows.
LEMMA OutStart == OutInit => OutInv
<1> SUFFICES ASSUME OutInit PROVE OutInv
  OBVIOUS
<1>1. \A r \in ScoredReports : NoRow \in OutcomeRows(r)
  <2>1. 0 \in 0 .. CloseOf(EndDay + 5)
    BY OutAssumption DEF CloseOf
  <2>2. \A r : {} \in SUBSET Horizons(r)
    OBVIOUS
  <2> QED
    BY <2>1, <2>2, RowTyped DEF NoRow
<1> QED
  BY <1>1, OutAssumption DEF OutInit, OutInv, NoRow

\* Every step keeps the rows typed, and the settled ones as they are.
LEMMA OutStep == OutInv /\ [OutNext]_outVars => OutInv' /\ SettledStay
<1> SUFFICES ASSUME OutInv, [OutNext]_outVars PROVE OutInv' /\ SettledStay
  OBVIOUS
<1>1. ASSUME NEW r \in ScoredReports, NEW base \in {1, odate}, NEW last \in Bars, CompleteReport(r, base, last)
      PROVE  OutInv' /\ SettledStay
  <2>1. /\ written[r] = 0 /\ r \notin removed /\ written' = [written EXCEPT ![r] = base]
        /\ UNCHANGED <<odate, open, removed>>
    BY <1>1 DEF CompleteReport
  <2>2. base \in 1 .. EndDay
    BY OutAssumption DEF OutInv
  <2>3. ~score[r].there
    BY <2>1 DEF OutInv
  <2>4. \E row \in OutcomeRows(r) : score' = [score EXCEPT ![r] = row]
    <3>1. CASE r \notin FastReports
      <4>1. score' = [score EXCEPT ![r] = score[r]]
        BY <1>1, <3>1 DEF CompleteReport, OutInv
      <4> QED
        BY <4>1 DEF OutInv
    <3>2. CASE r \in FastReports /\ r \in NoBars
      <4>1. CloseOf(base) \in 0 .. CloseOf(EndDay + 5)
        BY <2>2, OutAssumption DEF CloseOf
      <4>2. [there |-> TRUE, px |-> {}, next |-> CloseOf(base)] \in OutcomeRows(r)
        BY <4>1, RowTyped
      <4> QED
        BY <1>1, <3>2, <4>2 DEF CompleteReport
    <3>3. CASE r \in FastReports /\ r \notin NoBars
      <4>1. [there |-> TRUE, px |-> Prices(r, base, last), next |-> NextAfter(r, base, last)] \in OutcomeRows(r)
        <5>1. Prices(r, base, last) \in SUBSET Horizons(r)
          BY PricesOwn
        <5>2. NextAfter(r, base, last) \in 0 .. CloseOf(EndDay + 5)
          BY <2>2, OutAssumption, NextInTime
        <5> QED
          BY <5>1, <5>2, RowTyped
      <4> QED
        BY <1>1, <3>3, <4>1 DEF CompleteReport
    <3> QED
      BY <3>1, <3>2, <3>3
  <2>5. PICK row \in OutcomeRows(r) : score' = [score EXCEPT ![r] = row]
    BY <2>4
  <2>6. /\ score' = [s \in ScoredReports |-> score'[s]]
        /\ \A s \in ScoredReports : score'[s] = IF s = r THEN row ELSE score[s]
    BY <2>5 DEF OutInv
  <2>7. /\ written' \in [ScoredReports -> 0 .. EndDay]
        /\ \A s \in ScoredReports : written'[s] = IF s = r THEN base ELSE written[s]
    BY <2>1, <2>2 DEF OutInv
  <2>8. OutInv'
    BY <2>1, <2>2, <2>6, <2>7 DEF OutInv, OutcomeRows
  <2>9. SettledStay
    BY <2>3, <2>6 DEF SettledStay
  <2> QED
    BY <2>8, <2>9
<1>2. ASSUME NEW r \in ScoredReports, DeleteReport(r) PROVE OutInv' /\ SettledStay
  BY <1>2 DEF DeleteReport, OutInv, SettledStay, OutcomeRows
<1>3. ASSUME NEW last \in Bars, WatchOutcomes(last) PROVE OutInv' /\ SettledStay
  <2>1. PICK B \in Batches(DueRows(ScoredReports), BatchLimit) :
            score' = [r \in ScoredReports |-> IF r \in B THEN Evaluated(r, score[r], last) ELSE score[r]]
    BY <1>3 DEF WatchOutcomes
  <2>2. UNCHANGED <<odate, open, written, removed>>
    BY <1>3 DEF WatchOutcomes
  <2>3. \A r \in ScoredReports : score'[r] = (IF r \in B THEN Evaluated(r, score[r], last) ELSE score[r])
    BY <2>1
  <2>4. \A r \in ScoredReports : score'[r] \in OutcomeRows(r) /\ score'[r].there = score[r].there
    BY <2>3, EvaluatedTyped DEF OutInv
  <2>5. score' = [r \in ScoredReports |-> score'[r]]
    BY <2>1
  <2>6. SettledStay
    <3>1. \A r \in B : Unsettled(r)
      BY BatchWithin DEF DueRows
    <3> QED
      BY <2>3, <3>1 DEF SettledStay
  <2>7. OutInv'
    BY <2>2, <2>4, <2>5 DEF OutInv, OutcomeRows
  <2> QED
    BY <2>6, <2>7
<1>4. ASSUME NEW last \in Bars, NEW S \in SUBSET ScoredReports, ListReports(S, last) PROVE OutInv' /\ SettledStay
  <2> DEFINE missing == {r \in S : written[r] # 0 /\ r \notin removed /\ ~score[r].there}
  <2>1. PICK B \in Batches(DueRows(S), ReloadLimit) :
            score' = [r \in ScoredReports |->
               IF r \in missing THEN Evaluated(r, Enqueued(r), last)
               ELSE IF r \in B THEN Evaluated(r, score[r], last) ELSE score[r]]
    BY <1>4 DEF ListReports
  <2>2. UNCHANGED <<odate, open, written, removed>>
    BY <1>4 DEF ListReports
  <2>3. \A r \in ScoredReports : score'[r] =
            (IF r \in missing THEN Evaluated(r, Enqueued(r), last)
             ELSE IF r \in B THEN Evaluated(r, score[r], last) ELSE score[r])
    BY <2>1
  <2>4. \A r \in missing : ~score[r].there /\ written[r] # 0
    OBVIOUS
  <2>5. score' = [r \in ScoredReports |-> score'[r]]
    BY <2>1
  <2> HIDE DEF missing
  <2>6. \A r \in ScoredReports : score'[r] \in OutcomeRows(r)
    BY <2>3, EvaluatedTyped, EnqueuedTyped DEF OutInv
  <2>7. \A r \in ScoredReports : written[r] = 0 => ~score'[r].there
    BY <2>3, <2>4, EvaluatedTyped DEF OutInv
  <2>8. SettledStay
    <3>1. \A r \in B : Unsettled(r)
      BY BatchWithin DEF DueRows
    <3> QED
      BY <2>3, <2>4, <3>1 DEF SettledStay
  <2>9. OutInv'
    BY <2>2, <2>5, <2>6, <2>7 DEF OutInv, OutcomeRows
  <2> QED
    BY <2>8, <2>9
<1>5. CASE MarketTurns
  <2>1. UNCHANGED <<written, removed, score>>
    BY <1>5 DEF MarketTurns
  <2>2. odate' \in 1 .. EndDay /\ open' \in BOOLEAN
    <3>1. CASE open = TRUE
      BY <3>1, <1>5 DEF MarketTurns, OutInv
    <3>2. CASE open = FALSE
      BY <3>2, <1>5, OutAssumption DEF MarketTurns, OutInv
    <3> QED
      BY <3>1, <3>2 DEF OutInv
  <2> QED
    BY <2>1, <2>2 DEF OutInv, SettledStay, OutcomeRows
<1>6. CASE UNCHANGED outVars
  BY <1>6 DEF outVars, OutInv, SettledStay, OutcomeRows
<1> QED
  BY <1>1, <1>2, <1>3, <1>4, <1>5, <1>6 DEF OutNext

\* Along every behaviour the rows are in order.
LEMMA OutAlways == OutSpec => []OutInv
<1>1. OutInit => OutInv
  BY OutStart
<1>2. OutInv /\ [OutNext]_outVars => OutInv'
  BY OutStep
<1> QED
  BY <1>1, <1>2, PTL DEF OutSpec

\* Every variable of the outcomes keeps its type.
THEOREM OutTypeCorrect == OutSpec => []OutTypeOK
<1>1. OutInv => OutTypeOK
  BY DEF OutInv, OutTypeOK
<1> QED
  BY <1>1, OutAlways, PTL

\* No step writes a settled row, however the steps follow each other.
LEMMA OutcomesSettle == OutInit /\ [][OutNext]_outVars => SettledStays
<1>1. OutInv /\ [OutNext]_outVars => OutInv' /\ [SettledStay]_outVars
  BY OutStep
<1>2. OutInit /\ [][OutNext]_outVars => [][SettledStay]_outVars
  BY <1>1, OutStart, PTL
<1> QED
  BY <1>2 DEF SettledStays, SettledStay

\* A row whose windows all have their price is not written again, by no batch of the
\* watchdog, no listing and no report that is completed or deleted later.
THEOREM SettledForGood == OutSpec => SettledStays
BY OutcomesSettle DEF OutSpec

-----------------------------------------------------------------------------
(* The scheduler of stored analyses.                                       *)

\* What is known of a job.
Jobs == [task : SchedTasks, day : Nat, hand : BOOLEAN,
         pc : {"unused", "queued", "running", "left", "over", "lost"},
         report : {"none", "running", "completed", "failed"}, made : Nat, ended : Nat]

\* The loop has launched the job; the job has been given up or is over.
Launched(r) == ~run[r].hand /\ run[r].pc # "unused"
Done(r) == run[r].pc \in {"left", "over"}

\* Every variable but the bound has its type, and the fields of rows and jobs theirs.
SchedTyped ==
    /\ item \in [SchedTasks -> Row] /\ run \in [SchedRuns -> Jobs]
    /\ day \in Nat \ {0} /\ part \in Parts
    /\ tick \in [todo : SUBSET SchedTasks, day : Nat]
    /\ schedUp \in BOOLEAN /\ touched \subseteq SchedTasks

\* No job is of a day to come, none has a report before it is over, and none began
\* after it had ended.
JobsInOrder ==
    \A r \in SchedRuns :
       /\ run[r].day <= day /\ run[r].made <= day /\ run[r].ended <= day
       /\ run[r].pc = "unused" => run[r].report = "none" /\ run[r].ended = 0
       /\ run[r].report = "completed" => run[r].pc = "over"
       /\ Done(r) => run[r].made <= run[r].ended

\* No row carries a day to come, and while a tick is launching neither rows nor jobs are
\* of a later day than the tick.
DatesInOrder ==
    /\ \A t \in SchedTasks : item[t].date <= day
    /\ tick.todo # {} =>
          /\ 1 <= tick.day /\ tick.day <= day
          /\ \A t \in SchedTasks : item[t].date <= tick.day
          /\ \A r \in SchedRuns : Launched(r) => run[r].day <= tick.day

\* While the scheduler is down nothing waits for its launch and none of its jobs runs.
NothingRunsDown ==
    ~schedUp => /\ tick.todo = {}
                /\ \A r \in SchedRuns : ~run[r].hand => run[r].pc \in {"unused", "over", "lost"}

\* A row that says "none" has never been marked.
NoneIsFresh ==
    \A t \in SchedTasks : item[t].status = "none" =>
       t \notin tick.todo /\ \A r \in SchedRuns : run[r].task = t => ~Launched(r)

\* A task that waits for its launch has no run of the day of the tick.
TodoIsNew ==
    \A t \in tick.todo : RunsOf(t, tick.day) = {} \/ Overran(t, tick.day)

\* A row whose task was marked or launched today carries the day, as long as no run of
\* an earlier day has ended since.
MarkedIsDated ==
    \A t \in SchedTasks :
       (item[t].live /\ ~Overran(t, day) /\ (RunsOf(t, day) # {} \/ (t \in tick.todo /\ tick.day = day)))
          => item[t].date = day

\* The run of a row that says "running" is under way, as long as no run of an earlier
\* day has ended since.
RunningRuns ==
    \A t \in SchedTasks :
       (item[t].live /\ ~Overran(t, day) /\ item[t].status = "running")
          => \A r \in RunsOf(t, day) : ~Done(r)

\* No two runs of a day, as long as none of an earlier day has ended since.
NoTwoRuns ==
    \A t \in SchedTasks, d \in Nat \ {0} :
       ~Overran(t, d) => \A r \in RunsOf(t, d), u \in RunsOf(t, d) : r = u

\* The report of a row that no run by hand has written is that of a run of its own.
ReportIsOwn ==
    \A t \in SchedTasks \ touched :
       item[t].report # NoSchedRun =>
          LET r == item[t].report IN ~run[r].hand /\ run[r].task = t /\ run[r].pc = "over"

\* A row that carries today's date says "running" or has a run that is over.
DatedIsRunning ==
    \A t \in SchedTasks \ touched :
       (item[t].live /\ item[t].date = day /\ ~Overran(t, day))
          => item[t].status = "running" \/ \E r \in RunsOf(t, day) : Done(r)

SchedInv ==
    /\ SchedTyped /\ JobsInOrder /\ DatesInOrder /\ NothingRunsDown /\ NoneIsFresh
    /\ TodoIsNew /\ MarkedIsDated /\ RunningRuns /\ NoTwoRuns /\ ReportIsOwn /\ DatedIsRunning
    /\ FailingIsOff /\ SuccessHasReport /\ NoDayLost

\* The types, in the form the steps use them.
LEMMA SchedTypes ==
    ASSUME SchedTyped
    PROVE  /\ day \in Nat /\ day >= 1 /\ day # 0
           /\ tick.todo \subseteq SchedTasks /\ tick.day \in Nat
           /\ \A t \in SchedTasks : item[t] \in Row /\ item[t].date \in Nat /\ item[t].fails \in Nat
           /\ \A r \in SchedRuns : /\ run[r] \in Jobs /\ run[r].task \in SchedTasks
                                   /\ run[r].day \in Nat /\ run[r].made \in Nat /\ run[r].ended \in Nat
<1>1. \A t \in SchedTasks : item[t] \in Row
  BY DEF SchedTyped
<1>2. \A r \in SchedRuns : run[r] \in Jobs
  BY DEF SchedTyped
<1>3. \A t \in SchedTasks : item[t].date \in Nat /\ item[t].fails \in Nat
  BY <1>1 DEF Row
<1>4. \A r \in SchedRuns : run[r].task \in SchedTasks /\ run[r].day \in Nat /\ run[r].made \in Nat /\ run[r].ended \in Nat
  BY <1>2 DEF Jobs
<1> QED
  BY <1>1, <1>2, <1>3, <1>4 DEF SchedTyped

\* The launched jobs keep task, day and end, and none is lost.
Follows ==
    \A r \in SchedRuns :
       /\ Launched(r)' <=> Launched(r)
       /\ Launched(r) => /\ run'[r].task = run[r].task /\ run'[r].day = run[r].day
                         /\ run'[r].ended = run[r].ended
                         /\ run'[r].pc = "lost" <=> run[r].pc = "lost"

\* Then every task has the runs it had.
LEMMA SameRuns ==
    ASSUME SchedTyped, JobsInOrder, SchedTyped', JobsInOrder', Follows
    PROVE  \A t, d : /\ RunsOf(t, d)' = RunsOf(t, d)
                     /\ d \in Nat \ {0} => (Overran(t, d)' <=> Overran(t, d))
<1> SUFFICES ASSUME NEW t, NEW d
             PROVE  /\ RunsOf(t, d)' = RunsOf(t, d)
                    /\ d \in Nat \ {0} => (Overran(t, d)' <=> Overran(t, d))
  OBVIOUS
<1>1. \A r \in SchedRuns : r \in RunsOf(t, d)' <=> r \in RunsOf(t, d)
  BY DEF Follows, Launched, RunsOf
<1>2. RunsOf(t, d)' = RunsOf(t, d)
  BY <1>1 DEF RunsOf
<1>3. ASSUME d \in Nat \ {0}
      PROVE  Overran(t, d)' <=> Overran(t, d)
  <2>1. \A r \in SchedRuns : (run[r].ended >= d => run[r].pc # "unused") /\ (run'[r].ended >= d => run'[r].pc # "unused")
    BY <1>3 DEF JobsInOrder
  <2>2. \A r \in SchedRuns :
          (~run'[r].hand /\ run'[r].task = t /\ run'[r].day < d /\ run'[r].ended >= d)
            <=> (~run[r].hand /\ run[r].task = t /\ run[r].day < d /\ run[r].ended >= d)
    BY <2>1 DEF Follows, Launched
  <2> QED
    BY <2>2 DEF Overran
<1> QED
  BY <1>2, <1>3

\* What is over stays over, a report that is completed completed, and no launched job ends.
GoesOn ==
    \A r \in SchedRuns :
       /\ Launched(r) => (Done(r)' <=> Done(r))
       /\ run[r].report = "completed" => run'[r].report = "completed"
       /\ run[r].pc = "over" => run'[r].pc = "over"
       /\ run[r].pc = "over" /\ ~run[r].hand => ~run'[r].hand

\* A step that moves jobs on and leaves the rows: the launched ones stay in order.
LEMMA JobsMove ==
    ASSUME SchedInv, UNCHANGED <<item, day, part, tick, schedUp, touched>>,
           SchedTyped', JobsInOrder', NothingRunsDown', Follows,
           GoesOn
    PROVE  SchedInv'
<1> USE DEF SchedInv, GoesOn
<1>0. \A t, d : /\ RunsOf(t, d)' = RunsOf(t, d)
                /\ d \in Nat \ {0} => (Overran(t, d)' <=> Overran(t, d))
  BY SameRuns
<1>1. day \in Nat \ {0} /\ \A t, d : RunsOf(t, d) \subseteq SchedRuns /\ \A r \in RunsOf(t, d) : Launched(r)
  BY DEF SchedTyped, RunsOf, Launched
<1>2. DatesInOrder'
  BY DEF DatesInOrder, Follows
<1>3. NoneIsFresh'
  BY DEF NoneIsFresh, Follows
<1>4. TodoIsNew'
  <2>1. tick.todo # {} => tick.day \in Nat \ {0}
    BY SchedTypes DEF DatesInOrder
  <2> QED
    BY <1>0, <2>1 DEF TodoIsNew
<1>5. MarkedIsDated'
  BY <1>0, <1>1 DEF MarkedIsDated
<1>6. RunningRuns'
  BY <1>0, <1>1 DEF RunningRuns
<1>7. NoTwoRuns'
  BY <1>0 DEF NoTwoRuns
<1>8. ReportIsOwn'
  <2> SUFFICES ASSUME NEW t \in SchedTasks \ touched, item[t].report # NoSchedRun
               PROVE  LET r == item[t].report IN ~run'[r].hand /\ run'[r].task = t /\ run'[r].pc = "over"
    BY DEF ReportIsOwn
  <2>1. item[t].report \in SchedRuns
    BY SchedTypes DEF Row
  <2>2. ~run[item[t].report].hand /\ run[item[t].report].task = t /\ run[item[t].report].pc = "over"
    BY DEF ReportIsOwn
  <2>3. Launched(item[t].report)
    BY <2>2 DEF Launched
  <2> QED
    BY <2>1, <2>2, <2>3 DEF Follows
<1>9. DatedIsRunning'
  BY <1>0, <1>1 DEF DatedIsRunning
<1>10. FailingIsOff'
  BY DEF FailingIsOff
<1>11. SuccessHasReport'
  <2> SUFFICES ASSUME NEW t \in SchedTasks, item[t].live, item[t].status = "success"
               PROVE  item[t].report # NoSchedRun /\ run'[item[t].report].report = "completed"
    BY DEF SuccessHasReport
  <2>1. item[t].report # NoSchedRun /\ run[item[t].report].report = "completed"
    BY DEF SuccessHasReport
  <2>2. item[t].report \in SchedRuns
    BY <2>1, SchedTypes DEF Row
  <2> QED
    BY <2>1, <2>2
<1>12. NoDayLost'
  BY <1>0, <1>1 DEF NoDayLost
<1> QED
  BY <1>2, <1>3, <1>4, <1>5, <1>6, <1>7, <1>8, <1>9, <1>10, <1>11, <1>12

\* A step that edits rows and leaves their day, status and report.
LEMMA RowsEdited ==
    ASSUME SchedInv, UNCHANGED <<day, part, tick, run, schedUp, touched>>,
           SchedTyped', FailingIsOff',
           \A t \in SchedTasks : /\ item'[t].live => item[t].live
                                 /\ item'[t].date = item[t].date /\ item'[t].status = item[t].status
                                 /\ item'[t].report = item[t].report
    PROVE  SchedInv'
<1> USE DEF SchedInv
<1>0. \A t, d : RunsOf(t, d)' = RunsOf(t, d) /\ (Overran(t, d)' <=> Overran(t, d))
  BY DEF RunsOf, Overran
<1>1. \A r : (Launched(r)' <=> Launched(r)) /\ (Done(r)' <=> Done(r))
  BY DEF Launched, Done
<1>2. JobsInOrder' /\ NothingRunsDown'
  BY <1>1 DEF JobsInOrder, NothingRunsDown
<1>3. DatesInOrder' /\ NoneIsFresh'
  BY <1>1 DEF DatesInOrder, NoneIsFresh
<1>4. TodoIsNew' /\ NoTwoRuns'
  BY <1>0 DEF TodoIsNew, NoTwoRuns
<1>5. MarkedIsDated' /\ RunningRuns'
  BY <1>0, <1>1 DEF MarkedIsDated, RunningRuns
<1>6. ReportIsOwn'
  BY DEF ReportIsOwn
<1>7. DatedIsRunning'
  BY <1>0, <1>1 DEF DatedIsRunning
<1>8. SuccessHasReport'
  BY DEF SuccessHasReport
<1>9. NoDayLost'
  BY <1>0 DEF NoDayLost
<1> QED
  BY <1>2, <1>3, <1>4, <1>5, <1>6, <1>7, <1>8, <1>9

\* A new row.
LEMMA NewRowTyped ==
    ASSUME NEW trigger \in {"night", "evening"}
    PROVE  /\ NewRow(trigger) \in Row
           /\ [NewRow(trigger) EXCEPT !.live = FALSE] \in Row
  BY DEF NewRow, Row

\* An edit makes rows of rows.
LEMMA EditTyped ==
    ASSUME NEW row \in Row, NEW l \in BOOLEAN, NEW a \in BOOLEAN,
           NEW n \in Nat, NEW s \in {"none", "running", "success", "failed", "stale"},
           NEW d \in Nat, NEW rep \in SchedRuns \union {NoSchedRun}, NEW f \in {"night", "evening"}
    PROVE  /\ [row EXCEPT !.live = l] \in Row
           /\ [row EXCEPT !.active = a] \in Row
           /\ [row EXCEPT !.active = TRUE, !.fails = 0] \in Row
           /\ [row EXCEPT !.trigger = f] \in Row
           /\ [row EXCEPT !.status = s] \in Row
           /\ [row EXCEPT !.status = s, !.date = d] \in Row
           /\ [row EXCEPT !.date = d, !.status = s] \in Row
           /\ [row EXCEPT !.date = d, !.status = s, !.report = rep, !.fails = 0] \in Row
           /\ [row EXCEPT !.date = d, !.status = s, !.fails = n, !.active = a] \in Row
           /\ [row EXCEPT !.status = s, !.report = rep, !.fails = 0] \in Row
  BY DEF Row

\* and so does what a run writes when it is done, by hand or for its day,
LEMMA DoneTyped ==
    ASSUME NEW row \in Row, NEW d \in Nat, NEW rep \in SchedRuns
    PROVE  /\ [row EXCEPT !.status = "success", !.report = rep, !.fails = 0] \in Row
           /\ [row EXCEPT !.date = d, !.status = "success", !.report = rep, !.fails = 0] \in Row
  BY DEF Row

\* or has failed.
LEMMA FailedTyped ==
    ASSUME NEW row \in Row, NEW d \in Nat, NEW n \in Nat, NEW a \in BOOLEAN
    PROVE  [row EXCEPT !.date = d, !.status = "failed", !.fails = n, !.active = a] \in Row
  BY DEF Row

\* The creation of a row in the place of one that was never marked.
LEMMA CreateKeeps ==
    ASSUME SchedInv, NEW t \in SchedTasks, NEW trigger \in {"night", "evening"}, Create(t, trigger)
    PROVE  SchedInv'
<1> USE DEF SchedInv
<1>1. /\ item[t].status = "none" /\ ~item[t].live
      /\ item' = [item EXCEPT ![t] = NewRow(trigger)]
      /\ UNCHANGED <<day, part, tick, run, schedUp, touched>>
  BY DEF Create
<1>2. /\ \A u \in SchedTasks : item'[u] = IF u = t THEN NewRow(trigger) ELSE item[u]
      /\ item' \in [SchedTasks -> Row]
  BY <1>1, NewRowTyped DEF SchedTyped
<1>3. /\ NewRow(trigger).date = 0 /\ NewRow(trigger).status = "none" /\ NewRow(trigger).report = NoSchedRun
      /\ NewRow(trigger).fails = 0
  BY DEF NewRow
<1>4. \A u, d : RunsOf(u, d)' = RunsOf(u, d) /\ (Overran(u, d)' <=> Overran(u, d))
  BY <1>1 DEF RunsOf, Overran
<1>5. \A r : (Launched(r)' <=> Launched(r)) /\ (Done(r)' <=> Done(r))
  BY <1>1 DEF Launched, Done
<1>6. SchedTyped' /\ JobsInOrder' /\ NothingRunsDown'
  BY <1>1, <1>2, <1>5 DEF SchedTyped, JobsInOrder, NothingRunsDown
<1>7. /\ t \notin tick.todo /\ \A r \in SchedRuns : run[r].task = t => ~Launched(r)
      /\ \A d : RunsOf(t, d) = {}
  BY <1>1 DEF NoneIsFresh, RunsOf, Launched
<1>8. DatesInOrder'
  BY <1>1, <1>2, <1>3, <1>5, SchedTypes DEF DatesInOrder
<1>9. NoneIsFresh'
  BY <1>1, <1>2, <1>3, <1>5, <1>7 DEF NoneIsFresh
<1>10. TodoIsNew' /\ NoTwoRuns'
  BY <1>1, <1>4 DEF TodoIsNew, NoTwoRuns
<1>11. MarkedIsDated' /\ RunningRuns'
  BY <1>1, <1>2, <1>3, <1>4, <1>5, <1>7 DEF MarkedIsDated, RunningRuns
<1>12. ReportIsOwn'
  BY <1>1, <1>2, <1>3 DEF ReportIsOwn
<1>13. DatedIsRunning' /\ NoDayLost'
  BY <1>1, <1>2, <1>3, <1>4, <1>5, SchedTypes DEF DatedIsRunning, NoDayLost
<1>14. FailingIsOff'
  BY <1>1, <1>2, <1>3, SchedAssumption DEF FailingIsOff
<1>15. SuccessHasReport'
  BY <1>1, <1>2, <1>3 DEF SuccessHasReport
<1> QED
  BY <1>6, <1>8, <1>9, <1>10, <1>11, <1>12, <1>13, <1>14, <1>15

\* An update of rows.
LEMMA UpdateKeeps ==
    ASSUME SchedInv, NEW S \in SUBSET SchedTasks, Update(S)
    PROVE  SchedInv'
<1> USE DEF SchedInv
<1>1. PICK f \in {"enable", "disable", "night", "evening"} :
         item' = [t \in SchedTasks |->
            IF t \notin S THEN item[t]
            ELSE CASE f = "enable"  -> Enabled(item[t])
                   [] f = "disable" -> [item[t] EXCEPT !.active = FALSE]
                   [] OTHER         -> [item[t] EXCEPT !.trigger = f]]
  BY DEF Update
<1>2. UNCHANGED <<day, part, tick, run, schedUp, touched>>
  BY DEF Update
<1>3. \A t \in SchedTasks :
         \/ item'[t] = item[t]
         \/ item'[t] = [item[t] EXCEPT !.active = TRUE, !.fails = 0]
         \/ item'[t] = [item[t] EXCEPT !.active = FALSE]
         \/ f \in {"night", "evening"} /\ item'[t] = [item[t] EXCEPT !.trigger = f]
  <2> DEFINE edited(row) == CASE f = "enable"  -> Enabled(row)
                              [] f = "disable" -> [row EXCEPT !.active = FALSE]
                              [] OTHER         -> [row EXCEPT !.trigger = f]
  <2>1. \A t \in SchedTasks : item'[t] = IF t \notin S THEN item[t] ELSE edited(item[t])
    BY <1>1
  <2>2. \A row : \/ edited(row) = [row EXCEPT !.active = TRUE, !.fails = 0]
                 \/ edited(row) = [row EXCEPT !.active = FALSE]
                 \/ f \in {"night", "evening"} /\ edited(row) = [row EXCEPT !.trigger = f]
    <3> SUFFICES ASSUME NEW row
                 PROVE  \/ edited(row) = [row EXCEPT !.active = TRUE, !.fails = 0]
                        \/ edited(row) = [row EXCEPT !.active = FALSE]
                        \/ f \in {"night", "evening"} /\ edited(row) = [row EXCEPT !.trigger = f]
      OBVIOUS
    <3>1. CASE f = "enable"
      BY <3>1 DEF Enabled
    <3>2. CASE f = "disable"
      BY <3>2
    <3>3. CASE f \in {"night", "evening"}
      BY <3>3
    <3> QED
      BY <3>1, <3>2, <3>3
  <2> HIDE DEF edited
  <2> QED
    BY <2>1, <2>2
<1>4. item' = [t \in SchedTasks |-> item'[t]]
  BY <1>1
<1>5. \A t \in SchedTasks :
         /\ item'[t] \in Row
         /\ item'[t].live = item[t].live
         /\ item'[t].date = item[t].date /\ item'[t].status = item[t].status
         /\ item'[t].report = item[t].report
  <2> SUFFICES ASSUME NEW t \in SchedTasks
               PROVE  /\ item'[t] \in Row
                      /\ item'[t].live = item[t].live
                      /\ item'[t].date = item[t].date /\ item'[t].status = item[t].status
                      /\ item'[t].report = item[t].report
    OBVIOUS
  <2>0. item[t] \in Row
    BY SchedTypes
  <2>1. CASE item'[t] = item[t]
    BY <2>0, <2>1
  <2>2. CASE item'[t] = [item[t] EXCEPT !.active = TRUE, !.fails = 0]
    <3>1. item'[t] \in Row
      BY <2>0, <2>2, EditTyped
    <3> QED
      BY <2>0, <2>2, <3>1 DEF Row
  <2>3. CASE item'[t] = [item[t] EXCEPT !.active = FALSE]
    BY <2>0, <2>3 DEF Row
  <2>4. CASE f \in {"night", "evening"} /\ item'[t] = [item[t] EXCEPT !.trigger = f]
    BY <2>0, <2>4 DEF Row
  <2> QED
    BY <1>3, <2>1, <2>2, <2>3, <2>4
<1>6. FailingIsOff'
  <2> SUFFICES ASSUME NEW t \in SchedTasks, item'[t].fails >= FailLimit
               PROVE  ~item'[t].active
    BY <1>2 DEF FailingIsOff
  <2>0. item[t] \in Row /\ (item[t].fails >= FailLimit => ~item[t].active)
    BY SchedTypes DEF FailingIsOff
  <2>1. CASE item'[t] = item[t]
    BY <2>0, <2>1
  <2>2. CASE item'[t] = [item[t] EXCEPT !.active = TRUE, !.fails = 0]
    BY <2>0, <2>2, SchedAssumption DEF Row
  <2>3. CASE item'[t] = [item[t] EXCEPT !.active = FALSE]
    BY <2>0, <2>3 DEF Row
  <2>4. CASE item'[t] = [item[t] EXCEPT !.trigger = f]
    BY <2>0, <2>4 DEF Row
  <2> QED
    BY <1>3, <2>1, <2>2, <2>3, <2>4
<1>7. SchedTyped'
  BY <1>2, <1>4, <1>5 DEF SchedTyped
<1> QED
  BY <1>2, <1>5, <1>6, <1>7, RowsEdited

\* The deletion of rows.
LEMMA DeleteKeeps ==
    ASSUME SchedInv, NEW S \in SUBSET SchedTasks, Delete(S)
    PROVE  SchedInv'
<1> USE DEF SchedInv
<1>1. /\ item' = [t \in SchedTasks |-> [item[t] EXCEPT !.live = @ /\ t \notin S]]
      /\ UNCHANGED <<day, part, tick, run, schedUp, touched>>
  BY DEF Delete
<1>2. \A t \in SchedTasks :
         /\ item'[t] \in Row
         /\ item'[t].live => item[t].live
         /\ item'[t].date = item[t].date /\ item'[t].status = item[t].status
         /\ item'[t].report = item[t].report
         /\ item'[t].fails = item[t].fails /\ item'[t].active = item[t].active
  <2> SUFFICES ASSUME NEW t \in SchedTasks
               PROVE  /\ item'[t] \in Row
                      /\ item'[t].live => item[t].live
                      /\ item'[t].date = item[t].date /\ item'[t].status = item[t].status
                      /\ item'[t].report = item[t].report
                      /\ item'[t].fails = item[t].fails /\ item'[t].active = item[t].active
    OBVIOUS
  <2>1. item[t] \in Row
    BY SchedTypes
  <2>2. PICK b \in BOOLEAN : b = (item[t].live /\ t \notin S)
    OBVIOUS
  <2>3. item'[t] = [item[t] EXCEPT !.live = b] /\ (b => item[t].live)
    BY <1>1, <2>2
  <2> QED
    BY <2>1, <2>3 DEF Row
<1>3. FailingIsOff'
  BY <1>1, <1>2 DEF FailingIsOff
<1>4. SchedTyped'
  BY <1>1, <1>2 DEF SchedTyped
<1> QED
  BY <1>1, <1>2, <1>3, <1>4, RowsEdited

\* One job changes in some of its fields.
LEMMA JobTyped ==
    ASSUME NEW j \in Jobs, NEW pc \in {"unused", "queued", "running", "left", "over", "lost"},
           NEW rep \in {"none", "running", "completed", "failed"}, NEW d \in Nat
    PROVE  /\ [j EXCEPT !.pc = pc] \in Jobs
           /\ [j EXCEPT !.report = rep] \in Jobs
           /\ [j EXCEPT !.pc = pc, !.report = rep] \in Jobs
           /\ [j EXCEPT !.pc = pc, !.report = rep, !.made = d] \in Jobs
           /\ [j EXCEPT !.pc = pc, !.ended = d, !.report = rep] \in Jobs
  BY DEF Jobs

\* A job takes a slot.
LEMMA TakeSlotKeeps ==
    ASSUME SchedInv, NEW r \in SchedRuns, TakeSlot(r)
    PROVE  SchedInv'
<1> USE DEF SchedInv
<1>1. /\ run[r].pc = "queued"
      /\ run' = [run EXCEPT ![r] = [run[r] EXCEPT !.pc = "running", !.report = "running", !.made = UtcDay]]
      /\ UNCHANGED <<item, day, part, tick, schedUp, touched>>
  BY DEF TakeSlot, SchedTyped
<1>2. UtcDay \in Nat /\ UtcDay <= day
  BY SchedTypes DEF UtcDay
<1>3. run[r] \in Jobs
  BY SchedTypes
<1>4. /\ run'[r].pc = "running" /\ run'[r].report = "running" /\ run'[r].made = UtcDay
      /\ run'[r].task = run[r].task /\ run'[r].day = run[r].day /\ run'[r].ended = run[r].ended
      /\ run'[r].hand = run[r].hand /\ run'[r] \in Jobs
  BY <1>1, <1>2, <1>3 DEF SchedTyped, Jobs
<1>5. /\ \A u \in SchedRuns : u # r => run'[u] = run[u]
      /\ run' = [u \in SchedRuns |-> run'[u]]
  BY <1>1 DEF SchedTyped
<1>6. SchedTyped'
  BY <1>1, <1>4, <1>5, SchedTypes DEF SchedTyped
<1>7. JobsInOrder'
  BY <1>1, <1>2, <1>4, <1>5 DEF JobsInOrder, Done
<1>8. NothingRunsDown'
  BY <1>1, <1>4, <1>5 DEF NothingRunsDown
<1>9. Follows
  BY <1>1, <1>4, <1>5 DEF Follows, Launched
<1>10. GoesOn
  BY <1>1, <1>4, <1>5 DEF GoesOn, Done, JobsInOrder
<1> QED
  BY <1>1, <1>6, <1>7, <1>8, <1>9, <1>10, JobsMove

\* What was left running comes to its end.
LEMMA LateEndKeeps ==
    ASSUME SchedInv, NEW r \in SchedRuns, LateEnd(r)
    PROVE  SchedInv'
<1> USE DEF SchedInv
<1>1. PICK w \in {"completed", "failed"} : run' = [run EXCEPT ![r] = [run[r] EXCEPT !.pc = "over", !.report = w]]
  BY DEF LateEnd, SchedTyped
<1>2. run[r].pc = "left" /\ UNCHANGED <<item, day, part, tick, schedUp, touched>>
  BY DEF LateEnd
<1>3. run[r] \in Jobs
  BY SchedTypes
<1>4. /\ run'[r].pc = "over" /\ run'[r].report = w /\ run'[r].made = run[r].made
      /\ run'[r].task = run[r].task /\ run'[r].day = run[r].day /\ run'[r].ended = run[r].ended
      /\ run'[r].hand = run[r].hand /\ run'[r] \in Jobs
  BY <1>1, <1>3 DEF SchedTyped, Jobs
<1>5. /\ \A u \in SchedRuns : u # r => run'[u] = run[u]
      /\ run' = [u \in SchedRuns |-> run'[u]]
  BY <1>1 DEF SchedTyped
<1>6. SchedTyped'
  BY <1>2, <1>4, <1>5, SchedTypes DEF SchedTyped
<1>7. JobsInOrder'
  BY <1>2, <1>4, <1>5 DEF JobsInOrder, Done
<1>8. NothingRunsDown'
  BY <1>2, <1>4, <1>5 DEF NothingRunsDown
<1>9. Follows
  BY <1>2, <1>4, <1>5 DEF Follows, Launched
<1>10. GoesOn
  BY <1>2, <1>4, <1>5 DEF GoesOn, Done, JobsInOrder
<1> QED
  BY <1>2, <1>6, <1>7, <1>8, <1>9, <1>10, JobsMove

\* A user runs a task by hand.
LEMMA TriggerKeeps ==
    ASSUME SchedInv, NEW t \in SchedTasks, NEW r \in SchedRuns, TriggerByHand(t, r)
    PROVE  SchedInv'
<1> USE DEF SchedInv
<1>1. /\ run[r].pc = "unused"
      /\ run' = [run EXCEPT ![r] = [task |-> t, day |-> day, hand |-> TRUE,
                                    pc |-> "running", report |-> "running", made |-> UtcDay, ended |-> 0]]
      /\ UNCHANGED <<item, day, part, tick, schedUp, touched>>
  BY DEF TriggerByHand, NextRun, Free
<1>2. UtcDay \in Nat /\ UtcDay <= day
  BY SchedTypes DEF UtcDay
<1>4. /\ run'[r].pc = "running" /\ run'[r].report = "running" /\ run'[r].made = UtcDay
      /\ run'[r].day = day /\ run'[r].hand /\ run'[r] \in Jobs
  BY <1>1, <1>2, SchedTypes DEF SchedTyped, Jobs
<1>5. /\ \A u \in SchedRuns : u # r => run'[u] = run[u]
      /\ run' = [u \in SchedRuns |-> run'[u]]
  BY <1>1 DEF SchedTyped
<1>6. SchedTyped'
  BY <1>1, <1>4, <1>5, SchedTypes DEF SchedTyped
<1>7. JobsInOrder'
  BY <1>1, <1>2, <1>4, <1>5, SchedTypes DEF JobsInOrder, Done
<1>8. NothingRunsDown'
  BY <1>1, <1>4, <1>5 DEF NothingRunsDown
<1>9. Follows
  BY <1>1, <1>4, <1>5 DEF Follows, Launched
<1>10. GoesOn
  BY <1>1, <1>4, <1>5 DEF GoesOn, Done, JobsInOrder, Launched
<1> QED
  BY <1>1, <1>6, <1>7, <1>8, <1>9, <1>10, JobsMove

\* What a crash makes of a job.
LEMMA LostJob ==
    ASSUME SchedTyped, NEW h \in BOOLEAN, NEW r \in SchedRuns
    PROVE  /\ Lost(h)[r] \in Jobs
           /\ Lost(h)[r].task = run[r].task /\ Lost(h)[r].day = run[r].day
           /\ Lost(h)[r].hand = run[r].hand /\ Lost(h)[r].report = run[r].report
           /\ Lost(h)[r].made = run[r].made /\ Lost(h)[r].ended = run[r].ended
           /\ run[r].hand # h => Lost(h)[r] = run[r]
           /\ run[r].hand = h => Lost(h)[r].pc = IF run[r].pc \in {"queued", "running"} THEN "lost"
                                                 ELSE IF run[r].pc = "left" THEN "over" ELSE run[r].pc
<1>0. run[r] \in Jobs
  BY SchedTypes
<1>1. Lost(h)[r] =
        IF run[r].hand # h THEN run[r]
        ELSE CASE run[r].pc \in {"queued", "running"} -> [run[r] EXCEPT !.pc = "lost"]
               [] run[r].pc = "left"                  -> [run[r] EXCEPT !.pc = "over"]
               [] OTHER                               -> run[r]
  BY DEF Lost
<1>2. CASE run[r].hand # h
  BY <1>0, <1>1, <1>2
<1>3. CASE run[r].hand = h /\ run[r].pc \in {"queued", "running"}
  <2>1. Lost(h)[r] = [run[r] EXCEPT !.pc = "lost"]
    BY <1>1, <1>3
  <2> QED
    BY <1>0, <1>3, <2>1 DEF Jobs
<1>4. CASE run[r].hand = h /\ run[r].pc = "left"
  <2>1. Lost(h)[r] = [run[r] EXCEPT !.pc = "over"]
    BY <1>1, <1>4
  <2> QED
    BY <1>0, <1>4, <2>1 DEF Jobs
<1>5. CASE run[r].hand = h /\ run[r].pc \notin {"queued", "running", "left"}
  <2>1. Lost(h)[r] = run[r]
    BY <1>1, <1>5
  <2> QED
    BY <1>0, <1>5, <2>1
<1> QED
  BY <1>2, <1>3, <1>4, <1>5

\* The API process crashes: the runs by hand are lost, the loop's are not touched.
LEMMA ApiCrashKeeps ==
    ASSUME SchedInv, ApiCrash
    PROVE  SchedInv'
<1> USE DEF SchedInv
<1>1. run' = Lost(TRUE) /\ UNCHANGED <<item, day, part, tick, schedUp, touched>>
  BY DEF ApiCrash
<1>2. run' = [u \in SchedRuns |-> run'[u]]
  BY <1>1 DEF Lost
<1>3. \A u \in SchedRuns :
           /\ run'[u] \in Jobs
           /\ run'[u].task = run[u].task /\ run'[u].day = run[u].day
           /\ run'[u].hand = run[u].hand /\ run'[u].report = run[u].report
           /\ run'[u].made = run[u].made /\ run'[u].ended = run[u].ended
           /\ ~run[u].hand => run'[u] = run[u]
           /\ run'[u].pc = run[u].pc \/ (run[u].pc \in {"queued", "running"} /\ run'[u].pc = "lost")
                 \/ (run[u].pc = "left" /\ run'[u].pc = "over")
  BY <1>1, LostJob
<1>6. SchedTyped'
  BY <1>1, <1>2, <1>3 DEF SchedTyped
<1>7. JobsInOrder'
  <2>1. day' = day /\ day \in Nat /\ JobsInOrder
    BY <1>1, SchedTypes
  <2> HIDE DEF SchedInv
  <2> SUFFICES ASSUME NEW r \in SchedRuns
               PROVE  /\ run'[r].day <= day' /\ run'[r].made <= day' /\ run'[r].ended <= day'
                      /\ run'[r].pc = "unused" => run'[r].report = "none" /\ run'[r].ended = 0
                      /\ run'[r].report = "completed" => run'[r].pc = "over"
                      /\ Done(r)' => run'[r].made <= run'[r].ended
    BY DEF JobsInOrder
  <2>2. /\ run'[r].day = run[r].day /\ run'[r].made = run[r].made /\ run'[r].ended = run[r].ended
        /\ run'[r].report = run[r].report
        /\ run'[r].pc = "unused" => run[r].pc = "unused"
        /\ run[r].pc = "over" => run'[r].pc = "over"
        /\ Done(r)' => Done(r)
    BY <1>3 DEF Done
  <2>3. /\ run[r].day <= day /\ run[r].made <= day /\ run[r].ended <= day
        /\ run[r].pc = "unused" => run[r].report = "none" /\ run[r].ended = 0
        /\ run[r].report = "completed" => run[r].pc = "over"
        /\ Done(r) => run[r].made <= run[r].ended
    BY <2>1 DEF JobsInOrder
  <2> QED
    BY <2>1, <2>2, <2>3
<1>8. NothingRunsDown'
  BY <1>1, <1>3 DEF NothingRunsDown
<1>9. Follows
  BY <1>3 DEF Follows, Launched
<1>10. GoesOn
  BY <1>3 DEF GoesOn, Done, Launched
<1> QED
  BY <1>1, <1>6, <1>7, <1>8, <1>9, <1>10, JobsMove

\* A tick marks what is due.
LEMMA MarkDueKeeps ==
    ASSUME SchedInv, MarkDue
    PROVE  SchedInv'
<1> USE DEF SchedInv
<1>1. /\ schedUp /\ tick.todo = {}
      /\ item' = [t \in SchedTasks |-> IF t \in Pending
                      THEN [item[t] EXCEPT !.date = day, !.status = "running"] ELSE item[t]]
      /\ tick' = [todo |-> Pending, day |-> day]
      /\ UNCHANGED <<day, part, run, schedUp, touched>>
  BY DEF MarkDue
<1>2. Pending \subseteq SchedTasks /\ \A t \in Pending : item[t].live /\ item[t].date # day
  BY DEF Pending
<1>3. tick'.todo = Pending /\ tick'.day = day
  BY <1>1
<1>4. \A t \in SchedTasks :
         /\ item'[t] \in Row
         /\ item'[t].live = item[t].live /\ item'[t].report = item[t].report
         /\ item'[t].fails = item[t].fails /\ item'[t].active = item[t].active
         /\ t \in Pending => item'[t].date = day /\ item'[t].status = "running"
         /\ t \notin Pending => item'[t] = item[t]
  <2> SUFFICES ASSUME NEW t \in SchedTasks
               PROVE  /\ item'[t] \in Row
                      /\ item'[t].live = item[t].live /\ item'[t].report = item[t].report
                      /\ item'[t].fails = item[t].fails /\ item'[t].active = item[t].active
                      /\ t \in Pending => item'[t].date = day /\ item'[t].status = "running"
                      /\ t \notin Pending => item'[t] = item[t]
    OBVIOUS
  <2>1. item[t] \in Row /\ day \in Nat
    BY SchedTypes
  <2>2. CASE t \in Pending
    <3>1. item'[t] = [item[t] EXCEPT !.date = day, !.status = "running"]
      BY <1>1, <2>2
    <3> QED
      BY <2>1, <2>2, <3>1 DEF Row
  <2>3. CASE t \notin Pending
    BY <1>1, <2>1, <2>3
  <2> QED
    BY <2>2, <2>3
<1>5. \A u, d : RunsOf(u, d)' = RunsOf(u, d) /\ (Overran(u, d)' <=> Overran(u, d))
  BY <1>1 DEF RunsOf, Overran
<1>6. \A r : (Launched(r)' <=> Launched(r)) /\ (Done(r)' <=> Done(r))
  BY <1>1 DEF Launched, Done
<1>7. \A t \in Pending : RunsOf(t, day) = {} \/ Overran(t, day)
  BY <1>2 DEF MarkedIsDated
<1>8. SchedTyped'
  <2>1. item' = [t \in SchedTasks |-> item'[t]]
    BY <1>1
  <2>2. tick' \in [todo : SUBSET SchedTasks, day : Nat]
    BY <1>1, <1>2, SchedTypes
  <2> QED
    BY <1>1, <1>4, <2>1, <2>2 DEF SchedTyped
<1>9. JobsInOrder' /\ NothingRunsDown'
  BY <1>1, <1>6 DEF JobsInOrder, NothingRunsDown
<1>10. DatesInOrder'
  <2>1. day \in Nat /\ day >= 1 /\ \A t \in SchedTasks : item[t].date <= day
    BY SchedTypes DEF DatesInOrder
  <2>2. \A t \in SchedTasks : item'[t].date <= day
    BY <1>4, <2>1
  <2>3. \A r \in SchedRuns : run[r].day <= day
    BY DEF JobsInOrder
  <2>4. day' = day /\ 1 <= day /\ tick'.day = day /\ \A r \in SchedRuns : run'[r].day <= day
    BY <1>1, <1>3, <2>1, <2>3
  <2> QED
    BY <2>1, <2>2, <2>4 DEF DatesInOrder
<1>11. NoneIsFresh'
  BY <1>1, <1>3, <1>4, <1>6 DEF NoneIsFresh
<1>12. TodoIsNew' /\ NoTwoRuns'
  BY <1>1, <1>3, <1>5, <1>7 DEF TodoIsNew, NoTwoRuns
<1>13. MarkedIsDated'
  BY <1>1, <1>3, <1>4, <1>5 DEF MarkedIsDated
<1>14. RunningRuns'
  BY <1>1, <1>4, <1>5, <1>6, <1>7 DEF RunningRuns
<1>15. ReportIsOwn'
  <2>1. touched' = touched /\ run' = run /\ \A t \in SchedTasks : item'[t].report = item[t].report
    BY <1>1, <1>4
  <2> QED
    BY <2>1 DEF ReportIsOwn
<1>16. DatedIsRunning'
  BY <1>1, <1>4, <1>5, <1>6 DEF DatedIsRunning
<1>17. FailingIsOff' /\ SuccessHasReport'
  BY <1>1, <1>4 DEF FailingIsOff, SuccessHasReport
<1>18. NoDayLost'
  BY <1>1, <1>3, <1>4, <1>5 DEF NoDayLost
<1> QED
  BY <1>8, <1>9, <1>10, <1>11, <1>12, <1>13, <1>14, <1>15, <1>16, <1>17, <1>18

\* A marked task is launched.
LEMMA LaunchKeeps ==
    ASSUME SchedInv, NEW t \in SchedTasks, NEW r \in SchedRuns, LaunchOne(t, r)
    PROVE  SchedInv'
<1> USE DEF SchedInv
<1>1. /\ schedUp /\ t \in tick.todo /\ run[r].pc = "unused"
      /\ tick' = [tick EXCEPT !.todo = @ \ {t}]
      /\ run' = [run EXCEPT ![r] = [task |-> t, day |-> tick.day, hand |-> FALSE,
                                    pc |-> "queued", report |-> "none", made |-> 0, ended |-> 0]]
      /\ UNCHANGED <<item, day, part, schedUp, touched>>
  BY DEF LaunchOne, NextRun, Free
<1>2. tick'.todo = tick.todo \ {t} /\ tick'.day = tick.day /\ tick' \in [todo : SUBSET SchedTasks, day : Nat]
  BY <1>1 DEF SchedTyped
<1>3. /\ tick.day \in Nat /\ 1 <= tick.day /\ tick.day <= day /\ day \in Nat \ {0}
      /\ \A u \in SchedTasks : item[u].date <= tick.day
      /\ \A u \in SchedRuns : Launched(u) => run[u].day <= tick.day
  BY <1>1, SchedTypes DEF DatesInOrder
<1>4. /\ run'[r].pc = "queued" /\ run'[r].report = "none" /\ run'[r].made = 0 /\ run'[r].ended = 0
      /\ run'[r].task = t /\ run'[r].day = tick.day /\ ~run'[r].hand /\ run'[r] \in Jobs
  BY <1>1, SchedTypes DEF SchedTyped, Jobs
<1>5. /\ \A u \in SchedRuns : u # r => run'[u] = run[u]
      /\ run' = [u \in SchedRuns |-> run'[u]]
  BY <1>1 DEF SchedTyped
<1>6. \A u, d : RunsOf(u, d)' = RunsOf(u, d) \union (IF u = t /\ d = tick.day THEN {r} ELSE {})
  <2> SUFFICES ASSUME NEW u, NEW d
               PROVE  RunsOf(u, d)' = RunsOf(u, d) \union (IF u = t /\ d = tick.day THEN {r} ELSE {})
    OBVIOUS
  <2>1. \A v \in SchedRuns : v # r => (v \in RunsOf(u, d)' <=> v \in RunsOf(u, d))
    BY <1>5 DEF RunsOf
  <2>2. r \notin RunsOf(u, d) /\ (r \in RunsOf(u, d)' <=> (u = t /\ d = tick.day))
    BY <1>1, <1>4 DEF RunsOf
  <2>3. RunsOf(u, d) \subseteq SchedRuns /\ RunsOf(u, d)' \subseteq SchedRuns
    BY DEF RunsOf
  <2> QED
    BY <2>1, <2>2, <2>3
<1>7. \A u, d : d \in Nat \ {0} => (Overran(u, d)' <=> Overran(u, d))
  <2> SUFFICES ASSUME NEW u, NEW d \in Nat \ {0}
               PROVE  Overran(u, d)' <=> Overran(u, d)
    OBVIOUS
  <2>1. ~(run[r].ended >= d) /\ ~(run'[r].ended >= d)
    BY <1>1, <1>4 DEF JobsInOrder
  <2> QED
    BY <2>1, <1>5 DEF Overran
<1>8. /\ \A u \in SchedRuns : u # r => (Launched(u)' <=> Launched(u)) /\ (Done(u)' <=> Done(u))
      /\ ~Launched(r) /\ ~Done(r) /\ ~Done(r)'
  BY <1>1, <1>4, <1>5 DEF Launched, Done
<1>9. SchedTyped'
  BY <1>1, <1>2, <1>4, <1>5, SchedTypes DEF SchedTyped
<1>10. JobsInOrder'
  BY <1>1, <1>3, <1>4, <1>5, <1>8 DEF JobsInOrder
<1>11. DatesInOrder'
  BY <1>1, <1>2, <1>3, <1>4, <1>5, <1>8 DEF DatesInOrder
<1>12. NothingRunsDown'
  BY <1>1 DEF NothingRunsDown
<1>13. NoneIsFresh'
  BY <1>1, <1>2, <1>4, <1>5, <1>8 DEF NoneIsFresh
<1>14. TodoIsNew'
  BY <1>2, <1>3, <1>6, <1>7 DEF TodoIsNew
<1>15. MarkedIsDated'
  BY <1>1, <1>2, <1>3, <1>6, <1>7 DEF MarkedIsDated
<1>16. \A u, d : RunsOf(u, d) \subseteq SchedRuns \ {r}
  BY <1>1 DEF RunsOf
<1>17. RunningRuns'
  BY <1>1, <1>3, <1>6, <1>7, <1>8, <1>16 DEF RunningRuns
<1>18. NoTwoRuns'
  <2> SUFFICES ASSUME NEW u \in SchedTasks, NEW d \in Nat \ {0}, ~Overran(u, d),
                      NEW v \in RunsOf(u, d)', NEW w \in RunsOf(u, d)'
               PROVE  v = w
    BY <1>7 DEF NoTwoRuns
  <2>1. CASE u = t /\ d = tick.day
    BY <2>1, <1>1, <1>6 DEF TodoIsNew
  <2>2. CASE ~(u = t /\ d = tick.day)
    BY <2>2, <1>6 DEF NoTwoRuns
  <2> QED
    BY <2>1, <2>2
<1>19. ReportIsOwn'
  <2> SUFFICES ASSUME NEW u \in SchedTasks \ touched, item[u].report # NoSchedRun
               PROVE  LET v == item[u].report IN ~run'[v].hand /\ run'[v].task = u /\ run'[v].pc = "over"
    BY <1>1 DEF ReportIsOwn
  <2>1. item[u].report \in SchedRuns
    BY SchedTypes DEF Row
  <2> QED
    BY <2>1, <1>1, <1>5 DEF ReportIsOwn
<1>20. DatedIsRunning'
  BY <1>1, <1>3, <1>6, <1>7, <1>8, <1>16 DEF DatedIsRunning
<1>21. FailingIsOff'
  BY <1>1 DEF FailingIsOff
<1>22. SuccessHasReport'
  <2> SUFFICES ASSUME NEW u \in SchedTasks, item[u].live, item[u].status = "success"
               PROVE  item[u].report # NoSchedRun /\ run'[item[u].report].report = "completed"
    BY <1>1 DEF SuccessHasReport
  <2>1. item[u].report # NoSchedRun /\ run[item[u].report].report = "completed"
    BY DEF SuccessHasReport
  <2>2. item[u].report \in SchedRuns
    BY <2>1, SchedTypes DEF Row
  <2> QED
    BY <2>1, <2>2, <1>1, <1>5 DEF JobsInOrder
<1>23. NoDayLost'
  <2> SUFFICES ASSUME NEW u \in SchedTasks, item[u].live, item[u].date = day, u \notin touched, ~Overran(u, day)
               PROVE  RunsOf(u, day)' # {} \/ u \in tick'.todo
    BY <1>1, <1>3, <1>7 DEF NoDayLost
  <2>1. CASE u = t
    <3>1. tick.day = day
      BY <1>3, SchedTypes
    <3>2. RunsOf(t, tick.day)' = RunsOf(t, tick.day) \union {r}
      BY <1>2, <1>6
    <3> QED
      BY <1>1, <2>1, <3>1, <3>2
  <2>2. CASE u # t
    <3>1. RunsOf(u, day) # {} \/ u \in tick.todo
      BY <1>1 DEF NoDayLost
    <3>2. RunsOf(u, day) \subseteq RunsOf(u, day)'
      BY <1>1, <1>6
    <3> QED
      BY <1>1, <2>2, <3>1, <3>2, <1>2
  <2> QED
    BY <2>1, <2>2
<1> QED
  BY <1>9, <1>10, <1>11, <1>12, <1>13, <1>14, <1>15, <1>17, <1>18, <1>19, <1>20, <1>21, <1>22, <1>23

\* How the row of a run is written.
LEMMA WrittenRow ==
    ASSUME SchedInv, NEW r \in SchedRuns, NEW good \in BOOLEAN, run[r].pc = "running"
    PROVE  /\ Written(r, good) = [t \in SchedTasks |-> Written(r, good)[t]]
           /\ \A t \in SchedTasks :
                /\ Written(r, good)[t] \in Row /\ Written(r, good)[t].live = item[t].live
                /\ (t # run[r].task \/ ~item[t].live) => Written(r, good)[t] = item[t]
           /\ LET t   == run[r].task
                  row == Written(r, good)[run[r].task] IN
              item[t].live =>
                /\ row.status = IF good THEN "success" ELSE "failed"
                /\ row.date = IF run[r].hand THEN item[t].date ELSE run[r].day
                /\ row.report = IF good THEN r ELSE item[t].report
                /\ row.fails >= FailLimit => ~row.active
<1> USE DEF SchedInv
<1> DEFINE t == run[r].task
           w == Written(r, good)
<1>1. t \in SchedTasks /\ item[t] \in Row /\ run[r].day \in Nat /\ item[t].fails \in Nat
      /\ (item[t].fails >= FailLimit => ~item[t].active)
      /\ item = [u \in SchedTasks |-> item[u]] /\ \A u \in SchedTasks : item[u] \in Row
  <2>1. t \in SchedTasks /\ item[t].fails >= FailLimit => ~item[t].active
    BY DEF FailingIsOff
  <2> QED
    BY <2>1, SchedTypes DEF SchedTyped
<1>2. CASE ~item[t].live
  <2>1. w = item
    BY <1>2 DEF Written
  <2> HIDE DEF w, t
  <2> QED
    BY <1>1, <1>2, <2>1 DEF w, t
<1>3. ASSUME item[t].live, NEW row \in Row, w = [item EXCEPT ![t] = row],
             row.live = item[t].live,
             row.status = IF good THEN "success" ELSE "failed",
             row.date = IF run[r].hand THEN item[t].date ELSE run[r].day,
             row.report = IF good THEN r ELSE item[t].report,
             row.fails >= FailLimit => ~row.active
      PROVE  /\ w = [u \in SchedTasks |-> w[u]]
             /\ \A u \in SchedTasks :
                  /\ w[u] \in Row /\ w[u].live = item[u].live
                  /\ (u # t \/ ~item[u].live) => w[u] = item[u]
             /\ w[t] = row
  <2> HIDE DEF w, t
  <2>1. w = [u \in SchedTasks |-> IF u = t THEN row ELSE item[u]]
    BY <1>1, <1>3
  <2> HIDE <1>3
  <2> QED
    BY <1>1, <1>3, <2>1
<1>4. CASE item[t].live /\ run[r].hand /\ good
  <2> DEFINE row == [item[t] EXCEPT !.status = "success", !.report = r, !.fails = 0]
  <2>1. w = [item EXCEPT ![t] = row]
    BY <1>4 DEF Written, Record
  <2>2. row \in Row
    BY <1>1, DoneTyped
  <2>3. /\ row.live = item[t].live /\ row.status = "success" /\ row.date = item[t].date /\ row.report = r
        /\ row.fails = 0
    BY <1>1, <2>2 DEF Row
  <2>4. row.fails >= FailLimit => ~row.active
    BY <2>3, SchedAssumption
  <2> HIDE DEF row, w, t
  <2> QED
    BY <1>3, <1>4, <2>1, <2>2, <2>3, <2>4 DEF w, t
<1>5. CASE item[t].live /\ run[r].hand /\ ~good
  <2> DEFINE row == [item[t] EXCEPT !.status = "failed"]
  <2>1. w = [item EXCEPT ![t] = row]
    BY <1>5 DEF Written, Record
  <2>2. row \in Row
    BY <1>1, EditTyped
  <2>3. /\ row.live = item[t].live /\ row.status = "failed" /\ row.date = item[t].date
        /\ row.report = item[t].report /\ row.fails = item[t].fails /\ row.active = item[t].active
    BY <1>1, <2>2 DEF Row
  <2>4. row.fails >= FailLimit => ~row.active
    BY <2>3, <1>1
  <2> HIDE DEF row, w, t
  <2> QED
    BY <1>3, <1>5, <2>1, <2>2, <2>3, <2>4 DEF w, t
<1>6. CASE item[t].live /\ ~run[r].hand /\ good
  <2> DEFINE row == [item[t] EXCEPT !.date = run[r].day, !.status = "success", !.report = r, !.fails = 0]
  <2>1. w = [item EXCEPT ![t] = row]
    BY <1>6 DEF Written, Succeed
  <2>2. row \in Row
    BY <1>1, DoneTyped
  <2>3. /\ row.live = item[t].live /\ row.status = "success" /\ row.date = run[r].day /\ row.report = r
        /\ row.fails = 0
    BY <1>1, <2>2 DEF Row
  <2>4. row.fails >= FailLimit => ~row.active
    BY <2>3, SchedAssumption
  <2> HIDE DEF row, w, t
  <2> QED
    BY <1>3, <1>6, <2>1, <2>2, <2>3, <2>4 DEF w, t
<1>7. CASE item[t].live /\ ~run[r].hand /\ ~good
  <2>0. PICK a \in BOOLEAN : a = (item[t].active /\ item[t].fails + 1 < FailLimit)
    OBVIOUS
  <2> DEFINE n == item[t].fails + 1
             row == [item[t] EXCEPT !.date = run[r].day, !.status = "failed", !.fails = n, !.active = a]
  <2>1. w = [item EXCEPT ![t] = row]
    BY <1>7, <2>0 DEF Written, Fail
  <2>2. n \in Nat
    BY <1>1
  <2>3. row \in Row
    BY <1>1, <2>2, FailedTyped
  <2>4. /\ row.live = item[t].live /\ row.status = "failed" /\ row.date = run[r].day
        /\ row.report = item[t].report /\ row.fails = n /\ row.active = a
    BY <1>1, <2>2, <2>3 DEF Row
  <2>5. row.fails >= FailLimit => ~row.active
    <3> HIDE DEF row
    <3>1. CASE a = TRUE
      <4>1. n < FailLimit
        BY <2>0, <3>1
      <4> QED
        BY <2>2, <2>4, <4>1, SchedAssumption
    <3>2. CASE a = FALSE
      BY <2>4, <3>2
    <3> QED
      BY <3>1, <3>2
  <2> HIDE DEF row, w, t
  <2> QED
    BY <1>3, <1>7, <2>1, <2>3, <2>4, <2>5 DEF w, t
<1> QED
  BY <1>2, <1>4, <1>5, <1>6, <1>7

\* A run ends, or is given up, and its row is written.
LEMMA RunEndKeeps ==
    ASSUME SchedInv, NEW r \in SchedRuns, NEW good \in BOOLEAN,
           NEW pc \in {"left", "over"}, NEW w \in {"completed", "failed"},
           w = "completed" <=> good, good => pc = "over",
           run[r].pc = "running",
           run' = [run EXCEPT ![r] = [run[r] EXCEPT !.pc = pc, !.ended = day, !.report = w]],
           item' = Written(r, good), Touch(r), UNCHANGED <<day, part, tick, schedUp>>
    PROVE  SchedInv'
<1> USE DEF SchedInv
<1>0. PICK t \in SchedTasks : t = run[r].task
  BY SchedTypes
<1>1. run[r] \in Jobs /\ t \in SchedTasks /\ day \in Nat \ {0} /\ run[r].day \in Nat /\ run[r].ended \in Nat
      /\ run[r].day <= day /\ run[r].made <= day /\ run[r].ended <= day
  BY <1>0, SchedTypes DEF JobsInOrder
<1>2. /\ run'[r].pc = pc /\ run'[r].report = w /\ run'[r].made = run[r].made
      /\ run'[r].task = t /\ run'[r].day = run[r].day /\ run'[r].ended = day
      /\ run'[r].hand = run[r].hand /\ run'[r] \in Jobs
  BY <1>0, <1>1 DEF SchedTyped, Jobs
<1>3. /\ \A u \in SchedRuns : u # r => run'[u] = run[u]
      /\ run' = [u \in SchedRuns |-> run'[u]]
  BY DEF SchedTyped
<1>4. /\ item' = [u \in SchedTasks |-> item'[u]]
      /\ \A u \in SchedTasks :
           /\ item'[u] \in Row /\ item'[u].live = item[u].live
           /\ (u # t \/ ~item[u].live) => item'[u] = item[u]
  BY <1>0, WrittenRow
<1>5. item[t].live =>
        /\ item'[t].status = IF good THEN "success" ELSE "failed"
        /\ item'[t].date = IF run[r].hand THEN item[t].date ELSE run[r].day
        /\ item'[t].report = IF good THEN r ELSE item[t].report
        /\ item'[t].fails >= FailLimit => ~item'[t].active
  BY <1>0, WrittenRow
<1>6. /\ touched \subseteq touched' /\ touched' \subseteq SchedTasks
      /\ run[r].hand => t \in touched'
      /\ ~run[r].hand => touched' = touched
  BY <1>0, <1>1 DEF Touch, SchedTyped
<1>7. \A u, d : RunsOf(u, d)' = RunsOf(u, d)
  <2> SUFFICES ASSUME NEW u, NEW d
               PROVE  RunsOf(u, d)' = RunsOf(u, d)
    OBVIOUS
  <2>1. \A v \in SchedRuns : v \in RunsOf(u, d)' <=> v \in RunsOf(u, d)
    BY <1>2, <1>3 DEF RunsOf
  <2> QED
    BY <2>1 DEF RunsOf
<1>8. \A u, d : d \in Nat \ {0} /\ Overran(u, d) => Overran(u, d)'
  <2> SUFFICES ASSUME NEW u, NEW d \in Nat \ {0}, Overran(u, d)
               PROVE  Overran(u, d)'
    OBVIOUS
  <2>1. PICK v \in SchedRuns : ~run[v].hand /\ run[v].task = u /\ run[v].day < d /\ run[v].ended >= d
    BY DEF Overran
  <2>2. ~run'[v].hand /\ run'[v].task = u /\ run'[v].day < d /\ run'[v].ended >= d
    BY <2>1, <1>1, <1>2, <1>3
  <2> QED
    BY <2>2 DEF Overran
<1>9. (~run[r].hand /\ run[r].day < day) => Overran(t, day)'
  BY <1>0, <1>1, <1>2 DEF Overran
<1>10. /\ \A u \in SchedRuns : Launched(u)' <=> Launched(u)
       /\ \A u \in SchedRuns : u # r => (Done(u)' <=> Done(u))
       /\ ~Done(r) /\ Done(r)' /\ (Launched(r) <=> ~run[r].hand)
  BY <1>2, <1>3 DEF Launched, Done
<1>11. (~run[r].hand /\ run[r].day = day) => r \in RunsOf(t, day)
  BY <1>0 DEF RunsOf
<1>12. \A u, d : r \in RunsOf(u, d) => u = t /\ ~run[r].hand
  BY <1>0 DEF RunsOf
<1>13. SchedTyped'
  BY <1>2, <1>3, <1>4, <1>6 DEF SchedTyped
<1>14. JobsInOrder'
  BY <1>1, <1>2, <1>3, <1>10 DEF JobsInOrder
<1>15. DatesInOrder'
  <2>1. \A u \in SchedTasks : item'[u].date = item[u].date
                                \/ (u = t /\ ~run[r].hand /\ item'[u].date = run[r].day)
    BY <1>4, <1>5
  <2> QED
    BY <2>1, <1>1, <1>2, <1>3, <1>10 DEF DatesInOrder
<1>16. NothingRunsDown'
  BY <1>2, <1>3 DEF NothingRunsDown
<1>17. NoneIsFresh'
  <2>1. \A u \in SchedTasks : item'[u].status = "none" => item[u].status = "none"
    BY <1>4, <1>5
  <2>2. \A u \in SchedRuns : run'[u].task = run[u].task
    BY <1>0, <1>2, <1>3
  <2> QED
    BY <2>1, <2>2, <1>10 DEF NoneIsFresh
<1>18. TodoIsNew'
  <2>1. tick.todo # {} => tick.day \in Nat \ {0}
    BY SchedTypes DEF DatesInOrder
  <2> QED
    BY <1>7, <1>8, <2>1 DEF TodoIsNew
<1>19. MarkedIsDated'
  <2> SUFFICES ASSUME NEW u \in SchedTasks, item'[u].live, ~Overran(u, day)',
                      RunsOf(u, day) # {} \/ (u \in tick.todo /\ tick.day = day)
               PROVE  item'[u].date = day
    BY <1>7 DEF MarkedIsDated
  <2>1. item[u].live /\ ~Overran(u, day)
    BY <1>1, <1>4, <1>8
  <2>2. item[u].date = day
    BY <2>1 DEF MarkedIsDated
  <2>3. CASE u # t
    BY <2>2, <2>3, <1>4
  <2>4. CASE u = t /\ run[r].hand
    BY <2>1, <2>2, <2>4, <1>5
  <2>5. CASE u = t /\ ~run[r].hand
    <3>1. run[r].day = day
      BY <2>5, <1>1, <1>9
    <3> QED
      BY <2>1, <2>5, <3>1, <1>5
  <2> QED
    BY <2>3, <2>4, <2>5
<1>20. RunningRuns'
  <2> SUFFICES ASSUME NEW u \in SchedTasks, item'[u].live, ~Overran(u, day)', item'[u].status = "running",
                      NEW v \in RunsOf(u, day)
               PROVE  ~Done(v)'
    BY <1>7 DEF RunningRuns
  <2>1. item[u].live /\ ~Overran(u, day)
    BY <1>1, <1>4, <1>8
  <2>2. u # t
    BY <2>1, <1>5
  <2>3. item[u].status = "running" /\ v # r /\ v \in SchedRuns
    BY <2>2, <1>4, <1>12 DEF RunsOf
  <2> QED
    BY <2>1, <2>3, <1>10 DEF RunningRuns
<1>21. NoTwoRuns'
  BY <1>7, <1>8 DEF NoTwoRuns
<1>22. ReportIsOwn'
  <2> SUFFICES ASSUME NEW u \in SchedTasks \ touched', item'[u].report # NoSchedRun
               PROVE  LET v == item'[u].report IN ~run'[v].hand /\ run'[v].task = u /\ run'[v].pc = "over"
    BY DEF ReportIsOwn
  <2>1. CASE item'[u].report = item[u].report
    <3>1. item[u].report \in SchedRuns
      BY <2>1, SchedTypes DEF Row
    <3>2. LET v == item[u].report IN ~run[v].hand /\ run[v].task = u /\ run[v].pc = "over"
      BY <2>1, <1>6 DEF ReportIsOwn
    <3>3. item[u].report # r
      BY <3>2
    <3> QED
      BY <2>1, <3>1, <3>2, <3>3, <1>3
  <2>2. CASE item'[u].report # item[u].report
    <3>1. u = t /\ item[u].live
      BY <2>2, <1>4
    <3>2. good /\ item'[u].report = r
      BY <2>2, <3>1, <1>5
    <3>3. ~run[r].hand
      BY <3>1, <1>6
    <3> QED
      BY <3>1, <3>2, <3>3, <1>2
  <2> QED
    BY <2>1, <2>2
<1>23. DatedIsRunning'
  <2> SUFFICES ASSUME NEW u \in SchedTasks \ touched', item'[u].live, item'[u].date = day, ~Overran(u, day)'
               PROVE  item'[u].status = "running" \/ \E v \in RunsOf(u, day) : Done(v)'
    BY <1>7 DEF DatedIsRunning
  <2>1. item[u].live /\ ~Overran(u, day) /\ u \notin touched
    BY <1>1, <1>4, <1>6, <1>8
  <2>2. CASE u # t
    <3>1. item'[u] = item[u]
      BY <2>2, <1>4
    <3>2. item[u].status = "running" \/ \E v \in RunsOf(u, day) : Done(v)
      BY <2>1, <3>1 DEF DatedIsRunning
    <3>3. RunsOf(u, day) \subseteq SchedRuns
      BY DEF RunsOf
    <3> QED
      BY <3>1, <3>2, <3>3, <1>10
  <2>3. CASE u = t
    <3>1. ~run[r].hand
      BY <2>3, <1>6
    <3>2. run[r].day = day
      BY <2>1, <2>3, <3>1, <1>5
    <3> QED
      BY <2>3, <3>1, <3>2, <1>10, <1>11
  <2> QED
    BY <2>2, <2>3
<1>24. FailingIsOff'
  <2> SUFFICES ASSUME NEW u \in SchedTasks, item'[u].fails >= FailLimit
               PROVE  ~item'[u].active
    BY DEF FailingIsOff
  <2>1. CASE u = t /\ item[u].live
    BY <2>1, <1>5
  <2>2. CASE ~(u = t /\ item[u].live)
    <3>1. item'[u] = item[u]
      BY <2>2, <1>4
    <3> QED
      BY <3>1 DEF FailingIsOff
  <2> QED
    BY <2>1, <2>2
<1>25. SuccessHasReport'
  <2> SUFFICES ASSUME NEW u \in SchedTasks, item'[u].live, item'[u].status = "success"
               PROVE  item'[u].report # NoSchedRun /\ run'[item'[u].report].report = "completed"
    BY DEF SuccessHasReport
  <2>0. item[u].live
    BY <1>4
  <2>1. CASE u = t
    <3>1. good /\ item'[u].report = r
      BY <2>0, <2>1, <1>5
    <3> QED
      BY <3>1, <1>2, SchedAssumption
  <2>2. CASE u # t
    <3>1. item'[u] = item[u]
      BY <2>2, <1>4
    <3>2. item[u].report # NoSchedRun /\ run[item[u].report].report = "completed"
      BY <2>0, <3>1 DEF SuccessHasReport
    <3>3. item[u].report \in SchedRuns
      BY <3>2, SchedTypes DEF Row
    <3>4. item[u].report # r
      BY <3>2, <3>3 DEF JobsInOrder
    <3> QED
      BY <3>1, <3>2, <3>3, <3>4, <1>3
  <2> QED
    BY <2>1, <2>2
<1>26. NoDayLost'
  <2> SUFFICES ASSUME NEW u \in SchedTasks, item'[u].live, item'[u].date = day, u \notin touched', ~Overran(u, day)'
               PROVE  \/ RunsOf(u, day) # {} \/ u \in tick.todo
                      \/ ~schedUp /\ item'[u].status = "running"
    BY <1>7 DEF NoDayLost
  <2>1. item[u].live /\ ~Overran(u, day) /\ u \notin touched
    BY <1>1, <1>4, <1>6, <1>8
  <2>2. CASE u # t
    <3>1. item'[u] = item[u]
      BY <2>2, <1>4
    <3> QED
      BY <2>1, <3>1 DEF NoDayLost
  <2>3. CASE u = t
    <3>1. ~run[r].hand
      BY <2>3, <1>6
    <3>2. run[r].day = day
      BY <2>1, <2>3, <3>1, <1>5
    <3> QED
      BY <2>3, <3>1, <3>2, <1>11
  <2> QED
    BY <2>2, <2>3
<1> QED
  BY <1>13, <1>14, <1>15, <1>16, <1>17, <1>18, <1>19, <1>20, <1>21, <1>22, <1>23, <1>24, <1>25, <1>26

\* Time passes.
LEMMA PassTimeKeeps ==
    ASSUME SchedInv, PassTime
    PROVE  SchedInv'
<1> USE DEF SchedInv
<1>1. /\ UNCHANGED <<item, tick, run, schedUp, touched>>
      /\ day' = IF part = "evening" THEN day + 1 ELSE day
      /\ part' \in Parts
  BY DEF PassTime, Parts
<1>2. day \in Nat \ {0} /\ day' \in Nat \ {0} /\ day <= day' /\ (day' = day \/ day' = day + 1)
  BY <1>1, SchedTypes
<1>3. \A u, d : RunsOf(u, d)' = RunsOf(u, d) /\ (Overran(u, d)' <=> Overran(u, d))
  <2> SUFFICES ASSUME NEW u, NEW d
               PROVE  RunsOf(u, d)' = RunsOf(u, d) /\ (Overran(u, d)' <=> Overran(u, d))
    OBVIOUS
  <2> QED
    BY <1>1 DEF RunsOf, Overran
<1>4. \A r : (Launched(r)' <=> Launched(r)) /\ (Done(r)' <=> Done(r))
  BY <1>1 DEF Launched, Done
<1>5. /\ \A r \in SchedRuns : run[r].day \in Nat /\ run[r].made \in Nat /\ run[r].ended \in Nat
      /\ \A t \in SchedTasks : item[t].date \in Nat
      /\ tick.day \in Nat
  BY SchedTypes
<1>6. SchedTyped'
  BY <1>1, <1>2 DEF SchedTyped
<1>7. JobsInOrder'
  BY <1>1, <1>2, <1>4, <1>5 DEF JobsInOrder
<1>8. DatesInOrder'
  BY <1>1, <1>2, <1>4, <1>5 DEF DatesInOrder
<1>9. NothingRunsDown' /\ NoneIsFresh'
  BY <1>1, <1>4 DEF NothingRunsDown, NoneIsFresh
<1>10. TodoIsNew' /\ NoTwoRuns'
  BY <1>1, <1>3 DEF TodoIsNew, NoTwoRuns
<1>11. ReportIsOwn' /\ FailingIsOff' /\ SuccessHasReport'
  BY <1>1 DEF ReportIsOwn, FailingIsOff, SuccessHasReport
<1>12. CASE day' = day
  <2>1. MarkedIsDated' /\ RunningRuns' /\ DatedIsRunning' /\ NoDayLost'
    BY <1>1, <1>3, <1>4, <1>12 DEF MarkedIsDated, RunningRuns, DatedIsRunning, NoDayLost
  <2> QED
    BY <2>1, <1>6, <1>7, <1>8, <1>9, <1>10, <1>11
<1>13. CASE day' = day + 1
  <2>1. \A u \in SchedTasks : RunsOf(u, day') = {}
    <3> SUFFICES ASSUME NEW u \in SchedTasks, NEW r \in RunsOf(u, day')
                 PROVE  FALSE
      OBVIOUS
    <3>1. r \in SchedRuns /\ run[r].day = day'
      BY DEF RunsOf
    <3> QED
      BY <3>1, <1>2, <1>5, <1>13 DEF JobsInOrder
  <2>2. \A t \in SchedTasks : item[t].date # day'
    BY <1>2, <1>5, <1>13 DEF DatesInOrder
  <2>3. \A t \in SchedTasks : t \in tick.todo => tick.day # day'
    BY <1>2, <1>5, <1>13 DEF DatesInOrder
  <2>4. \A u \in SchedTasks : RunsOf(u, day)' = {}
    BY <2>1, <1>1, <1>3
  <2>5. MarkedIsDated'
    BY <1>1, <2>3, <2>4 DEF MarkedIsDated
  <2>6. RunningRuns'
    BY <2>4 DEF RunningRuns
  <2>7. DatedIsRunning' /\ NoDayLost'
    BY <1>1, <2>2 DEF DatedIsRunning, NoDayLost
  <2> QED
    BY <2>5, <2>6, <2>7, <1>6, <1>7, <1>8, <1>9, <1>10, <1>11
<1> QED
  BY <1>2, <1>12, <1>13

\* The scheduler crashes: what it was launching is forgotten, what it ran is lost.
LEMMA SchedCrashKeeps ==
    ASSUME SchedInv, SchedCrash
    PROVE  SchedInv'
<1> USE DEF SchedInv
<1>1. /\ run' = Lost(FALSE) /\ tick' = [todo |-> {}, day |-> 0] /\ schedUp' = FALSE
      /\ UNCHANGED <<item, day, part, touched>>
  BY DEF SchedCrash
<1>2. run' = [u \in SchedRuns |-> run'[u]]
  BY <1>1 DEF Lost
<1>3. \A u \in SchedRuns :
           /\ run'[u] \in Jobs
           /\ run'[u].task = run[u].task /\ run'[u].day = run[u].day
           /\ run'[u].hand = run[u].hand /\ run'[u].report = run[u].report
           /\ run'[u].made = run[u].made /\ run'[u].ended = run[u].ended
           /\ run[u].hand => run'[u] = run[u]
           /\ ~run[u].hand => run'[u].pc = IF run[u].pc \in {"queued", "running"} THEN "lost"
                                           ELSE IF run[u].pc = "left" THEN "over" ELSE run[u].pc
  <2> SUFFICES ASSUME NEW u \in SchedRuns
               PROVE  /\ run'[u] \in Jobs
                      /\ run'[u].task = run[u].task /\ run'[u].day = run[u].day
                      /\ run'[u].hand = run[u].hand /\ run'[u].report = run[u].report
                      /\ run'[u].made = run[u].made /\ run'[u].ended = run[u].ended
                      /\ run[u].hand => run'[u] = run[u]
                      /\ ~run[u].hand => run'[u].pc = IF run[u].pc \in {"queued", "running"} THEN "lost"
                                                      ELSE IF run[u].pc = "left" THEN "over" ELSE run[u].pc
    OBVIOUS
  <2>1. run[u].hand \in BOOLEAN
    BY SchedTypes DEF Jobs
  <2>2. CASE run[u].hand = TRUE
    BY <1>1, <2>2, LostJob
  <2>3. CASE run[u].hand = FALSE
    BY <1>1, <2>3, LostJob
  <2> QED
    BY <2>1, <2>2, <2>3
<1>4. /\ tick'.todo = {} /\ tick'.day = 0 /\ tick' \in [todo : SUBSET SchedTasks, day : Nat]
      /\ day \in Nat \ {0}
  BY <1>1, SchedTypes
<1>5. \A u, d : RunsOf(u, d)' \subseteq RunsOf(u, d) /\ (Overran(u, d)' <=> Overran(u, d))
  <2> SUFFICES ASSUME NEW u, NEW d
               PROVE  RunsOf(u, d)' \subseteq RunsOf(u, d) /\ (Overran(u, d)' <=> Overran(u, d))
    OBVIOUS
  <2>1. RunsOf(u, d)' \subseteq RunsOf(u, d)
    BY <1>3 DEF RunsOf
  <2>2. Overran(u, d)' <=> Overran(u, d)
    BY <1>3 DEF Overran
  <2> QED
    BY <2>1, <2>2
<1>6. \A u, d : \A r \in RunsOf(u, d) : Done(r) => r \in RunsOf(u, d)' /\ Done(r)'
  <2> SUFFICES ASSUME NEW u, NEW d, NEW r \in RunsOf(u, d), Done(r)
               PROVE  r \in RunsOf(u, d)' /\ Done(r)'
    OBVIOUS
  <2>1. r \in SchedRuns /\ run[r].pc \in {"left", "over"} /\ ~run[r].hand /\ run[r].task = u /\ run[r].day = d
    BY DEF RunsOf, Done
  <2> QED
    BY <2>1, <1>3 DEF RunsOf, Done
<1>7. \A r \in SchedRuns : (Launched(r)' => Launched(r)) /\ (Done(r)' => Done(r))
  BY <1>3 DEF Launched, Done
<1>8. SchedTyped'
  BY <1>1, <1>2, <1>3, <1>4 DEF SchedTyped
<1>9. JobsInOrder'
  <2>1. day' = day /\ day \in Nat /\ JobsInOrder
    BY <1>1, <1>4
  <2> HIDE DEF SchedInv
  <2> SUFFICES ASSUME NEW r \in SchedRuns
               PROVE  /\ run'[r].day <= day' /\ run'[r].made <= day' /\ run'[r].ended <= day'
                      /\ run'[r].pc = "unused" => run'[r].report = "none" /\ run'[r].ended = 0
                      /\ run'[r].report = "completed" => run'[r].pc = "over"
                      /\ Done(r)' => run'[r].made <= run'[r].ended
    BY DEF JobsInOrder
  <2>2. /\ run'[r].day = run[r].day /\ run'[r].made = run[r].made /\ run'[r].ended = run[r].ended
        /\ run'[r].report = run[r].report
        /\ run'[r].pc = "unused" => run[r].pc = "unused"
        /\ run[r].pc = "over" => run'[r].pc = "over"
        /\ Done(r)' => Done(r)
    BY <1>3, <1>7
  <2>3. /\ run[r].day <= day /\ run[r].made <= day /\ run[r].ended <= day
        /\ run[r].pc = "unused" => run[r].report = "none" /\ run[r].ended = 0
        /\ run[r].report = "completed" => run[r].pc = "over"
        /\ Done(r) => run[r].made <= run[r].ended
    BY <2>1 DEF JobsInOrder
  <2> QED
    BY <2>1, <2>2, <2>3
<1>10. DatesInOrder' /\ TodoIsNew'
  BY <1>1, <1>4 DEF DatesInOrder, TodoIsNew
<1>11. NothingRunsDown'
  <2>1. \A r \in SchedRuns : ~run'[r].hand => run'[r].pc \in {"unused", "over", "lost"}
    <3> SUFFICES ASSUME NEW r \in SchedRuns, ~run'[r].hand
                 PROVE  run'[r].pc \in {"unused", "over", "lost"}
      OBVIOUS
    <3>1. run[r].pc \in {"unused", "queued", "running", "left", "over", "lost"}
      BY SchedTypes DEF Jobs
    <3> QED
      BY <3>1, <1>3
  <2> QED
    BY <2>1, <1>4 DEF NothingRunsDown
<1>12. NoneIsFresh'
  <2>1. item' = item /\ tick'.todo = {}
    BY <1>1, <1>4
  <2>2. \A r \in SchedRuns : run'[r].task = run[r].task
    BY <1>3
  <2> QED
    BY <2>1, <2>2, <1>7 DEF NoneIsFresh
<1>13. MarkedIsDated'
  BY <1>1, <1>4, <1>5 DEF MarkedIsDated
<1>14. RunningRuns'
  <2> SUFFICES ASSUME NEW t \in SchedTasks, item[t].live, ~Overran(t, day), item[t].status = "running",
                      NEW r \in RunsOf(t, day)'
               PROVE  ~Done(r)'
    BY <1>1, <1>5 DEF RunningRuns
  <2>1. r \in RunsOf(t, day)
    BY <1>1, <1>5
  <2>2. r \in SchedRuns
    BY <2>1 DEF RunsOf
  <2> QED
    BY <2>1, <2>2, <1>7 DEF RunningRuns
<1>15. NoTwoRuns'
  BY <1>5 DEF NoTwoRuns
<1>16. ReportIsOwn'
  <2> SUFFICES ASSUME NEW t \in SchedTasks \ touched, item[t].report # NoSchedRun
               PROVE  LET r == item[t].report IN ~run'[r].hand /\ run'[r].task = t /\ run'[r].pc = "over"
    BY <1>1 DEF ReportIsOwn
  <2>1. item[t].report \in SchedRuns
    BY SchedTypes DEF Row
  <2> QED
    BY <2>1, <1>3 DEF ReportIsOwn
<1>17. DatedIsRunning'
  <2> SUFFICES ASSUME NEW t \in SchedTasks \ touched, item[t].live, item[t].date = day, ~Overran(t, day)
               PROVE  item[t].status = "running" \/ \E r \in RunsOf(t, day)' : Done(r)'
    BY <1>1, <1>5 DEF DatedIsRunning
  <2>1. item[t].status = "running" \/ \E r \in RunsOf(t, day) : Done(r)
    BY DEF DatedIsRunning
  <2>2. \A r \in RunsOf(t, day) : Done(r) => r \in RunsOf(t, day)' /\ Done(r)'
    BY <1>1, <1>6
  <2> QED
    BY <2>1, <2>2
<1>18. FailingIsOff'
  BY <1>1 DEF FailingIsOff
<1>19. SuccessHasReport'
  <2> SUFFICES ASSUME NEW t \in SchedTasks, item[t].live, item[t].status = "success"
               PROVE  item[t].report # NoSchedRun /\ run'[item[t].report].report = "completed"
    BY <1>1 DEF SuccessHasReport
  <2>1. item[t].report # NoSchedRun /\ run[item[t].report].report = "completed"
    BY DEF SuccessHasReport
  <2>2. item[t].report \in SchedRuns
    BY <2>1, SchedTypes DEF Row
  <2> QED
    BY <2>1, <2>2, <1>3
<1>20. NoDayLost'
  <2> SUFFICES ASSUME NEW t \in SchedTasks, item[t].live, item[t].date = day, t \notin touched, ~Overran(t, day)
               PROVE  RunsOf(t, day)' # {} \/ item[t].status = "running"
    BY <1>1, <1>5 DEF NoDayLost
  <2>1. item[t].status = "running" \/ \E r \in RunsOf(t, day) : Done(r)
    BY DEF DatedIsRunning
  <2>2. \A r \in RunsOf(t, day) : Done(r) => r \in RunsOf(t, day)'
    BY <1>1, <1>6
  <2> QED
    BY <2>1, <2>2
<1> QED
  BY <1>8, <1>9, <1>10, <1>11, <1>12, <1>13, <1>14, <1>15, <1>16, <1>17, <1>18, <1>19, <1>20

\* The scheduler starts again, and recovers the rows whose runs were cut off.
LEMMA SchedStartKeeps ==
    ASSUME SchedInv, SchedStart
    PROVE  SchedInv'
<1> USE DEF SchedInv
<1>1. /\ ~schedUp /\ schedUp' = TRUE
      /\ item' = [t \in SchedTasks |-> IF item[t].live /\ item[t].status = "running"
                                       THEN Recovered(item[t]) ELSE item[t]]
      /\ run' = [r \in SchedRuns |-> IF run[r].report = "running"
                                     THEN [run[r] EXCEPT !.report = "failed"] ELSE run[r]]
      /\ UNCHANGED <<day, part, tick, touched>>
  BY DEF SchedStart
<1>2. \A u \in SchedRuns :
           /\ run'[u] \in Jobs
           /\ run'[u].task = run[u].task /\ run'[u].day = run[u].day
           /\ run'[u].hand = run[u].hand /\ run'[u].pc = run[u].pc
           /\ run'[u].made = run[u].made /\ run'[u].ended = run[u].ended
           /\ run'[u].report = IF run[u].report = "running" THEN "failed" ELSE run[u].report
  <2> SUFFICES ASSUME NEW u \in SchedRuns
               PROVE  /\ run'[u] \in Jobs
                      /\ run'[u].task = run[u].task /\ run'[u].day = run[u].day
                      /\ run'[u].hand = run[u].hand /\ run'[u].pc = run[u].pc
                      /\ run'[u].made = run[u].made /\ run'[u].ended = run[u].ended
                      /\ run'[u].report = IF run[u].report = "running" THEN "failed" ELSE run[u].report
    OBVIOUS
  <2>0. run[u] \in Jobs
    BY SchedTypes
  <2>1. CASE run[u].report = "running"
    <3>1. run'[u] = [run[u] EXCEPT !.report = "failed"]
      BY <1>1, <2>1
    <3> QED
      BY <2>0, <2>1, <3>1 DEF Jobs
  <2>2. CASE run[u].report # "running"
    BY <1>1, <2>0, <2>2
  <2> QED
    BY <2>1, <2>2
<1>3. \A t \in SchedTasks :
         /\ item'[t] \in Row
         /\ item'[t].live = item[t].live /\ item'[t].report = item[t].report
         /\ item'[t].fails = item[t].fails /\ item'[t].active = item[t].active
         /\ ~(item[t].live /\ item[t].status = "running") => item'[t] = item[t]
         /\ (item[t].live /\ item[t].status = "running") =>
               \/ HasReport(item[t]) /\ item'[t].status = "success" /\ item'[t].date = item[t].date
               \/ item'[t].status = "stale" /\ item'[t].date = 0
  <2> SUFFICES ASSUME NEW t \in SchedTasks
               PROVE  /\ item'[t] \in Row
                      /\ item'[t].live = item[t].live /\ item'[t].report = item[t].report
                      /\ item'[t].fails = item[t].fails /\ item'[t].active = item[t].active
                      /\ ~(item[t].live /\ item[t].status = "running") => item'[t] = item[t]
                      /\ (item[t].live /\ item[t].status = "running") =>
                            \/ HasReport(item[t]) /\ item'[t].status = "success" /\ item'[t].date = item[t].date
                            \/ item'[t].status = "stale" /\ item'[t].date = 0
    OBVIOUS
  <2>0. item[t] \in Row
    BY SchedTypes
  <2>1. CASE ~(item[t].live /\ item[t].status = "running")
    BY <1>1, <2>0, <2>1
  <2>2. CASE item[t].live /\ item[t].status = "running" /\ HasReport(item[t])
    <3>1. item'[t] = [item[t] EXCEPT !.status = "success"]
      BY <1>1, <2>2 DEF Recovered
    <3> HIDE DEF HasReport
    <3> QED
      BY <2>0, <2>2, <3>1 DEF Row
  <2>3. CASE item[t].live /\ item[t].status = "running" /\ ~HasReport(item[t])
    <3>1. item'[t] = [item[t] EXCEPT !.status = "stale", !.date = 0]
      BY <1>1, <2>3 DEF Recovered
    <3>2. item'[t] \in Row
      <4> DEFINE row == item[t]
      <4>1. row \in Row
        BY <2>0
      <4> HIDE DEF row
      <4>2. [row EXCEPT !.status = "stale", !.date = 0] \in Row
        BY <4>1 DEF Row
      <4> QED
        BY <3>1, <4>2 DEF row
    <3>3. /\ item'[t].live = item[t].live /\ item'[t].report = item[t].report
          /\ item'[t].fails = item[t].fails /\ item'[t].active = item[t].active
          /\ item'[t].status = "stale" /\ item'[t].date = 0
      BY <2>0, <3>1 DEF Row
    <3> QED
      BY <2>3, <3>2, <3>3
  <2> QED
    BY <2>1, <2>2, <2>3
<1>4. \A u, d : RunsOf(u, d)' = RunsOf(u, d) /\ (Overran(u, d)' <=> Overran(u, d))
  <2> SUFFICES ASSUME NEW u, NEW d
               PROVE  RunsOf(u, d)' = RunsOf(u, d) /\ (Overran(u, d)' <=> Overran(u, d))
    OBVIOUS
  <2>1. RunsOf(u, d)' = RunsOf(u, d)
    BY <1>2 DEF RunsOf
  <2>2. Overran(u, d)' <=> Overran(u, d)
    BY <1>2 DEF Overran
  <2> QED
    BY <2>1, <2>2
<1>5. \A r \in SchedRuns : (Launched(r)' <=> Launched(r)) /\ (Done(r)' <=> Done(r))
  BY <1>2 DEF Launched, Done
<1>6. day \in Nat \ {0} /\ tick.todo = {} /\ \A u, d : RunsOf(u, d) \subseteq SchedRuns
  BY <1>1, SchedTypes DEF NothingRunsDown, RunsOf
<1>7. \A u, d : \A r \in RunsOf(u, d) : Done(r)
  BY <1>1 DEF NothingRunsDown, RunsOf, Done
<1>8. \A t \in SchedTasks \ touched :
         (item[t].date = day /\ ~Overran(t, day) /\ HasReport(item[t]))
            => \E r \in RunsOf(t, day) : Done(r)
  <2> SUFFICES ASSUME NEW t \in SchedTasks \ touched, item[t].date = day, ~Overran(t, day), HasReport(item[t])
               PROVE  \E r \in RunsOf(t, day) : Done(r)
    OBVIOUS
  <2>1. PICK r \in SchedRuns : r = item[t].report
    BY SchedTypes DEF HasReport, Row
  <2>2. ~run[r].hand /\ run[r].task = t /\ run[r].pc = "over"
    BY <2>1, SchedAssumption DEF ReportIsOwn
  <2>3. run[r].made >= day
    BY <2>1 DEF HasReport
  <2>4. run[r].made <= run[r].ended /\ run[r].day <= day
    BY <2>2 DEF JobsInOrder, Done
  <2>5. run[r].made \in Nat /\ run[r].ended \in Nat /\ run[r].day \in Nat
    BY SchedTypes
  <2>6. ~(run[r].day < day)
    BY <2>2, <2>3, <2>4, <2>5, <1>6 DEF Overran
  <2>7. run[r].day = day
    BY <2>4, <2>5, <2>6, <1>6
  <2> QED
    BY <2>2, <2>7 DEF RunsOf, Done
<1>9. SchedTyped'
  BY <1>1, <1>2, <1>3 DEF SchedTyped
<1>10. JobsInOrder'
  BY <1>1, <1>2, <1>5 DEF JobsInOrder
<1>11. DatesInOrder'
  BY <1>1, <1>3, <1>6 DEF DatesInOrder
<1>12. NothingRunsDown'
  BY <1>1 DEF NothingRunsDown
<1>13. NoneIsFresh'
  <2>1. \A t \in SchedTasks : item'[t].status = "none" => item[t].status = "none"
    BY <1>3
  <2> QED
    BY <2>1, <1>1, <1>2, <1>5 DEF NoneIsFresh
<1>14. TodoIsNew' /\ NoTwoRuns'
  BY <1>1, <1>4 DEF TodoIsNew, NoTwoRuns
<1>15. MarkedIsDated'
  <2> SUFFICES ASSUME NEW t \in SchedTasks, item'[t].live, ~Overran(t, day), RunsOf(t, day) # {}
               PROVE  item'[t].date = day
    BY <1>1, <1>4, <1>6 DEF MarkedIsDated
  <2>1. item[t].live /\ item[t].date = day
    BY <1>3 DEF MarkedIsDated
  <2>2. item[t].status # "running"
    BY <2>1, <1>7 DEF RunningRuns
  <2> QED
    BY <2>1, <2>2, <1>3
<1>16. RunningRuns'
  <2>1. \A t \in SchedTasks : item'[t].live => item'[t].status # "running"
    BY <1>3
  <2> QED
    BY <2>1 DEF RunningRuns
<1>17. ReportIsOwn'
  <2> SUFFICES ASSUME NEW t \in SchedTasks \ touched, item'[t].report # NoSchedRun
               PROVE  LET r == item'[t].report IN ~run'[r].hand /\ run'[r].task = t /\ run'[r].pc = "over"
    BY <1>1 DEF ReportIsOwn
  <2>0. item'[t].report = item[t].report
    BY <1>3
  <2>1. item[t].report \in SchedRuns
    BY <2>0, SchedTypes DEF Row
  <2> QED
    BY <2>0, <2>1, <1>2 DEF ReportIsOwn
<1>18. \A t \in SchedTasks \ touched :
         (item'[t].live /\ item'[t].date = day /\ ~Overran(t, day)) => \E r \in RunsOf(t, day) : Done(r)
  <2> SUFFICES ASSUME NEW t \in SchedTasks \ touched, item'[t].live, item'[t].date = day, ~Overran(t, day)
               PROVE  \E r \in RunsOf(t, day) : Done(r)
    OBVIOUS
  <2>1. CASE item[t].status = "running"
    <3>1. HasReport(item[t]) /\ item[t].date = day
      BY <2>1, <1>3, <1>6
    <3> QED
      BY <3>1, <1>8
  <2>2. CASE item[t].status # "running"
    <3>1. item'[t] = item[t]
      BY <2>2, <1>3
    <3> QED
      BY <2>2, <3>1 DEF DatedIsRunning
  <2> QED
    BY <2>1, <2>2
<1>19. DatedIsRunning'
  <2> SUFFICES ASSUME NEW t \in SchedTasks \ touched, item'[t].live, item'[t].date = day, ~Overran(t, day)
               PROVE  \E r \in RunsOf(t, day)' : Done(r)'
    BY <1>1, <1>4 DEF DatedIsRunning
  <2>1. PICK r \in RunsOf(t, day) : Done(r)
    BY <1>18
  <2>2. r \in RunsOf(t, day)' /\ Done(r)'
    BY <2>1, <1>1, <1>4, <1>5, <1>6
  <2> QED
    BY <2>2
<1>20. FailingIsOff'
  BY <1>3 DEF FailingIsOff
<1>21. SuccessHasReport'
  <2> SUFFICES ASSUME NEW t \in SchedTasks, item'[t].live, item'[t].status = "success"
               PROVE  item'[t].report # NoSchedRun /\ run'[item'[t].report].report = "completed"
    BY DEF SuccessHasReport
  <2>1. item[t].report # NoSchedRun /\ run[item[t].report].report = "completed"
    BY <1>3 DEF SuccessHasReport, HasReport
  <2>2. item[t].report \in SchedRuns
    BY <2>1, SchedTypes DEF Row
  <2> QED
    BY <2>1, <2>2, <1>2, <1>3
<1>22. NoDayLost'
  <2> SUFFICES ASSUME NEW t \in SchedTasks, item'[t].live, item'[t].date = day, t \notin touched, ~Overran(t, day)
               PROVE  RunsOf(t, day) # {}
    BY <1>1, <1>4 DEF NoDayLost
  <2> QED
    BY <1>18
<1> QED
  BY <1>9, <1>10, <1>11, <1>12, <1>13, <1>14, <1>15, <1>16, <1>17, <1>19, <1>20, <1>21, <1>22

\* The schedule begins without runs.
LEMMA SchedBegins == SchedInit => SchedInv
<1> SUFFICES ASSUME SchedInit PROVE SchedInv
  OBVIOUS
<1>1. /\ item \in [SchedTasks -> {[NewRow("evening") EXCEPT !.live = FALSE], NewRow("evening"), NewRow("night")}]
      /\ SchedTasks # {}
      /\ day = 1 /\ part = "night" /\ tick = [todo |-> {}, day |-> 0]
      /\ run = [r \in SchedRuns |-> Unused]
      /\ schedUp = TRUE /\ touched = {}
  BY DEF SchedInit
<1>2. /\ Unused \in Jobs /\ Unused.pc = "unused" /\ Unused.day = 0 /\ Unused.made = 0 /\ Unused.ended = 0
      /\ Unused.report = "none"
  <2>1. (CHOOSE t \in SchedTasks : TRUE) \in SchedTasks
    BY <1>1
  <2> QED
    BY <2>1 DEF Unused, Jobs
<1>3. \A t \in SchedTasks : /\ item[t] \in Row /\ item[t].date = 0 /\ item[t].status = "none" /\ item[t].fails = 0
                            /\ item[t].report = NoSchedRun
  <2> SUFFICES ASSUME NEW row \in {[NewRow("evening") EXCEPT !.live = FALSE], NewRow("evening"), NewRow("night")}
               PROVE  /\ row \in Row /\ row.date = 0 /\ row.status = "none" /\ row.fails = 0
                      /\ row.report = NoSchedRun
    BY <1>1
  <2>1. row \in Row
    BY NewRowTyped
  <2>2. row.date = 0 /\ row.status = "none" /\ row.fails = 0 /\ row.report = NoSchedRun
    BY DEF NewRow
  <2> QED
    BY <2>1, <2>2
<1>4. item = [t \in SchedTasks |-> item[t]] /\ tick.todo = {} /\ tick.day = 0
  BY <1>1
<1>5. /\ \A r \in SchedRuns : run[r] = Unused /\ ~Launched(r) /\ ~Done(r)
      /\ \A t, d : RunsOf(t, d) = {}
  BY <1>1, <1>2 DEF Launched, Done, RunsOf
<1>6. SchedTyped
  BY <1>1, <1>2, <1>3, <1>4 DEF SchedTyped, Parts
<1>7. JobsInOrder
  BY <1>1, <1>2, <1>5 DEF JobsInOrder
<1>8. DatesInOrder /\ NothingRunsDown /\ NoneIsFresh /\ TodoIsNew
  BY <1>1, <1>3, <1>4, <1>5 DEF DatesInOrder, NothingRunsDown, NoneIsFresh, TodoIsNew
<1>9. MarkedIsDated /\ RunningRuns /\ NoTwoRuns
  BY <1>3, <1>4, <1>5 DEF MarkedIsDated, RunningRuns, NoTwoRuns
<1>10. ReportIsOwn /\ DatedIsRunning /\ SuccessHasReport /\ NoDayLost
  BY <1>1, <1>3 DEF ReportIsOwn, DatedIsRunning, SuccessHasReport, NoDayLost
<1>11. FailingIsOff
  BY <1>3, SchedAssumption DEF FailingIsOff
<1> QED
  BY <1>6, <1>7, <1>8, <1>9, <1>10, <1>11 DEF SchedInv

\* Every step keeps the schedule in order.
LEMMA SchedStep == SchedInv /\ [SchedNext]_schedVars => SchedInv'
<1> SUFFICES ASSUME SchedInv, [SchedNext]_schedVars PROVE SchedInv'
  OBVIOUS
<1>1. ASSUME NEW t \in SchedTasks, NEW trigger \in {"night", "evening"}, Create(t, trigger) PROVE SchedInv'
  BY <1>1, CreateKeeps
<1>2. ASSUME NEW S \in SUBSET SchedTasks, Update(S) PROVE SchedInv'
  BY <1>2, UpdateKeeps
<1>3. ASSUME NEW S \in SUBSET SchedTasks, Delete(S) PROVE SchedInv'
  BY <1>3, DeleteKeeps
<1>4. CASE MarkDue
  BY <1>4, MarkDueKeeps
<1>5. ASSUME NEW t \in SchedTasks, NEW r \in SchedRuns, LaunchOne(t, r) PROVE SchedInv'
  BY <1>5, LaunchKeeps
<1>6. ASSUME NEW r \in SchedRuns, TakeSlot(r) PROVE SchedInv'
  BY <1>6, TakeSlotKeeps
<1>7. ASSUME NEW r \in SchedRuns, NEW good \in BOOLEAN, EndRun(r, good) PROVE SchedInv'
  <2>0. run = [u \in SchedRuns |-> run[u]]
    BY DEF SchedInv, SchedTyped
  <2>1. CASE good = TRUE
    <3>1. /\ run[r].pc = "running"
          /\ run' = [run EXCEPT ![r] = [run[r] EXCEPT !.pc = "over", !.ended = day, !.report = "completed"]]
          /\ item' = Written(r, TRUE) /\ Touch(r) /\ UNCHANGED <<day, part, tick, schedUp>>
      BY <1>7, <2>0, <2>1 DEF EndRun
    <3> QED
      BY <3>1, RunEndKeeps
  <2>2. CASE good = FALSE
    <3>1. /\ run[r].pc = "running"
          /\ run' = [run EXCEPT ![r] = [run[r] EXCEPT !.pc = "over", !.ended = day, !.report = "failed"]]
          /\ item' = Written(r, FALSE) /\ Touch(r) /\ UNCHANGED <<day, part, tick, schedUp>>
      BY <1>7, <2>0, <2>2 DEF EndRun
    <3> QED
      BY <3>1, RunEndKeeps
  <2> QED
    BY <2>1, <2>2
<1>8. ASSUME NEW r \in SchedRuns, RunTimesOut(r) PROVE SchedInv'
  <2>0. run = [u \in SchedRuns |-> run[u]]
    BY DEF SchedInv, SchedTyped
  <2>1. /\ run[r].pc = "running"
        /\ run' = [run EXCEPT ![r] = [run[r] EXCEPT !.pc = "left", !.ended = day, !.report = "failed"]]
        /\ item' = Written(r, FALSE) /\ Touch(r) /\ UNCHANGED <<day, part, tick, schedUp>>
    BY <1>8, <2>0 DEF RunTimesOut
  <2> QED
    BY <2>1, RunEndKeeps
<1>9. ASSUME NEW r \in SchedRuns, LateEnd(r) PROVE SchedInv'
  BY <1>9, LateEndKeeps
<1>10. ASSUME NEW t \in SchedTasks, NEW r \in SchedRuns, TriggerByHand(t, r) PROVE SchedInv'
  BY <1>10, TriggerKeeps
<1>11. CASE PassTime
  BY <1>11, PassTimeKeeps
<1>12. CASE SchedCrash
  BY <1>12, SchedCrashKeeps
<1>13. CASE ApiCrash
  BY <1>13, ApiCrashKeeps
<1>14. CASE SchedStart
  BY <1>14, SchedStartKeeps
<1>15. CASE UNCHANGED schedVars
  <2>1. UNCHANGED <<item, day, part, tick, run, schedUp, spent, touched>>
    BY <1>15 DEF schedVars
  <2>2. SchedTyped' /\ FailingIsOff'
    BY <2>1 DEF SchedInv, SchedTyped, FailingIsOff
  <2> QED
    BY <2>1, <2>2, RowsEdited
<1> QED
  BY <1>1, <1>2, <1>3, <1>4, <1>5, <1>6, <1>7, <1>8, <1>9, <1>10, <1>11, <1>12, <1>13, <1>14, <1>15
     DEF SchedNext, Launching, RunStep

\* Along every behaviour the schedule is in order.
LEMMA SchedAlways == SchedSpec => []SchedInv
<1>1. SchedInit => SchedInv
  BY SchedBegins
<1>2. SchedInv /\ [SchedNext]_schedVars => SchedInv'
  BY SchedStep
<1> QED
  BY <1>1, <1>2, PTL DEF SchedSpec

\* A set whose elements are all the same has no more than one.
LEMMA AlikeAreOne ==
    ASSUME NEW S, \A x \in S, y \in S : x = y
    PROVE  ~(Cardinality(S) > 1)
<1>1. CASE S = {}
  BY <1>1, FS_EmptySet
<1>2. CASE S # {}
  <2>1. PICK x \in S : TRUE
    BY <1>2
  <2>2. S = {x}
    BY <2>1
  <2>3. Cardinality({x}) = 1
    BY FS_Singleton
  <2> QED
    BY <2>2, <2>3
<1> QED
  BY <1>1, <1>2

\* What is invariant of the scheduler gives the types.
LEMMA SchedTypesFollow == SchedInv => SchedTypeOK
<1> SUFFICES ASSUME SchedInv PROVE SchedTypeOK
  OBVIOUS
<1>1. SchedTyped
  BY DEF SchedInv
<1>2. \A r \in SchedRuns : /\ run[r].pc \in {"unused", "queued", "running", "left", "over", "lost"}
                           /\ run[r].report \in {"none", "running", "completed", "failed"}
  BY <1>1, SchedTypes DEF Jobs
<1>3. tick.todo \subseteq SchedTasks /\ tick.day \in Nat
  BY <1>1, SchedTypes
<1> QED
  BY <1>1, <1>2, <1>3 DEF SchedTyped, SchedTypeOK

\* What is invariant keeps the schedule.
LEMMA ScheduleFollows == SchedInv => ScheduleKept
<1> SUFFICES ASSUME SchedInv PROVE ScheduleKept
  OBVIOUS
<1>1. OncePerDay
  <2> SUFFICES ASSUME NEW t \in SchedTasks, NEW d \in 1 .. LastDay, ~Overran(t, d)
               PROVE  ~(Cardinality(RunsOf(t, d)) > 1)
    BY DEF OncePerDay
  <2>1. d \in Nat \ {0}
    BY SchedAssumption
  <2>2. \A r \in RunsOf(t, d), u \in RunsOf(t, d) : r = u
    BY <2>1 DEF SchedInv, NoTwoRuns
  <2> QED
    BY <2>2, AlikeAreOne
<1> QED
  BY <1>1 DEF SchedInv, ScheduleKept, RowsTellTruth, EveryDayOnce

\* Every variable of the scheduler keeps its type.
THEOREM SchedTypeCorrect == SchedSpec => []SchedTypeOK
  BY SchedTypesFollow, SchedAlways, PTL

\* The schedule is kept: of however many tasks, jobs, slots and days, and whatever the
\* users edit, run by hand and whichever process crashes when, every task is launched on
\* each day it is marked for, once, but for a run of an earlier day that ended after
\* midnight; and what the rows say of success and failure is true.
THEOREM ScheduleAlwaysKept == SchedSpec => []ScheduleKept
  BY ScheduleFollows, SchedAlways, PTL

-----------------------------------------------------------------------------
(* The counts of the administrator.                                        *)

\* What is buffered of a day.
BufferedOf(d) == buffered[2 * d] + buffered[2 * d + 1]

\* Every variable has its type, and no more requests are counted than there were.
MetricsTyped ==
    /\ MetricsTypeOK
    /\ \A h \in Halves : buffered[h] + logged[h] + left <= Requests
    /\ \A d \in AllDays : BufferedOf(d) + RowsOf(d) + left <= Requests

\* The overview goes back to the day, and the retention to all the overview goes back to.
Kept(d) == Whole(d) /\ MetricsDays <= Retention

\* While the rows of a day are kept its count is no more than its rows, and the count
\* of a settled day, of which nothing is buffered, is that of its rows.
CountsFounded ==
    /\ \A d \in AllDays : (Kept(d) /\ daily[d] # Uncounted) => daily[d] <= RowsOf(d)
    /\ \A d \in settled : d < Today /\ BufferedOf(d) = 0
    /\ \A d \in settled : Kept(d) => daily[d] = RowsOf(d)

MetricsInv == MetricsTyped /\ CountsFounded

\* No count is taken back.
CountsGrow ==
    \A d \in AllDays : Whole(d)' /\ daily[d] # Uncounted => daily'[d] \in daily[d]..Requests

\* What the overview says of days that are counted is what the rows say.
OverviewIsRows ==
    \A from \in AllDays, to \in AllDays :
        (from <= to /\ from..to \subseteq settled /\ \A d \in from..to : Whole(d))
            => Overview(from, to) = [d \in from..to |-> RowsOf(d)]

\* The two halves of a day are its own and no other day's.
LEMMA HalvesOfDays ==
    /\ \A d \in AllDays : 2 * d \in Halves /\ 2 * d + 1 \in Halves
    /\ \A h \in Halves : DayOf(h) \in AllDays /\ (h = 2 * DayOf(h) \/ h = 2 * DayOf(h) + 1)
  BY MetricsAssumption DEF AllDays, Halves, DayOf

\* The largest of the half days is the last.
LEMMA LastHalf == Max(Halves) = 2 * LogDays + 1
<1>1. \E n \in Halves : (\A m \in Halves : n >= m) /\ n = 2 * LogDays + 1
  BY MetricsAssumption DEF Halves
<1>2. Max(Halves) \in Halves /\ \A m \in Halves : Max(Halves) >= m
  BY <1>1 DEF Max
<1>3. QED
  BY <1>1, <1>2, MetricsAssumption DEF Halves

\* A later half day is of no earlier day.
LEMMA DayLater ==
    ASSUME NEW a \in Nat, NEW b \in Nat, a <= b
    PROVE  DayOf(a) \in Nat /\ DayOf(b) \in Nat /\ DayOf(a) <= DayOf(b)
<1>1. a \div 2 \in Int /\ b \div 2 \in Int
  OBVIOUS
<1>2. a \div 2 >= 0 /\ a \div 2 <= b \div 2
  OBVIOUS
<1> QED
  BY <1>1, <1>2 DEF DayOf

\* A step that changes no count and takes no row away, and buffers nothing of a day that
\* is over, keeps the counts founded.
LEMMA RowsGrow ==
    ASSUME MetricsInv, MetricsTyped', UNCHANGED <<daily, settled>>, half \in Nat, half' \in Nat, half <= half',
           \A d \in AllDays : RowsOf(d) <= RowsOf(d)',
           \A d \in settled : BufferedOf(d)' = 0 /\ RowsOf(d)' = RowsOf(d)
    PROVE  CountsFounded' /\ CountsGrow
<1>0. \A d \in AllDays : 2 * d \in Halves /\ 2 * d + 1 \in Halves /\ d \in Nat
  BY HalvesOfDays DEF AllDays
<1>1. \A d \in AllDays : /\ RowsOf(d) \in Nat /\ RowsOf(d)' \in Nat /\ daily[d] \in 0..Uncounted
                         /\ d \in Nat
  <2>1. logged \in [Halves -> Nat] /\ logged' \in [Halves -> Nat] /\ daily \in [AllDays -> 0..Uncounted]
    BY MetricsAssumption DEF MetricsInv, MetricsTyped, MetricsTypeOK, AccessLogs, DailyCounts
  <2> QED
    BY <1>0, <2>1 DEF RowsOf
<1>2. Today \in Nat /\ Today' \in Nat /\ Today <= Today'
  BY DayLater DEF Today
<1>3. \A d \in AllDays : Kept(d)' => Kept(d)
  BY <1>1, <1>2, MetricsAssumption DEF Whole, Kept
<1>4. settled \subseteq AllDays
  BY DEF MetricsInv, MetricsTyped, MetricsTypeOK
<1>5. CountsFounded'
  BY <1>1, <1>2, <1>3, <1>4 DEF MetricsInv, CountsFounded
<1>6. CountsGrow
  <2> SUFFICES ASSUME NEW d \in AllDays, Whole(d)', daily[d] # Uncounted
               PROVE  daily'[d] \in daily[d]..Requests
    BY DEF CountsGrow
  <2>1. daily'[d] = daily[d] /\ daily[d] \in 0..Requests
    BY <1>1, MetricsAssumption DEF Uncounted
  <2> QED
    BY <2>1, MetricsAssumption
<1> QED
  BY <1>5, <1>6

\* A flush writes no more than there is, and of the half days of the batch only.
LEMMA Flushed ==
    ASSUME MetricsInv, NEW batch \in [Halves -> Nat], NEW rest \in 0..Requests, left' = rest, Flush(batch),
           \A h \in Halves : batch[h] + logged[h] + rest <= Requests,
           \A d \in AllDays : batch[2 * d] + batch[2 * d + 1] + RowsOf(d) + rest <= Requests,
           \A d \in settled : batch[2 * d] + batch[2 * d + 1] = 0,
           UNCHANGED <<half, daily, settled>>, apiUp' \in BOOLEAN
    PROVE  MetricsInv' /\ CountsGrow
<1>1. /\ half \in Halves /\ half \in Nat /\ logged \in [Halves -> 0..Requests] /\ settled \subseteq AllDays
      /\ failures \in 0..MaxFailures
  BY MetricsAssumption DEF MetricsInv, MetricsTyped, MetricsTypeOK, AccessLogs, Halves
<1>2. buffered' = Nothing
  BY DEF Flush
<1>3. logged' = logged \/ logged' = [h \in Halves |-> logged[h] + batch[h]]
  BY DEF Flush
<1>4. failures' \in 0..MaxFailures
  BY <1>1, MetricsAssumption DEF Flush
<1>5. /\ logged' \in [Halves -> 0..Requests]
      /\ \A h \in Halves : logged[h] <= logged'[h] /\ logged'[h] + rest <= Requests
  <2>1. CASE logged' = logged
    BY <1>1, <2>1, MetricsAssumption
  <2>2. CASE logged' = [h \in Halves |-> logged[h] + batch[h]]
    BY <1>1, <2>2, MetricsAssumption
  <2> QED
    BY <2>1, <2>2, <1>3
<1>6. \A d \in AllDays : RowsOf(d) <= RowsOf(d)' /\ RowsOf(d)' + rest <= Requests
  <2> SUFFICES ASSUME NEW d \in AllDays
               PROVE  RowsOf(d) <= RowsOf(d)' /\ RowsOf(d)' + rest <= Requests
    OBVIOUS
  <2>0. /\ logged[2 * d] \in Nat /\ logged[2 * d + 1] \in Nat /\ batch[2 * d] \in Nat /\ batch[2 * d + 1] \in Nat
        /\ 2 * d \in Halves /\ 2 * d + 1 \in Halves
    <3>1. d \in AllDays /\ 2 * d \in Halves /\ 2 * d + 1 \in Halves
      BY HalvesOfDays, <1>1
    <3>2. logged \in [Halves -> Nat]
      BY <1>1, MetricsAssumption
    <3> QED
      BY <3>1, <3>2
  <2>1. CASE logged' = logged
    BY <2>0, <2>1, MetricsAssumption DEF RowsOf
  <2>2. CASE logged' = [h \in Halves |-> logged[h] + batch[h]]
    BY <2>0, <2>2, MetricsAssumption DEF RowsOf
  <2> QED
    BY <2>1, <2>2, <1>3
<1>7. \A d \in AllDays : BufferedOf(d)' = 0
  BY <1>2, HalvesOfDays DEF BufferedOf, Nothing
<1>8. \A d \in settled : RowsOf(d)' = RowsOf(d)
  <2> SUFFICES ASSUME NEW d \in settled
               PROVE  RowsOf(d)' = RowsOf(d)
    OBVIOUS
  <2>0. /\ logged[2 * d] \in Nat /\ logged[2 * d + 1] \in Nat /\ batch[2 * d] \in Nat /\ batch[2 * d + 1] \in Nat
        /\ 2 * d \in Halves /\ 2 * d + 1 \in Halves
    <3>1. d \in AllDays /\ 2 * d \in Halves /\ 2 * d + 1 \in Halves
      BY HalvesOfDays, <1>1
    <3>2. logged \in [Halves -> Nat]
      BY <1>1, MetricsAssumption
    <3> QED
      BY <3>1, <3>2
  <2>3. batch[2 * d] = 0 /\ batch[2 * d + 1] = 0
    BY <2>0
  <2>1. CASE logged' = logged
    BY <2>1 DEF RowsOf
  <2>2. CASE logged' = [h \in Halves |-> logged[h] + batch[h]]
    BY <2>0, <2>2, <2>3 DEF RowsOf
  <2> QED
    BY <2>1, <2>2, <1>3
<1>9. MetricsTyped'
  <2>1. Nothing \in [Halves -> 0..Requests] /\ \A h \in Halves : Nothing[h] = 0
    BY MetricsAssumption DEF Nothing
  <2>2. MetricsTypeOK'
    BY <1>1, <1>2, <1>4, <1>5, <2>1 DEF MetricsInv, MetricsTyped, MetricsTypeOK, AccessLogs
  <2>3. \A h \in Halves : buffered'[h] + logged'[h] + left' <= Requests
    BY <1>2, <1>5, <2>1, MetricsAssumption
  <2>4. \A d \in AllDays : BufferedOf(d)' + RowsOf(d)' + left' <= Requests
    <3>1. \A d \in AllDays : RowsOf(d)' \in Int
      BY <1>5, HalvesOfDays DEF RowsOf
    <3> QED
      BY <3>1, <1>6, <1>7
  <2> QED
    BY <2>2, <2>3, <2>4 DEF MetricsTyped
<1>10. CountsFounded' /\ CountsGrow
  <2>1. \A d \in settled : BufferedOf(d)' = 0 /\ RowsOf(d)' = RowsOf(d)
    BY <1>1, <1>7, <1>8
  <2>2. half' \in Nat /\ half <= half'
    BY <1>1
  <2>3. \A d \in AllDays : RowsOf(d) <= RowsOf(d)'
    BY <1>6
  <2> QED
    BY <1>1, <1>9, <2>1, <2>2, <2>3, RowsGrow
<1> QED
  BY <1>9, <1>10 DEF MetricsInv

\* A pass over the days counts some anew, from rows that say no less of the days the
\* overview goes back to.
LEMMA Rolled ==
    ASSUME MetricsInv, NEW n \in Nat, Roll(n, logged'),
           logged' \in AccessLogs, \A h \in Halves : logged'[h] <= logged[h],
           \A d \in AllDays : Kept(d) => RowsOf(d)' = RowsOf(d),
           UNCHANGED <<half, left, buffered>>, apiUp' \in BOOLEAN
    PROVE  MetricsInv' /\ (MetricsDays <= Retention => CountsGrow)
<1>1. PICK m \in 0..n :
          /\ settled' = settled \union {d \in AllDays : /\ d < Today /\ d + m > Today
                                                       /\ buffered[2 * d] + buffered[2 * d + 1] = 0}
          /\ daily' = [d \in AllDays |-> IF d <= Today /\ d + m > Today
                                         THEN logged'[2 * d] + logged'[2 * d + 1] ELSE daily[d]]
          /\ failures' = failures + (IF m < n THEN 1 ELSE 0)
          /\ failures' <= MaxFailures
  BY DEF Roll
<1>2. /\ half \in Halves /\ half \in Nat /\ Today \in Nat /\ Today' = Today /\ left \in 0..Requests
      /\ buffered \in [Halves -> 0..Requests] /\ logged \in [Halves -> 0..Requests]
      /\ logged' \in [Halves -> 0..Requests]
      /\ daily \in [AllDays -> 0..Uncounted] /\ settled \subseteq AllDays
      /\ failures \in 0..MaxFailures /\ AllDays \subseteq Nat
  <2>1. half \in Halves /\ half \in Nat /\ half' = half /\ AllDays \subseteq Nat
    BY MetricsAssumption DEF MetricsInv, MetricsTyped, MetricsTypeOK, Halves, AllDays
  <2>2. Today \in Nat /\ Today' = Today
    BY <2>1, DayLater DEF Today
  <2> QED
    BY <2>1, <2>2 DEF MetricsInv, MetricsTyped, MetricsTypeOK, AccessLogs, DailyCounts
<1>3. failures' \in 0..MaxFailures
  BY <1>1, <1>2, MetricsAssumption
<1>4. \A d \in AllDays : /\ RowsOf(d) \in Nat /\ RowsOf(d)' \in Nat /\ RowsOf(d)' <= RowsOf(d)
                         /\ BufferedOf(d) \in Nat /\ BufferedOf(d)' = BufferedOf(d)
                         /\ BufferedOf(d) + RowsOf(d) + left <= Requests
  <2> SUFFICES ASSUME NEW d \in AllDays
               PROVE  /\ RowsOf(d) \in Nat /\ RowsOf(d)' \in Nat /\ RowsOf(d)' <= RowsOf(d)
                      /\ BufferedOf(d) \in Nat /\ BufferedOf(d)' = BufferedOf(d)
                      /\ BufferedOf(d) + RowsOf(d) + left <= Requests
    OBVIOUS
  <2>1. /\ logged[2 * d] \in Nat /\ logged[2 * d + 1] \in Nat /\ logged'[2 * d] \in Nat /\ logged'[2 * d + 1] \in Nat
        /\ buffered[2 * d] \in Nat /\ buffered[2 * d + 1] \in Nat
        /\ logged'[2 * d] <= logged[2 * d] /\ logged'[2 * d + 1] <= logged[2 * d + 1]
    BY HalvesOfDays, <1>2
  <2> QED
    BY <2>1 DEF RowsOf, BufferedOf, MetricsInv, MetricsTyped
<1>5. \A d \in AllDays : daily'[d] = IF d <= Today /\ d + m > Today THEN RowsOf(d)' ELSE daily[d]
  BY <1>1 DEF RowsOf
<1>6. daily' \in [AllDays -> 0..Uncounted] /\ \A d \in AllDays : RowsOf(d)' \in 0..Requests
  <2>1. \A d \in AllDays : RowsOf(d)' \in 0..Requests
    BY <1>2, <1>4, MetricsAssumption
  <2>2. \A d \in AllDays : daily'[d] \in 0..Uncounted
    BY <1>2, <1>5, <2>1, MetricsAssumption DEF Uncounted
  <2>3. daily' = [d \in AllDays |-> daily'[d]]
    BY <1>1
  <2> QED
    BY <2>1, <2>2, <2>3
<1>7. MetricsTyped'
  <2>1. MetricsTypeOK'
    BY <1>1, <1>2, <1>3, <1>6 DEF MetricsTypeOK, AccessLogs, DailyCounts
  <2>2. \A h \in Halves : buffered'[h] + logged'[h] + left' <= Requests
    BY <1>2, MetricsAssumption DEF MetricsInv, MetricsTyped
  <2>3. \A d \in AllDays : BufferedOf(d)' + RowsOf(d)' + left' <= Requests
    BY <1>2, <1>4, MetricsAssumption
  <2> QED
    BY <2>1, <2>2, <2>3 DEF MetricsTyped
<1>8. \A d \in AllDays : (Whole(d)' <=> Whole(d)) /\ (Kept(d)' <=> Kept(d))
  BY <1>2 DEF Whole, Kept
<1>9. CountsFounded'
  <2>1. \A d \in AllDays : (Kept(d)' /\ daily'[d] # Uncounted) => daily'[d] <= RowsOf(d)'
    BY <1>4, <1>5, <1>8 DEF MetricsInv, CountsFounded, Uncounted
  <2>2. \A d \in settled' : d < Today' /\ BufferedOf(d)' = 0
    BY <1>1, <1>2, <1>4 DEF MetricsInv, CountsFounded, BufferedOf
  <2>3. ASSUME NEW d \in settled', Kept(d)' PROVE daily'[d] = RowsOf(d)'
    <3>1. d \in AllDays /\ Kept(d)
      BY <1>1, <1>2, <1>8, <2>3
    <3>2. CASE d <= Today /\ d + m > Today
      BY <3>1, <3>2, <1>5
    <3>3. CASE ~(d <= Today /\ d + m > Today)
      <4>1. d \in settled
        BY <3>3, <1>1, <3>1, <1>2
      <4> QED
        BY <4>1, <3>1, <3>3, <1>5 DEF MetricsInv, CountsFounded
    <3> QED
      BY <3>2, <3>3
  <2> QED
    BY <2>1, <2>2, <2>3 DEF CountsFounded
<1>10. MetricsDays <= Retention => CountsGrow
  <2> SUFFICES ASSUME MetricsDays <= Retention, NEW d \in AllDays, Whole(d)', daily[d] # Uncounted
               PROVE  daily'[d] \in daily[d]..Requests
    BY DEF CountsGrow
  <2>0. Kept(d)
    BY <1>8 DEF Kept
  <2>1. daily[d] \in Nat /\ daily[d] <= Requests /\ daily[d] <= RowsOf(d)
    BY <1>2, <2>0, MetricsAssumption DEF MetricsInv, CountsFounded, Uncounted
  <2>2. RowsOf(d)' = RowsOf(d)
    BY <2>0
  <2>3. daily'[d] = RowsOf(d)' \/ daily'[d] = daily[d]
    BY <1>5
  <2> QED
    BY <1>4, <1>6, <2>1, <2>2, <2>3, MetricsAssumption
<1> QED
  BY <1>7, <1>9, <1>10 DEF MetricsInv

\* Before the first request nothing is counted.
LEMMA MetricsStart == MetricsInit => MetricsInv
<1> SUFFICES ASSUME MetricsInit PROVE MetricsInv
  OBVIOUS
<1>1. Nothing \in [Halves -> 0..Requests] /\ \A h \in Halves : Nothing[h] = 0
  BY MetricsAssumption DEF Nothing
<1>2. MetricsTypeOK
  BY <1>1, MetricsAssumption
     DEF MetricsInit, MetricsTypeOK, AccessLogs, DailyCounts, Halves, AllDays, Uncounted
<1>3. MetricsTyped
  BY <1>1, <1>2, HalvesOfDays, MetricsAssumption DEF MetricsInit, MetricsTyped, BufferedOf, RowsOf
<1>4. CountsFounded
  BY DEF MetricsInit, CountsFounded
<1> QED
  BY <1>3, <1>4 DEF MetricsInv

\* Every step keeps the counts founded and takes none back.
LEMMA MetricsStep ==
    ASSUME MetricsInv, [MetricsNext]_metricVars
    PROVE  MetricsInv' /\ (MetricsDays <= Retention => CountsGrow)
<1>0. /\ half \in Halves /\ half \in Nat /\ Today \in Nat /\ left \in 0..Requests /\ apiUp \in BOOLEAN
      /\ buffered \in [Halves -> 0..Requests] /\ logged \in [Halves -> 0..Requests]
      /\ settled \subseteq AllDays /\ AllDays \subseteq Nat
      /\ \A h \in Halves : buffered[h] + logged[h] + left <= Requests
      /\ \A d \in AllDays : BufferedOf(d) + RowsOf(d) + left <= Requests
      /\ \A d \in settled : d < Today /\ BufferedOf(d) = 0
  BY MetricsAssumption
     DEF MetricsInv, MetricsTyped, MetricsTypeOK, AccessLogs, Halves, Today, DayOf, AllDays, CountsFounded
<1>1. CASE LogRequest
  <2> DEFINE more == [buffered EXCEPT ![half] = @ + 1]
  <2>1. /\ left > 0 /\ left' = left - 1 /\ UNCHANGED <<half, apiUp, daily, settled>>
        /\ Flush(more) \/ (buffered' = more /\ UNCHANGED <<logged, failures>>)
    BY <1>1 DEF LogRequest
  <2>2. /\ more \in [Halves -> Nat]
        /\ \A h \in Halves : more[h] = IF h = half THEN buffered[h] + 1 ELSE buffered[h]
    BY <1>0
  <2>3. left' \in 0..Requests
    BY <1>0, <2>1, MetricsAssumption
  <2> HIDE DEF more
  <2>4. \A h \in Halves : more[h] + logged[h] + left' <= Requests
    <3> SUFFICES ASSUME NEW h \in Halves
                 PROVE  more[h] + logged[h] + left' <= Requests
      OBVIOUS
    <3>1. /\ buffered[h] \in Int /\ logged[h] \in Int /\ left \in Int /\ left' = left - 1
          /\ buffered[h] + logged[h] + left <= Requests
          /\ more[h] = IF h = half THEN buffered[h] + 1 ELSE buffered[h]
      BY <1>0, <2>1, <2>2
    <3> QED
      BY <3>1, MetricsAssumption
  <2>5. ASSUME NEW d \in AllDays
        PROVE  /\ more[2 * d] + more[2 * d + 1] + RowsOf(d) + left' <= Requests
               /\ d # Today => more[2 * d] + more[2 * d + 1] = BufferedOf(d)
    <3>1. d \in Nat /\ 2 * d \in Halves /\ 2 * d + 1 \in Halves
      BY HalvesOfDays, <1>0
    <3>2. /\ buffered[2 * d] \in Nat /\ buffered[2 * d + 1] \in Nat
          /\ logged[2 * d] \in Nat /\ logged[2 * d + 1] \in Nat
      BY <1>0, <3>1
    <3>3. d # Today => 2 * d # half /\ 2 * d + 1 # half
      BY <1>0, <3>1 DEF Today, DayOf
    <3>4. /\ more[2 * d] = IF 2 * d = half THEN buffered[2 * d] + 1 ELSE buffered[2 * d]
          /\ more[2 * d + 1] = IF 2 * d + 1 = half THEN buffered[2 * d + 1] + 1 ELSE buffered[2 * d + 1]
      BY <2>2, <3>1
    <3>5. BufferedOf(d) + RowsOf(d) + left <= Requests
      BY <1>0
    <3> QED
      BY <1>0, <2>1, <3>1, <3>2, <3>3, <3>4, <3>5, MetricsAssumption DEF BufferedOf, RowsOf
  <2>6. \A d \in settled : more[2 * d] + more[2 * d + 1] = 0
    BY <1>0, <2>5
  <2>7. CASE Flush(more)
    BY <1>0, <2>1, <2>2, <2>3, <2>4, <2>5, <2>6, <2>7, Flushed
  <2>8. CASE buffered' = more /\ UNCHANGED <<logged, failures>>
    <3>1. \A d \in AllDays : BufferedOf(d)' = more[2 * d] + more[2 * d + 1] /\ RowsOf(d)' = RowsOf(d)
      BY <2>8 DEF BufferedOf, RowsOf
    <3>2. \A h \in Halves : more[h] \in 0..Requests
      BY <1>0, <2>2, <2>3, <2>4, MetricsAssumption
    <3>3. more \in [Halves -> 0..Requests]
      BY <2>2, <3>2
    <3>4. MetricsTyped'
      BY <2>1, <2>3, <2>4, <2>5, <2>8, <3>1, <3>3 DEF MetricsInv, MetricsTyped, MetricsTypeOK, AccessLogs
    <3>5. \A d \in AllDays : RowsOf(d) \in Nat
      BY HalvesOfDays, <1>0 DEF RowsOf
    <3>6. \A d \in AllDays : RowsOf(d) <= RowsOf(d)'
      BY <3>1, <3>5
    <3>7. \A d \in settled : BufferedOf(d)' = 0 /\ RowsOf(d)' = RowsOf(d)
      BY <1>0, <2>6, <3>1
    <3>8. half' \in Nat /\ half <= half'
      BY <1>0, <2>1
    <3> QED
      BY <1>0, <2>1, <3>4, <3>6, <3>7, <3>8, RowsGrow DEF MetricsInv
  <2> QED
    BY <2>1, <2>7, <2>8
<1>2. ASSUME UNCHANGED <<half, left, daily, settled>>, apiUp' \in BOOLEAN, Flush(buffered)
      PROVE  MetricsInv' /\ CountsGrow
  <2>1. /\ buffered \in [Halves -> Nat] /\ left' \in 0..Requests /\ left' = left
        /\ \A d \in AllDays : buffered[2 * d] + buffered[2 * d + 1] + RowsOf(d) + left <= Requests
        /\ \A d \in settled : buffered[2 * d] + buffered[2 * d + 1] = 0
    BY <1>0, <1>2 DEF BufferedOf
  <2> QED
    BY <1>0, <1>2, <2>1, Flushed
<1>3. CASE FlushLoop
  BY <1>0, <1>2, <1>3 DEF FlushLoop
<1>4. CASE HourlyPass
  <2>1. apiUp' \in BOOLEAN /\ logged' = logged /\ Roll(RollDays, logged') /\ UNCHANGED <<half, left, buffered>>
    BY <1>0, <1>4 DEF HourlyPass
  <2>2. \A d \in AllDays : RowsOf(d)' = RowsOf(d)
    BY <2>1 DEF RowsOf
  <2>3. logged' \in AccessLogs /\ \A h \in Halves : logged'[h] <= logged[h]
    BY <1>0, <2>1, MetricsAssumption DEF AccessLogs
  <2> QED
    BY <2>1, <2>2, <2>3, Rolled, MetricsAssumption
<1>5. CASE ApiStops
  <2>1. UNCHANGED <<half, left, daily, settled>> /\ apiUp' \in BOOLEAN
    BY <1>5 DEF ApiStops
  <2>2. CASE Flush(buffered)
    BY <2>1, <2>2, <1>2
  <2>3. CASE buffered' = Nothing /\ UNCHANGED <<logged, failures>>
    <3>1. Nothing \in [Halves -> 0..Requests] /\ \A h \in Halves : Nothing[h] = 0
      BY MetricsAssumption DEF Nothing
    <3>2. \A d \in AllDays : BufferedOf(d)' = 0 /\ RowsOf(d)' = RowsOf(d) /\ RowsOf(d) \in Nat /\ BufferedOf(d) \in Nat
      BY <2>3, <3>1, <1>0, HalvesOfDays DEF BufferedOf, RowsOf
    <3>3. MetricsTyped'
      <4>1. MetricsTypeOK'
        BY <2>1, <2>3, <3>1 DEF MetricsInv, MetricsTyped, MetricsTypeOK, AccessLogs
      <4>2. \A h \in Halves : buffered'[h] + logged'[h] + left' <= Requests
        BY <1>0, <2>1, <2>3, <3>1, MetricsAssumption
      <4>3. \A d \in AllDays : BufferedOf(d)' + RowsOf(d)' + left' <= Requests
        BY <1>0, <2>1, <3>2, MetricsAssumption
      <4> QED
        BY <4>1, <4>2, <4>3 DEF MetricsTyped
    <3>4. \A d \in settled : BufferedOf(d)' = 0 /\ RowsOf(d)' = RowsOf(d)
      BY <1>0, <3>2
    <3>5. \A d \in AllDays : RowsOf(d) <= RowsOf(d)'
      BY <3>2
    <3>6. half' \in Nat /\ half <= half'
      BY <1>0, <2>1
    <3> QED
      BY <1>0, <2>1, <3>3, <3>4, <3>5, <3>6, RowsGrow DEF MetricsInv
  <2> QED
    BY <1>5, <2>2, <2>3 DEF ApiStops
<1>6. CASE ApiStarts
  <2>1. apiUp' \in BOOLEAN /\ logged' = Retained(logged) /\ Roll(FirstRollDays, logged') /\ UNCHANGED <<half, left, buffered>>
    BY <1>6 DEF ApiStarts
  <2>2. /\ logged' \in AccessLogs
        /\ \A h \in Halves : logged'[h] = IF h + 2 * Retention < half THEN 0 ELSE logged[h]
    BY <1>0, <2>1, MetricsAssumption DEF Retained, AccessLogs
  <2>3. \A h \in Halves : logged'[h] <= logged[h]
    BY <1>0, <2>2, MetricsAssumption
  <2>4. \A d \in AllDays : Kept(d) => RowsOf(d)' = RowsOf(d)
    <3> SUFFICES ASSUME NEW d \in AllDays, Kept(d)
                 PROVE  RowsOf(d)' = RowsOf(d)
      OBVIOUS
    <3>1. d \in Nat /\ 2 * d \in Halves /\ 2 * d + 1 \in Halves
      BY HalvesOfDays, <1>0
    <3>2. ~(2 * d + 2 * Retention < half) /\ ~(2 * d + 1 + 2 * Retention < half)
      BY <1>0, <3>1, MetricsAssumption DEF Kept, Whole, Today, DayOf
    <3> QED
      BY <2>2, <3>1, <3>2 DEF RowsOf
  <2> QED
    BY <2>1, <2>2, <2>3, <2>4, Rolled, MetricsAssumption
<1>7. CASE HalfDayPasses
  <2>1. half' = half + 1 /\ half < 2 * LogDays + 1 /\ UNCHANGED <<apiUp, left, buffered, logged, daily, settled, failures>>
    BY <1>7, LastHalf DEF HalfDayPasses
  <2>2. half' \in Halves /\ half' \in Nat /\ half <= half'
    BY <1>0, <2>1, MetricsAssumption DEF Halves
  <2>3. \A d \in AllDays : BufferedOf(d)' = BufferedOf(d) /\ RowsOf(d)' = RowsOf(d) /\ RowsOf(d) \in Nat
    BY <1>0, <2>1, HalvesOfDays DEF BufferedOf, RowsOf
  <2>4. MetricsTyped'
    BY <2>1, <2>2, <2>3 DEF MetricsInv, MetricsTyped, MetricsTypeOK
  <2>5. \A d \in settled : BufferedOf(d)' = 0 /\ RowsOf(d)' = RowsOf(d)
    BY <1>0, <2>3
  <2>6. \A d \in AllDays : RowsOf(d) <= RowsOf(d)'
    BY <2>3
  <2> QED
    BY <1>0, <2>1, <2>2, <2>4, <2>5, <2>6, RowsGrow DEF MetricsInv
<1>8. CASE UNCHANGED metricVars
  <2>1. UNCHANGED <<half, apiUp, left, buffered, logged, daily, settled, failures>>
    BY <1>8 DEF metricVars
  <2>2. half' \in Nat /\ half <= half'
    BY <1>0, <2>1
  <2>3. \A d \in AllDays : BufferedOf(d)' = BufferedOf(d) /\ RowsOf(d)' = RowsOf(d) /\ RowsOf(d) \in Nat
    BY <1>0, <2>1, HalvesOfDays DEF BufferedOf, RowsOf
  <2>4. MetricsTyped'
    BY <2>1, <2>3 DEF MetricsInv, MetricsTyped, MetricsTypeOK
  <2>5. \A d \in settled : BufferedOf(d)' = 0 /\ RowsOf(d)' = RowsOf(d)
    BY <1>0, <2>3
  <2>6. \A d \in AllDays : RowsOf(d) <= RowsOf(d)'
    BY <2>3
  <2> QED
    BY <1>0, <2>1, <2>2, <2>4, <2>5, <2>6, RowsGrow DEF MetricsInv
<1> QED
  BY <1>1, <1>3, <1>4, <1>5, <1>6, <1>7, <1>8 DEF MetricsNext

\* Of days that are settled the overview says what the rows say: it finds all of them
\* counted, and with their rows.
LEMMA OverviewOfSettled == MetricsInv /\ MetricsDays <= Retention => OverviewIsRows
<1> SUFFICES ASSUME MetricsInv, MetricsDays <= Retention, NEW from \in AllDays, NEW to \in AllDays,
                    from <= to, from..to \subseteq settled, \A d \in from..to : Whole(d)
             PROVE  Overview(from, to) = [d \in from..to |-> RowsOf(d)]
  BY DEF OverviewIsRows
<1> DEFINE counted == {d \in from..to : daily[d] # Uncounted}
<1>1. /\ from \in Nat /\ to \in Nat /\ Today \in Nat /\ settled \subseteq AllDays /\ half \in Nat
  BY MetricsAssumption DEF AllDays, Today, DayOf, MetricsInv, MetricsTyped, MetricsTypeOK, Halves
<1>2. to < Today /\ from + MetricsDays > Today
  <2>1. to \in from..to /\ from \in from..to
    BY <1>1
  <2>2. to \in settled /\ Whole(from)
    BY <2>1
  <2> QED
    BY <2>2 DEF MetricsInv, CountsFounded, Whole
<1>3. ~(to > from + MetricsDays)
  BY <1>1, <1>2, MetricsAssumption
<1>4. \A d \in from..to : daily[d] = RowsOf(d) /\ daily[d] # Uncounted
  <2> SUFFICES ASSUME NEW d \in from..to
               PROVE  daily[d] = RowsOf(d) /\ daily[d] # Uncounted
    OBVIOUS
  <2>1. d \in settled /\ d \in AllDays /\ Whole(d)
    BY <1>1
  <2>2. daily[d] = RowsOf(d)
    BY <2>1 DEF MetricsInv, CountsFounded, Kept
  <2>3. RowsOf(d) \in 0..Requests
    <3>1. /\ logged[2 * d] \in Nat /\ logged[2 * d + 1] \in Nat /\ buffered[2 * d] \in Nat /\ buffered[2 * d + 1] \in Nat
          /\ left \in Nat
      BY <2>1, HalvesOfDays DEF MetricsInv, MetricsTyped, MetricsTypeOK, AccessLogs
    <3>2. BufferedOf(d) + RowsOf(d) + left <= Requests
      BY <2>1 DEF MetricsInv, MetricsTyped
    <3> QED
      BY <3>1, <3>2, MetricsAssumption DEF RowsOf, BufferedOf
  <2> QED
    BY <2>2, <2>3, MetricsAssumption DEF Uncounted
<1>5. counted = from..to
  BY <1>4
<1>6. Cardinality(from..to) \in Nat
  BY <1>1, FS_Interval, FS_CardinalityType
<1> DEFINE many == Cardinality(from..to)
<1>7. 5 * Cardinality(counted) >= 4 * Cardinality(from..to)
  <2>1. many \in Nat /\ Cardinality(counted) = many
    BY <1>5, <1>6
  <2> HIDE DEF many, counted
  <2>2. 5 * many >= 4 * many
    BY <2>1
  <2> QED
    BY <2>1, <2>2 DEF many
<1>8. Overview(from, to) = [d \in counted |-> daily[d]]
  BY <1>3, <1>7 DEF Overview
<1> QED
  BY <1>4, <1>5, <1>8

\* Along every behaviour the counts are founded.
LEMMA MetricsAlways == MetricsSpec => []MetricsInv
<1>1. MetricsInit => MetricsInv
  BY MetricsStart
<1>2. MetricsInv /\ [MetricsNext]_metricVars => MetricsInv'
  BY MetricsStep
<1> QED
  BY <1>1, <1>2, PTL DEF MetricsSpec

\* Every variable of the counts keeps its type.
THEOREM MetricsTypeCorrect == MetricsSpec => []MetricsTypeOK
<1>1. MetricsInv => MetricsTypeOK
  BY DEF MetricsInv, MetricsTyped
<1> QED
  BY <1>1, MetricsAlways, PTL

\* Where the rows are kept for as many days as the overview goes back, as they are by
\* default, no count of a day is taken back while the overview goes back to it, and of
\* settled days the overview says what the rows say, whatever is flushed, lost, deleted and
\* counted again in between.
THEOREM CountsAlwaysStand ==
    ASSUME MetricsDays <= Retention
    PROVE  MetricsSpec => CountsStand
<1>1. MetricsInv /\ [MetricsNext]_metricVars => [CountsGrow]_metricVars
  BY MetricsStep
<1>2. MetricsSpec => [][CountsGrow]_metricVars
  BY <1>1, MetricsAlways, PTL DEF MetricsSpec
<1>3. MetricsSpec => []OverviewIsRows
  BY OverviewOfSettled, MetricsAlways, PTL
<1> QED
  BY <1>2, <1>3 DEF CountsStand, CountsGrow, OverviewIsRows

-----------------------------------------------------------------------------
(* The graph of agents.                                                    *)

Statuses == {"open", "addressed", "resolved", "unresolved"}

Speakers == {"", "Bull", "Bear", "Aggressive", "Conservative", "Neutral", "Judge"}

AnyDebate ==
    [history : Seq(Speakers \X Nat), count : Nat, speaker : Speakers, status : Seq(Statuses),
     open : SUBSET Nat, resolved : SUBSET Nat, unresolved : SUBSET Nat]

\* ClaimsAgree of one debate.
Agree(d) ==
    /\ d.open \cap d.resolved = {} /\ d.open \cup d.resolved = 1..Len(d.status)
    /\ d.unresolved \subseteq d.open
    /\ \A c \in 1..Len(d.status) :
           /\ d.status[c] = "resolved" <=> c \in d.resolved
           /\ d.status[c] = "unresolved" <=> c \in d.unresolved

GraphInv ==
    /\ plan \in Nat
    /\ invest \in AnyDebate /\ Agree(invest)
    /\ risk \in AnyDebate /\ Agree(risk)

\* Which agent each step is.
LEMMA Steps ==
    ASSUME AgentStep
    PROVE  \/ \E a \in Analysts : Analyst(a)
           \/ \E who \in {"Bull", "Bear"} : Researcher(who)
           \/ ResearchManager \/ Trader
           \/ \E who \in {"Aggressive", "Conservative", "Neutral"} : RiskDebater(who)
           \/ RiskJudge \/ Deliver
<1>1. MarketAnalyst \/ SocialMediaAnalyst \/ NewsAnalyst \/ FundamentalsAnalyst \/ MacroAnalyst
        \/ SmartMoneyAnalyst \/ VolumePriceAnalyst => \E a \in Analysts : Analyst(a)
  BY DEF MarketAnalyst, SocialMediaAnalyst, NewsAnalyst, FundamentalsAnalyst, MacroAnalyst,
         SmartMoneyAnalyst, VolumePriceAnalyst
<1>2. BullResearcher \/ BearResearcher => \E who \in {"Bull", "Bear"} : Researcher(who)
  BY DEF BullResearcher, BearResearcher
<1>3. AggressiveDebator \/ ConservativeDebator \/ NeutralDebator
        => \E who \in {"Aggressive", "Conservative", "Neutral"} : RiskDebater(who)
  BY DEF AggressiveDebator, ConservativeDebator, NeutralDebator
<1> QED
  BY <1>1, <1>2, <1>3 DEF AgentStep

\* A debate that has not begun has no claims.
LEMMA EmptyAgrees == EmptyDebate \in AnyDebate /\ Agree(EmptyDebate)
  BY DEF EmptyDebate, AnyDebate, Agree, Speakers

\* A function on 1..n is a sequence of that length.
LEMMA Listed ==
    ASSUME NEW S, NEW n \in Nat, NEW f \in [1..n -> S]
    PROVE  f \in Seq(S) /\ Len(f) = n
  OBVIOUS

\* The status of a claim is one of the four.
LEMMA StatusTyped ==
    ASSUME NEW d \in AnyDebate, NEW answer \in Payloads(d), NEW c \in 1..Len(d.status)
    PROVE  ClaimStatus(d, answer, c) \in Statuses
<1>1. d.status[c] \in Statuses
  BY DEF AnyDebate
<1> QED
  BY <1>1 DEF ClaimStatus, Statuses

\* An answer keeps the books, whatever it says of the claims.
LEMMA AnswerAgrees ==
    ASSUME NEW d \in AnyDebate, Agree(d), NEW answer \in Payloads(d), NEW who \in Speakers, plan \in Nat
    PROVE  /\ update_debate_state_with_payload(d, who, answer) \in AnyDebate
           /\ Agree(update_debate_state_with_payload(d, who, answer))
<1> DEFINE e == update_debate_state_with_payload(d, who, answer)
           old == Len(d.status)
           all == old + answer.new
           Old(c) == ClaimStatus(d, answer, c)
<1>1. /\ d.status \in Seq(Statuses) /\ d.history \in Seq(Speakers \X Nat) /\ d.count \in Nat
      /\ d.open \subseteq Nat /\ d.resolved \subseteq Nat /\ d.unresolved \subseteq Nat
      /\ old \in Nat
  BY DEF AnyDebate
<1>2. /\ answer.responded \subseteq 1..old /\ answer.resolved \subseteq 1..old
      /\ answer.unresolved \subseteq 1..old /\ answer.new \in Nat /\ all \in Nat /\ old <= all
  BY <1>1, SMT DEF Payloads
<1>3. /\ e.status = [c \in 1..all |-> IF c > old THEN "open" ELSE Old(c)]
      /\ e.open = (d.open \ answer.resolved) \cup answer.unresolved \cup (old + 1)..all
      /\ e.resolved = (d.resolved \cup answer.resolved) \ answer.unresolved
      /\ e.unresolved = (d.unresolved \ answer.resolved) \cup answer.unresolved
  BY DEF update_debate_state_with_payload
<1>4. \A c \in 1..all : (IF c > old THEN "open" ELSE Old(c)) \in Statuses
  <2> SUFFICES ASSUME NEW c \in 1..all PROVE (IF c > old THEN "open" ELSE Old(c)) \in Statuses
    OBVIOUS
  <2>1. CASE c > old
    BY <2>1 DEF Statuses
  <2>2. CASE ~(c > old)
    <3>1. c \in 1..old
      BY <1>1, <1>2, <2>2
    <3> QED
      BY <2>2, <3>1, StatusTyped
  <2> QED
    BY <2>1, <2>2
<1>5. e.status \in Seq(Statuses) /\ Len(e.status) = all
  <2> HIDE DEF all, old, Old
  <2>1. e.status \in [1..all -> Statuses]
    BY <1>3, <1>4
  <2> QED
    BY <1>2, <2>1, Listed
<1>6. e \in AnyDebate
  <2>1. Append(d.history, <<who, plan>>) \in Seq(Speakers \X Nat)
    BY <1>1
  <2>2. e.open \subseteq Nat /\ e.resolved \subseteq Nat /\ e.unresolved \subseteq Nat
    BY <1>1, <1>2, <1>3
  <2> QED
    BY <1>1, <1>5, <2>1, <2>2 DEF AnyDebate, update_debate_state_with_payload
<1>7. Agree(d)
  OBVIOUS
<1>8. e.open \cap e.resolved = {} /\ e.open \cup e.resolved = 1..all /\ e.unresolved \subseteq e.open
  BY <1>1, <1>2, <1>3, <1>7 DEF Agree
<1>9. ASSUME NEW c \in 1..all
      PROVE  /\ e.status[c] = "resolved" <=> c \in e.resolved
             /\ e.status[c] = "unresolved" <=> c \in e.unresolved
  <2>1. CASE c > old
    <3>1. e.status[c] = "open" /\ c \notin 1..old
      BY <1>1, <1>3, <2>1
    <3>2. c \notin answer.resolved /\ c \notin answer.unresolved /\ c \notin d.resolved /\ c \notin d.unresolved
      BY <1>2, <1>7, <3>1 DEF Agree
    <3> QED
      BY <1>3, <3>1, <3>2
  <2>2. CASE ~(c > old)
    <3>1. c \in 1..old
      BY <1>1, <1>2, <2>2
    <3>2. e.status[c] = Old(c)
      BY <1>3, <2>2
    <3>3. /\ d.status[c] = "resolved" <=> c \in d.resolved
          /\ d.status[c] = "unresolved" <=> c \in d.unresolved
      BY <1>7, <3>1 DEF Agree
    <3>4. /\ d.unresolved \subseteq d.open /\ d.open \cap d.resolved = {}
      BY <1>7 DEF Agree
    <3>5. CASE c \in answer.unresolved
      BY <1>3, <3>2, <3>5 DEF ClaimStatus
    <3>6. CASE c \in answer.resolved \ answer.unresolved
      <4>1. Old(c) = "resolved"
        BY <3>6 DEF ClaimStatus
      <4> QED
        BY <1>3, <3>2, <3>6, <4>1
    <3>7. CASE c \notin answer.resolved \cup answer.unresolved
      <4>1. Old(c) = d.status[c] \/ (Old(c) = "addressed" /\ d.status[c] = "open")
        BY <3>7 DEF ClaimStatus
      <4>2. (c \in e.resolved <=> c \in d.resolved) /\ (c \in e.unresolved <=> c \in d.unresolved)
        BY <1>3, <3>7
      <4> HIDE DEF Old, e
      <4> QED
        BY <3>2, <3>3, <4>1, <4>2
    <3> QED
      BY <3>5, <3>6, <3>7
  <2> QED
    BY <2>1, <2>2
<1>10. Agree(e)
  BY <1>5, <1>8, <1>9 DEF Agree
<1> QED
  BY <1>6, <1>10

\* At first nothing has been said.
LEMMA GraphInitInv == GraphInit => GraphInv
  BY EmptyAgrees DEF GraphInit, GraphInv

\* Every step keeps the books of both debates.
LEMMA GraphStepInv == GraphInv /\ [GraphNext]_graphVars => GraphInv'
<1> SUFFICES ASSUME GraphInv, [GraphNext]_graphVars PROVE GraphInv'
  OBVIOUS
<1>0. /\ plan \in Nat /\ invest \in AnyDebate /\ Agree(invest) /\ risk \in AnyDebate /\ Agree(risk)
  BY DEF GraphInv
<1>1. ASSUME UNCHANGED <<plan, invest, risk>> PROVE GraphInv'
  BY <1>0, <1>1 DEF GraphInv, Agree
<1>2. ASSUME NEW a \in Analysts, Analyst(a) PROVE GraphInv'
  BY <1>1, <1>2 DEF Analyst
<1>3. ASSUME NEW who \in {"Bull", "Bear"}, Researcher(who) PROVE GraphInv'
  <2>1. who \in Speakers /\ UNCHANGED <<plan, risk>>
    BY <1>3 DEF Speakers, Researcher
  <2>2. PICK answer \in Payloads(invest) :
            invest' = update_debate_state_with_payload(invest, who, answer)
    BY <1>3 DEF Researcher
  <2>3. invest' \in AnyDebate /\ Agree(invest')
    BY <1>0, <2>1, <2>2, AnswerAgrees
  <2> QED
    BY <1>0, <2>1, <2>3 DEF GraphInv, Agree
<1>4. CASE ResearchManager
  BY <1>1, <1>4 DEF ResearchManager
<1>5. CASE Trader
  <2>1. plan' \in Nat /\ UNCHANGED invest
    BY <1>0, <1>5 DEF Trader
  <2>2. risk' = risk \/ risk' = EmptyDebate
    BY <1>5 DEF Trader
  <2>3. risk' \in AnyDebate /\ Agree(risk')
    BY <1>0, <2>2, EmptyAgrees
  <2> QED
    BY <1>0, <2>1, <2>3 DEF GraphInv, Agree
<1>6. ASSUME NEW who \in {"Aggressive", "Conservative", "Neutral"}, RiskDebater(who) PROVE GraphInv'
  <2>1. who \in Speakers /\ UNCHANGED <<plan, invest>>
    BY <1>6 DEF Speakers, RiskDebater
  <2>2. PICK answer \in Payloads(risk) :
            risk' = update_debate_state_with_payload(risk, who, answer)
    BY <1>6 DEF RiskDebater
  <2>3. risk' \in AnyDebate /\ Agree(risk')
    BY <1>0, <2>1, <2>2, AnswerAgrees
  <2> QED
    BY <1>0, <2>1, <2>3 DEF GraphInv, Agree
<1>7. CASE RiskJudge
  <2>1. UNCHANGED <<plan, invest>> /\ risk' = [risk EXCEPT !.speaker = "Judge"]
    BY <1>7 DEF RiskJudge
  <2>2. /\ risk' \in AnyDebate /\ risk'.status = risk.status /\ risk'.open = risk.open
        /\ risk'.resolved = risk.resolved /\ risk'.unresolved = risk.unresolved
    BY <1>0, <2>1 DEF AnyDebate, Speakers
  <2>3. Agree(risk')
    BY <1>0, <2>2 DEF Agree
  <2> QED
    BY <1>0, <2>1, <2>2, <2>3 DEF GraphInv, Agree
<1>8. CASE Deliver \/ AttemptFails \/ ResumeGraph
  BY <1>1, <1>8 DEF Deliver, AttemptFails, ResumeGraph
<1>9. CASE StartGraph
  <2>1. plan' = 0 /\ invest' = EmptyDebate /\ risk' = EmptyDebate
    BY <1>9 DEF StartGraph, create_initial_state
  <2> QED
    BY <2>1, EmptyAgrees DEF GraphInv, Agree
<1>10. CASE UNCHANGED graphVars
  BY <1>1, <1>10 DEF graphVars
<1> QED
  BY <1>2, <1>3, <1>4, <1>5, <1>6, <1>7, <1>8, <1>9, <1>10, Steps DEF GraphNext

\* The books of both debates agree in every reachable state, whatever the agents
\* answer and however often an attempt fails, is resumed or starts over.
THEOREM ClaimsAlwaysAgree == GraphSpec => []ClaimsAgree
<1>1. GraphInv => ClaimsAgree
  BY DEF GraphInv, Agree, ClaimsAgree
<1> QED
  BY <1>1, GraphInitInv, GraphStepInv, PTL DEF GraphSpec

-----------------------------------------------------------------------------
(* The types of the graph's state. *)

DebateSpeakers == {"Bull", "Bear", "Aggressive", "Conservative", "Neutral"}

\* The books of a debate agree and hold no more claims than may be raised; another revision
\* is asked for only of who may still be sent back.
GraphTyped ==
    /\ GraphTypeOK
    /\ \A d \in {invest, risk} : Agree(d) /\ Len(d.status) <= MaxClaims
    /\ nodes # {} => feedback.retry_count <= max_retries

\* A debate of which the books agree has its type when its speeches, claims and speaker have.
LEMMA DebateTyped ==
    ASSUME NEW d \in AnyDebate, Agree(d), Len(d.status) <= MaxClaims,
           d.history \in Seq(DebateSpeakers \X (0 .. MaxPlans))
    PROVE  d \in Debates
<1>1. d.open \subseteq 1 .. Len(d.status) /\ d.resolved \subseteq 1 .. Len(d.status) /\ d.unresolved \subseteq d.open
  BY DEF Agree
<1>2. Len(d.status) \in Nat /\ MaxClaims \in Nat
  BY GraphAssumption DEF AnyDebate
<1>3. 1 .. Len(d.status) \subseteq 1 .. MaxClaims
  BY <1>2
<1>4. d.open \in SUBSET (1 .. MaxClaims) /\ d.resolved \in SUBSET (1 .. MaxClaims) /\ d.unresolved \in SUBSET (1 .. MaxClaims)
  BY <1>1, <1>3
<1> QED
  BY <1>4, Zenon DEF AnyDebate, Debates, DebateSpeakers, Speakers, Statuses

\* A debate of its type is one of any size.
LEMMA DebateAny ==
    ASSUME NEW d \in Debates
    PROVE  d \in AnyDebate
<1>1. 0 .. MaxPlans \subseteq Nat /\ 1 .. MaxClaims \subseteq Nat
  BY GraphAssumption
<1>2. DebateSpeakers \X (0 .. MaxPlans) \subseteq Speakers \X Nat
  BY <1>1 DEF DebateSpeakers, Speakers
<1>3. d.history \in Seq(DebateSpeakers \X (0 .. MaxPlans))
  BY DEF Debates, DebateSpeakers
<1>4. d.history \in Seq(Speakers \X Nat)
  BY <1>2, <1>3
<1>5. d.open \in SUBSET Nat /\ d.resolved \in SUBSET Nat /\ d.unresolved \in SUBSET Nat
  BY <1>1 DEF Debates
<1> QED
  BY <1>4, <1>5, Zenon DEF AnyDebate, Debates, Speakers, Statuses

\* An answer keeps the type of a debate: it raises no more claims than are left.
LEMMA AnswerTyped ==
    ASSUME NEW d \in Debates, Agree(d), Len(d.status) <= MaxClaims,
           NEW answer \in Payloads(d), NEW who \in DebateSpeakers, plan \in 0 .. MaxPlans
    PROVE  LET e == update_debate_state_with_payload(d, who, answer)
           IN  e \in Debates /\ Agree(e) /\ Len(e.status) <= MaxClaims
<1> DEFINE e == update_debate_state_with_payload(d, who, answer)
<1>1. plan \in Nat /\ who \in Speakers
  <2>1. who \in Speakers
    BY DEF DebateSpeakers, Speakers
  <2> QED
    BY <2>1
<1>2. e \in AnyDebate /\ Agree(e)
  BY <1>1, DebateAny, AnswerAgrees
<1>3. d.history \in Seq(DebateSpeakers \X (0 .. MaxPlans)) /\ Len(d.status) \in Nat
  <2>1. d.history \in Seq(DebateSpeakers \X (0 .. MaxPlans))
    BY Zenon DEF Debates, DebateSpeakers
  <2>2. d.status \in Seq(Statuses)
    BY Zenon DEF Debates, Statuses
  <2> QED
    BY <2>1, <2>2
<1>4. e.history = Append(d.history, <<who, plan>>)
  BY DEF update_debate_state_with_payload
<1>5. e.history \in Seq(DebateSpeakers \X (0 .. MaxPlans))
  BY <1>3, <1>4
<1>6. answer.new \in 0 .. (MaxClaims - Len(d.status))
  BY DEF Payloads
<1>7. Len(e.status) = Len(d.status) + answer.new
  <2>1. Len(d.status) + answer.new \in Nat
    BY <1>3, <1>6, GraphAssumption
  <2>2. DOMAIN e.status = 1 .. (Len(d.status) + answer.new)
    BY DEF update_debate_state_with_payload
  <2>3. e.status \in Seq(Statuses)
    BY <1>2 DEF AnyDebate
  <2> HIDE DEF e
  <2> QED
    BY <2>1, <2>2, <2>3
<1>8. Len(e.status) <= MaxClaims
  BY <1>3, <1>6, <1>7, GraphAssumption
<1> HIDE DEF e
<1>9. e \in Debates
  BY <1>2, <1>5, <1>8, DebateTyped
<1> QED
  BY <1>2, <1>8, <1>9 DEF e

\* A debate not begun.
LEMMA EmptyTyped == EmptyDebate \in Debates /\ Agree(EmptyDebate) /\ Len(EmptyDebate.status) <= MaxClaims
<1>1. EmptyDebate.history \in Seq(DebateSpeakers \X (0 .. MaxPlans)) /\ Len(EmptyDebate.status) <= MaxClaims
  BY GraphAssumption DEF EmptyDebate
<1> QED
  BY <1>1, EmptyAgrees, DebateTyped

Replies == [retry_count : 0 .. (max_retries + 1), revision_required : BOOLEAN,
            latest_risk_verdict : Verdicts \cup {""}]

\* Before any verdict there is no feedback.
LEMMA NothingSaid == /\ NoFeedback \in Replies /\ NoFeedback.retry_count <= max_retries
                     /\ NoDecision \in [about : 0 .. MaxPlans, verdict : Verdicts \cup {""}]
<1>1. 0 \in 0 .. (max_retries + 1) /\ 0 <= max_retries /\ 0 \in 0 .. MaxPlans
  BY GraphAssumption DEF max_retries
<1> QED
  BY <1>1 DEF NoFeedback, NoDecision, Replies

\* A step keeps the types.
LEMMA GraphStepTyped == GraphTyped /\ [GraphNext]_graphVars => GraphTyped'
<1> SUFFICES ASSUME GraphTyped, [GraphNext]_graphVars PROVE GraphTyped'
  OBVIOUS
<1> DEFINE Books(d) == d \in Debates /\ Agree(d) /\ Len(d.status) <= MaxClaims
           Sent(n, f) == n # {} => f.retry_count <= max_retries
           Decision == [about : 0 .. MaxPlans, verdict : Verdicts \cup {""}]
<1>0. /\ nodes \subseteq Analysts \cup Agents /\ reports \subseteq Analysts
      /\ Books(invest) /\ Books(risk) /\ Sent(nodes, feedback)
      /\ feedback \in Replies /\ plan \in 0 .. MaxPlans /\ decision \in Decision
      /\ grun \in {"new", "running", "failed", "delivered"} /\ fails \in 0 .. MaxFails
  BY DEF GraphTyped, GraphTypeOK, Replies
<1>a. ASSUME nodes' \subseteq Analysts \cup Agents, reports' \subseteq Analysts,
             Books(invest'), Books(risk'), Sent(nodes', feedback'),
             feedback' \in Replies, plan' \in 0 .. MaxPlans, decision' \in Decision,
             grun' \in {"new", "running", "failed", "delivered"}, fails' \in 0 .. MaxFails
      PROVE  GraphTyped'
  <2>1. GraphTypeOK'
    BY <1>a, Zenon DEF GraphTypeOK, Replies
  <2>2. \A d \in {invest', risk'} : Agree(d) /\ Len(d.status) <= MaxClaims
    BY <1>a
  <2> QED
    BY <1>a, <2>1, <2>2, Zenon DEF GraphTyped
<1> HIDE DEF Books, Sent, Decision
<1>1. ASSUME NEW a \in Analysts, Analyst(a) PROVE GraphTyped'
  <2>1. nodes # {} /\ reports' \subseteq Analysts /\ nodes' \subseteq Analysts \cup Agents
        /\ UNCHANGED <<invest, risk, feedback, plan, decision, grun, fails>>
    BY <1>0, <1>1 DEF Analyst, Turn, Agents
  <2>2. Sent(nodes', feedback')
    BY <1>0, <2>1 DEF Sent
  <2> QED
    BY <1>0, <1>a, <2>1, <2>2
<1>2. ASSUME NEW who \in {"Bull", "Bear"}, Researcher(who) PROVE GraphTyped'
  <2>1. PICK answer \in Payloads(invest) :
            invest' = update_debate_state_with_payload(invest, who, answer)
    BY <1>2 DEF Researcher
  <2>2. Books(invest')
    BY <1>0, <2>1, AnswerTyped DEF Books, DebateSpeakers
  <2>3. nodes # {} /\ nodes' \subseteq Analysts \cup Agents
        /\ UNCHANGED <<reports, risk, feedback, plan, decision, grun, fails>>
    BY <1>2 DEF Researcher, Turn, Agents, should_continue_debate
  <2>4. Sent(nodes', feedback')
    BY <1>0, <2>3 DEF Sent
  <2> QED
    BY <1>0, <1>a, <2>2, <2>3, <2>4
<1>3. CASE ResearchManager
  <2>1. nodes # {} /\ nodes' \subseteq Analysts \cup Agents
        /\ UNCHANGED <<reports, invest, risk, feedback, plan, decision, grun, fails>>
    BY <1>3 DEF ResearchManager, Turn, Agents
  <2>2. Sent(nodes', feedback')
    BY <1>0, <2>1 DEF Sent
  <2> QED
    BY <1>0, <1>a, <2>1, <2>2
<1>4. CASE Trader
  <2>1. nodes # {} /\ nodes' \subseteq Analysts \cup Agents
        /\ UNCHANGED <<reports, invest, decision, grun, fails>>
    BY <1>4 DEF Trader, Turn, Agents
  <2>2. plan' \in 0 .. MaxPlans
    BY <1>0, <1>4, GraphAssumption DEF Trader
  <2>3. Books(risk')
    BY <1>0, <1>4, EmptyTyped DEF Trader, Books
  <2>4. feedback' \in Replies /\ feedback'.retry_count = feedback.retry_count
    BY <1>0, <1>4 DEF Trader, Replies
  <2>5. Sent(nodes', feedback')
    BY <1>0, <2>1, <2>4 DEF Sent
  <2> QED
    BY <1>0, <1>a, <2>1, <2>2, <2>3, <2>4, <2>5
<1>5. ASSUME NEW who \in {"Aggressive", "Conservative", "Neutral"}, RiskDebater(who) PROVE GraphTyped'
  <2>1. PICK answer \in Payloads(risk) :
            risk' = update_debate_state_with_payload(risk, who, answer)
    BY <1>5 DEF RiskDebater
  <2>2. Books(risk')
    BY <1>0, <2>1, AnswerTyped DEF Books, DebateSpeakers
  <2>3. nodes # {} /\ nodes' \subseteq Analysts \cup Agents
        /\ UNCHANGED <<reports, invest, feedback, plan, decision, grun, fails>>
    <3>1. should_continue_risk_analysis(risk') \in Agents
      BY DEF Agents, should_continue_risk_analysis
    <3> QED
      BY <1>5, <3>1 DEF RiskDebater, Turn
  <2>4. Sent(nodes', feedback')
    BY <1>0, <2>3 DEF Sent
  <2> QED
    BY <1>0, <1>a, <2>2, <2>3, <2>4
<1>6. CASE RiskJudge
  <2>1. PICK verdict \in Verdicts :
           /\ feedback' = [retry_count |-> feedback.retry_count + (IF verdict = "revise" THEN 1 ELSE 0),
                           revision_required |-> verdict = "revise",
                           latest_risk_verdict |-> verdict]
           /\ decision' = [about |-> plan, verdict |-> verdict]
    BY <1>6 DEF RiskJudge
  <2>2. nodes # {} /\ nodes' = should_revise_after_risk_judge(feedback')
        /\ risk' = [risk EXCEPT !.speaker = "Judge"]
        /\ UNCHANGED <<reports, invest, plan, grun, fails>>
    BY <1>6 DEF RiskJudge, Turn
  <2>3. feedback.retry_count \in 0 .. 1 /\ max_retries = 1
    <3>1. feedback.retry_count <= max_retries /\ feedback.retry_count \in 0 .. (max_retries + 1)
      BY <1>0, <2>2 DEF Sent, Replies
    <3> QED
      BY <3>1 DEF max_retries
  <2>4. feedback' \in Replies
    <3>1. feedback.retry_count + (IF verdict = "revise" THEN 1 ELSE 0) \in 0 .. 2
      BY <2>3
    <3>2. (verdict = "revise") \in BOOLEAN
      OBVIOUS
    <3>3. 0 .. 2 = 0 .. (max_retries + 1)
      BY DEF max_retries
    <3>4. verdict \in Verdicts \cup {""}
      BY <2>1
    <3> QED
      BY <2>1, <3>1, <3>2, <3>3, <3>4, Zenon DEF Replies
  <2>5. decision' \in Decision
    BY <1>0, <2>1 DEF Decision
  <2>6. /\ risk' \in Debates /\ risk'.status = risk.status /\ risk'.open = risk.open
        /\ risk'.resolved = risk.resolved /\ risk'.unresolved = risk.unresolved
    BY <1>0, <2>2 DEF Books, Debates
  <2>7. Books(risk')
    BY <1>0, <2>6 DEF Books, Agree
  <2>8. nodes' \subseteq Analysts \cup Agents /\ Sent(nodes', feedback')
    BY <2>2 DEF should_revise_after_risk_judge, Agents, Sent
  <2> QED
    BY <1>0, <1>a, <2>2, <2>4, <2>5, <2>7, <2>8
<1>7. CASE Deliver \/ AttemptFails \/ ResumeGraph
  <2>1. /\ grun' \in {"new", "running", "failed", "delivered"} /\ fails' \in 0 .. MaxFails
        /\ UNCHANGED <<nodes, reports, invest, risk, feedback, plan, decision>>
    BY <1>0, <1>7, GraphAssumption DEF Deliver, AttemptFails, ResumeGraph
  <2> QED
    BY <1>0, <1>a, <2>1
<1>8. CASE StartGraph
  <2>1. /\ nodes' \subseteq Analysts \cup Agents /\ reports' \subseteq Analysts
        /\ invest' = EmptyDebate /\ risk' = EmptyDebate
        /\ feedback' = NoFeedback /\ plan' = 0 /\ decision' = NoDecision
        /\ grun' = "running" /\ fails' = fails
    BY <1>8 DEF StartGraph, create_initial_state
  <2>2. /\ Books(invest') /\ Books(risk') /\ feedback' \in Replies /\ Sent(nodes', feedback')
        /\ plan' \in 0 .. MaxPlans /\ decision' \in Decision
    <3>1. plan' \in 0 .. MaxPlans
      BY <2>1, GraphAssumption
    <3>2. feedback' \in Replies /\ Sent(nodes', feedback') /\ decision' \in Decision
      BY <2>1, NothingSaid, Zenon DEF Sent, Decision
    <3>3. Books(invest') /\ Books(risk')
      BY <2>1, EmptyTyped DEF Books
    <3> QED
      BY <3>1, <3>2, <3>3
  <2> QED
    BY <1>0, <1>a, <2>1, <2>2
<1>9. CASE UNCHANGED graphVars
  BY <1>0, <1>a, <1>9 DEF graphVars
<1> QED
  BY <1>1, <1>2, <1>3, <1>4, <1>5, <1>6, <1>7, <1>8, <1>9, Steps DEF GraphNext

\* At first every variable has its type.
LEMMA GraphInitTyped == GraphInit => GraphTyped
<1> SUFFICES ASSUME GraphInit PROVE GraphTyped
  OBVIOUS
<1>1. invest = EmptyDebate /\ risk = EmptyDebate /\ feedback = NoFeedback /\ plan = 0 /\ decision = NoDecision
      /\ nodes = {} /\ reports = {} /\ grun = "new" /\ fails = 0
  BY DEF GraphInit
<1>2. feedback \in Replies /\ decision \in [about : 0 .. MaxPlans, verdict : Verdicts \cup {""}] /\ fails \in 0 .. MaxFails
      /\ plan \in 0 .. MaxPlans
  <2>1. fails \in 0 .. MaxFails /\ plan \in 0 .. MaxPlans
    BY <1>1, GraphAssumption
  <2> QED
    BY <1>1, <2>1, NothingSaid, Zenon
<1>3. GraphTypeOK
  BY <1>1, <1>2, EmptyTyped, Zenon DEF GraphTypeOK, Replies
<1> QED
  BY <1>1, <1>3, EmptyTyped DEF GraphTyped

\* Every variable keeps its type: no debate has more claims than may be raised, and no plan is
\* sent back more often than the graph allows and once more.
THEOREM GraphTypeCorrect == GraphSpec => []GraphTypeOK
<1>1. GraphTyped => GraphTypeOK
  BY DEF GraphTyped
<1> QED
  BY <1>1, GraphInitTyped, GraphStepTyped, PTL DEF GraphSpec

-----------------------------------------------------------------------------
(* A fair hearing *)

\* The first n speeches of the researchers, and of the risk analysts on plan p.
Heard(n) == [i \in 1..n |-> <<IF i % 2 = 1 THEN "Bull" ELSE "Bear", 0>>]
RiskHeard(n, p) == [i \in 1..n |-> <<RiskTeam[((i - 1) % 3) + 1], p>>]

\* Where the graph is, and what has been heard by then.
Untouched == risk = EmptyDebate /\ feedback = NoFeedback /\ plan = 0 /\ decision = NoDecision

Reporting ==
    /\ nodes \subseteq Analysts /\ nodes # {} /\ reports = Analysts \ nodes
    /\ invest = EmptyDebate /\ Untouched

Debating ==
    /\ reports = Analysts /\ Untouched
    /\ invest.count \in 0..(2 * DebateRounds - 1) /\ invest.history = Heard(invest.count)
    /\ nodes = {IF invest.count % 2 = 0 THEN "Bull" ELSE "Bear"}

Argued == reports = Analysts /\ invest.history = Heard(2 * DebateRounds)

Planning ==
    /\ nodes = {"Trader"} /\ Argued
    /\ (risk = EmptyDebate /\ plan = 0) \/ feedback.latest_risk_verdict = "revise"

Weighing ==
    /\ Argued
    /\ risk.count \in 0..(3 * RiskRounds - 1) /\ risk.history = RiskHeard(risk.count, plan)
    /\ nodes = {RiskTeam[(risk.count % 3) + 1]}

Weighed == Argued /\ risk.history = RiskHeard(3 * RiskRounds, plan)

Judged == nodes = {} /\ Weighed /\ decision.about = plan

Feedbacks == [retry_count : Nat, revision_required : BOOLEAN,
              latest_risk_verdict : Verdicts \cup {""}]
Decisions == [about : Nat, verdict : Verdicts \cup {""}]

HearingInv ==
    /\ GraphInv
    /\ feedback \in Feedbacks /\ decision \in Decisions
    /\ \/ nodes = {} /\ decision = NoDecision /\ grun # "delivered"
       \/ Reporting /\ grun # "delivered"
       \/ Debating /\ grun # "delivered"
       \/ nodes = {"Research Manager"} /\ Argued /\ Untouched /\ grun # "delivered"
       \/ Planning /\ grun # "delivered"
       \/ Weighing /\ grun # "delivered"
       \/ nodes = {"Risk Judge"} /\ Weighed /\ grun # "delivered"
       \/ Judged

\* One speech more of a researcher,
LEMMA HeardNext ==
    ASSUME NEW n \in Nat
    PROVE  Append(Heard(n), <<IF n % 2 = 0 THEN "Bull" ELSE "Bear", 0>>) = Heard(n + 1)
  BY DEF Heard

\* and of a risk analyst.
LEMMA RiskHeardNext ==
    ASSUME NEW n \in Nat, NEW p
    PROVE  Append(RiskHeard(n, p), <<RiskTeam[(n % 3) + 1], p>>) = RiskHeard(n + 1, p)
  BY DEF RiskHeard

\* Before the first speech nothing was heard.
LEMMA NoneHeard == Heard(0) = <<>> /\ \A p : RiskHeard(0, p) = <<>>
<1>1. ASSUME NEW S, NEW f \in [1..0 -> S] PROVE f = <<>>
  BY <1>1, Listed, EmptySeq
<1>2. Heard(0) \in [1..0 -> {}] /\ \A p : RiskHeard(0, p) \in [1..0 -> {}]
  BY DEF Heard, RiskHeard
<1> QED
  BY <1>1, <1>2

\* Who speaks next after the (n + 1)th speech.
LEMMA DebateTurn ==
    ASSUME NEW n \in Nat, NEW d, d.count = n + 1,
           d.speaker = IF n % 2 = 0 THEN "Bull" ELSE "Bear"
    PROVE  should_continue_debate(d) =
               IF n + 1 < 2 * DebateRounds THEN IF (n + 1) % 2 = 0 THEN "Bull" ELSE "Bear"
               ELSE "Research Manager"
<1>1. 2 * DebateRounds \in Nat
  BY GraphAssumption
<1>2. (n + 1) % 2 = 0 <=> ~(n % 2 = 0)
  OBVIOUS
<1>3. d.count >= 2 * DebateRounds <=> ~(n + 1 < 2 * DebateRounds)
  BY <1>1
<1> QED
  BY <1>2, <1>3 DEF should_continue_debate

\* The same of the risk analysts.
LEMMA RiskTurn ==
    ASSUME NEW n \in Nat, NEW d, d.count = n + 1, d.speaker = RiskTeam[(n % 3) + 1]
    PROVE  should_continue_risk_analysis(d) =
               IF n + 1 < 3 * RiskRounds THEN RiskTeam[((n + 1) % 3) + 1] ELSE "Risk Judge"
<1>1. 3 * RiskRounds \in Nat
  BY GraphAssumption
<1>2. d.count >= 3 * RiskRounds <=> ~(n + 1 < 3 * RiskRounds)
  BY <1>1
<1>3. d.count < 3 * RiskRounds <=> n + 1 < 3 * RiskRounds
  BY <1>1
<1>4. \/ n % 3 = 0 /\ (n + 1) % 3 = 1
      \/ n % 3 = 1 /\ (n + 1) % 3 = 2
      \/ n % 3 = 2 /\ (n + 1) % 3 = 0
  OBVIOUS
<1> QED
  <2>1. CASE ~(n + 1 < 3 * RiskRounds)
    BY <1>2, <2>1 DEF should_continue_risk_analysis
  <2>2. CASE n + 1 < 3 * RiskRounds
    <3>1. should_continue_risk_analysis(d) =
              CASE d.speaker = "Aggressive" -> "Conservative"
                [] d.speaker = "Conservative" -> "Neutral"
                [] OTHER -> "Aggressive"
      BY <1>2, <1>3, <2>2, Zenon DEF should_continue_risk_analysis
    <3>2. \/ d.speaker = "Aggressive" /\ RiskTeam[((n + 1) % 3) + 1] = "Conservative"
          \/ d.speaker = "Conservative" /\ RiskTeam[((n + 1) % 3) + 1] = "Neutral"
          \/ d.speaker = "Neutral" /\ RiskTeam[((n + 1) % 3) + 1] = "Aggressive"
      BY <1>4 DEF RiskTeam
    <3> QED
      BY <2>2, <3>1, <3>2
  <2> QED
    BY <2>1, <2>2

\* The state a graph starts with is one of its states.
LEMMA FirstsTyped == NoFeedback \in Feedbacks /\ NoDecision \in Decisions
  BY DEF NoFeedback, NoDecision, Feedbacks, Decisions

\* At first nothing is delivered.
LEMMA HearingInit == GraphInit => HearingInv
  BY GraphInitInv, FirstsTyped DEF GraphInit, HearingInv

\* Every step leads from one phase to the next.
LEMMA HearingStep == HearingInv /\ [GraphNext]_graphVars => HearingInv'
<1> SUFFICES ASSUME HearingInv, [GraphNext]_graphVars PROVE HearingInv'
  OBVIOUS
<1>a. Analysts \cap Agents = {} /\ 2 * DebateRounds \in Nat \ {0} /\ 3 * RiskRounds \in Nat \ {0}
  <2>1. AnalystKeys \cap Agents = {}
    BY DEF AnalystKeys, Agents
  <2> QED
    BY <2>1, GraphAssumption
<1>0. /\ GraphInv /\ feedback \in Feedbacks /\ decision \in Decisions
      /\ plan \in Nat /\ invest \in AnyDebate /\ risk \in AnyDebate
  BY DEF HearingInv, GraphInv
<1>g. GraphInv'
  BY <1>0, GraphStepInv
<1>p. \/ nodes = {} /\ decision = NoDecision /\ grun # "delivered"
      \/ Reporting /\ grun # "delivered"
      \/ Debating /\ grun # "delivered"
      \/ nodes = {"Research Manager"} /\ Argued /\ Untouched /\ grun # "delivered"
      \/ Planning /\ grun # "delivered"
      \/ Weighing /\ grun # "delivered"
      \/ nodes = {"Risk Judge"} /\ Weighed /\ grun # "delivered"
      \/ Judged
  BY DEF HearingInv
<1>r. \A n \in Nat : RiskTeam[(n % 3) + 1] \in {"Aggressive", "Conservative", "Neutral"}
  BY DEF RiskTeam
\* Whose turn it is tells where the graph is.
<1>b. /\ nodes # {} /\ nodes \subseteq Analysts => Reporting
      /\ nodes = {"Bull"} \/ nodes = {"Bear"} => Debating
      /\ nodes = {"Research Manager"} => Argued /\ Untouched
      /\ nodes = {"Trader"} => Planning
      /\ nodes = {"Aggressive"} \/ nodes = {"Conservative"} \/ nodes = {"Neutral"} => Weighing
      /\ nodes = {"Risk Judge"} => Weighed
      /\ nodes \subseteq Analysts \/ \E n \in Agents : nodes = {n}
  <2>1. CASE nodes = {} /\ decision = NoDecision
    BY <2>1
  <2>2. CASE Reporting
    BY <1>a, <2>2 DEF Agents, Reporting
  <2>3. CASE Debating
    BY <1>a, <2>3 DEF Agents, Debating
  <2>4. CASE nodes = {"Research Manager"} /\ Argued /\ Untouched
    BY <1>a, <2>4 DEF Agents
  <2>5. CASE Planning
    BY <1>a, <2>5 DEF Agents, Planning
  <2>6. CASE Weighing
    <3>1. \E n \in {"Aggressive", "Conservative", "Neutral"} : nodes = {n}
      BY <1>r, <2>6 DEF Weighing
    <3> QED
      BY <1>a, <2>6, <3>1 DEF Agents
  <2>7. CASE nodes = {"Risk Judge"} /\ Weighed
    BY <1>a, <2>7 DEF Agents
  <2>8. CASE Judged
    BY <2>8 DEF Judged
  <2> QED
    BY <1>p, <2>1, <2>2, <2>3, <2>4, <2>5, <2>6, <2>7, <2>8
<1>t. /\ \A a \in Analysts : a \in nodes => Reporting
      /\ "Bull" \in nodes \/ "Bear" \in nodes => Debating
      /\ "Research Manager" \in nodes => Argued /\ Untouched
      /\ "Trader" \in nodes => Planning
      /\ "Aggressive" \in nodes \/ "Conservative" \in nodes \/ "Neutral" \in nodes => Weighing
      /\ "Risk Judge" \in nodes => Weighed
  BY <1>a, <1>b DEF Agents
\* A step that keeps what the graph holds keeps the phase.
<1>1. ASSUME UNCHANGED <<nodes, reports, invest, risk, feedback, plan, decision>>,
             grun' # "delivered" \/ grun = "delivered" \/ Judged
      PROVE  HearingInv'
  BY <1>0, <1>g, <1>p, <1>1 DEF HearingInv, Reporting, Debating, Argued, Untouched, Planning,
       Weighing, Weighed, Judged
<1>2. ASSUME NEW a \in Analysts, Analyst(a) PROVE HearingInv'
  <2>1. Reporting /\ a \in nodes /\ grun' # "delivered"
        /\ reports' = reports \cup {a} /\ nodes' = (IF nodes = {a} THEN {"Bull"} ELSE nodes \ {a})
        /\ UNCHANGED <<invest, risk, feedback, plan, decision>>
    BY <1>2, <1>t DEF Analyst, Turn
  <2>2. CASE nodes = {a}
    <3>1. Debating'
      <4>1. invest'.count = 0 /\ invest'.history = Heard(0)
        BY <2>1, NoneHeard DEF Reporting, EmptyDebate
      <4>2. 0 \in 0..(2 * DebateRounds - 1)
        BY <1>a
      <4>3. reports' = Analysts /\ Untouched' /\ nodes' = {"Bull"}
        BY <2>1, <2>2 DEF Reporting, Untouched
      <4> QED
        BY <4>1, <4>2, <4>3 DEF Debating
    <3> QED
      BY <1>0, <1>g, <2>1, <3>1 DEF HearingInv
  <2>3. CASE nodes # {a}
    <3>1. Reporting'
      BY <2>1, <2>3 DEF Reporting, Untouched
    <3> QED
      BY <1>0, <1>g, <2>1, <3>1 DEF HearingInv
  <2> QED
    BY <2>2, <2>3
<1>3. ASSUME NEW who \in {"Bull", "Bear"}, Researcher(who) PROVE HearingInv'
  <2>1. Debating /\ who \in nodes /\ grun' # "delivered"
        /\ UNCHANGED <<reports, risk, feedback, plan, decision>>
        /\ nodes' = {should_continue_debate(invest')}
    BY <1>3, <1>t DEF Researcher, Turn
  <2>2. who = (IF invest.count % 2 = 0 THEN "Bull" ELSE "Bear") /\ invest.count \in Nat /\ plan = 0
    BY <2>1 DEF Debating, Untouched
  <2>3. invest'.count = invest.count + 1 /\ invest'.speaker = who
        /\ invest'.history = Append(invest.history, <<who, plan>>)
    BY <1>3 DEF Researcher, update_debate_state_with_payload
  <2>4. invest'.history = Heard(invest.count + 1)
    BY <2>1, <2>2, <2>3, HeardNext DEF Debating
  <2>5. CASE invest.count + 1 < 2 * DebateRounds
    <3>1. nodes' = {IF (invest.count + 1) % 2 = 0 THEN "Bull" ELSE "Bear"}
      BY <2>1, <2>2, <2>3, <2>5, DebateTurn
    <3>2. invest'.count \in 0..(2 * DebateRounds - 1)
      BY <1>a, <2>2, <2>3, <2>5
    <3>3. Debating'
      BY <2>1, <2>3, <2>4, <3>1, <3>2 DEF Debating, Untouched
    <3> QED
      BY <1>0, <1>g, <2>1, <3>3 DEF HearingInv
  <2>6. CASE ~(invest.count + 1 < 2 * DebateRounds)
    <3>1. invest.count + 1 = 2 * DebateRounds
      BY <1>a, <2>1, <2>6 DEF Debating
    <3>2. nodes' = {"Research Manager"}
      BY <2>1, <2>2, <2>3, <2>6, DebateTurn
    <3>3. Argued' /\ Untouched'
      BY <2>1, <2>4, <3>1 DEF Debating, Untouched, Argued
    <3> QED
      BY <1>0, <1>g, <2>1, <3>2, <3>3 DEF HearingInv
  <2> QED
    BY <2>5, <2>6
<1>4. CASE ResearchManager
  <2>1. Argued /\ Untouched /\ grun' # "delivered" /\ nodes' = {"Trader"}
        /\ UNCHANGED <<reports, invest, risk, feedback, plan, decision>>
    BY <1>4, <1>t DEF ResearchManager, Turn
  <2>2. Planning'
    BY <2>1 DEF Planning, Argued, Untouched
  <2> QED
    BY <1>0, <1>g, <2>1, <2>2 DEF HearingInv
<1>5. CASE Trader
  <2>1. Planning /\ grun' # "delivered" /\ nodes' = {"Aggressive"}
        /\ UNCHANGED <<reports, invest, decision>>
    BY <1>5, <1>t DEF Trader, Turn
  <2>2. risk' = EmptyDebate
    BY <1>5, <2>1 DEF Trader, Planning, Argued
  <2>3. feedback' \in Feedbacks
    BY <1>0, <1>5 DEF Trader, Feedbacks
  <2>4. Weighing'
    <3>1. risk'.count = 0 /\ risk'.history = <<>>
      BY <2>2 DEF EmptyDebate
    <3>2. risk'.history = RiskHeard(0, plan')
      BY <3>1, NoneHeard
    <3>3. 0 \in 0..(3 * RiskRounds - 1)
      BY <1>a
    <3>4. nodes' = {RiskTeam[(0 % 3) + 1]}
      BY <2>1 DEF RiskTeam
    <3> QED
      BY <2>1, <3>1, <3>2, <3>3, <3>4 DEF Planning, Argued, Weighing
  <2> QED
    BY <1>0, <1>g, <2>1, <2>3, <2>4 DEF HearingInv
<1>6. ASSUME NEW who \in {"Aggressive", "Conservative", "Neutral"}, RiskDebater(who) PROVE HearingInv'
  <2>1. Weighing /\ who \in nodes /\ grun' # "delivered"
        /\ UNCHANGED <<reports, invest, feedback, plan, decision>>
        /\ nodes' = {should_continue_risk_analysis(risk')}
    BY <1>6, <1>t DEF RiskDebater, Turn
  <2>2. who = RiskTeam[(risk.count % 3) + 1] /\ risk.count \in Nat
    BY <2>1 DEF Weighing
  <2>3. risk'.count = risk.count + 1 /\ risk'.speaker = who
        /\ risk'.history = Append(risk.history, <<who, plan>>)
    BY <1>6 DEF RiskDebater, update_debate_state_with_payload
  <2>4. risk'.history = RiskHeard(risk.count + 1, plan)
    BY <2>1, <2>2, <2>3, RiskHeardNext DEF Weighing
  <2>5. CASE risk.count + 1 < 3 * RiskRounds
    <3>1. nodes' = {RiskTeam[((risk.count + 1) % 3) + 1]}
      BY <2>1, <2>2, <2>3, <2>5, RiskTurn
    <3>2. risk'.count \in 0..(3 * RiskRounds - 1)
      BY <1>a, <2>2, <2>3, <2>5
    <3>3. Weighing'
      BY <2>1, <2>3, <2>4, <3>1, <3>2 DEF Weighing, Argued
    <3> QED
      BY <1>0, <1>g, <2>1, <3>3 DEF HearingInv
  <2>6. CASE ~(risk.count + 1 < 3 * RiskRounds)
    <3>1. risk.count + 1 = 3 * RiskRounds
      BY <1>a, <2>1, <2>6 DEF Weighing
    <3>2. nodes' = {"Risk Judge"}
      BY <2>1, <2>2, <2>3, <2>6, RiskTurn
    <3>3. Weighed'
      BY <2>1, <2>4, <3>1 DEF Weighing, Weighed, Argued
    <3> QED
      BY <1>0, <1>g, <2>1, <3>2, <3>3 DEF HearingInv
  <2> QED
    BY <2>5, <2>6
<1>7. CASE RiskJudge
  <2>1. Weighed /\ grun' # "delivered" /\ UNCHANGED <<reports, invest, plan>>
        /\ risk'.history = risk.history
        /\ nodes' = should_revise_after_risk_judge(feedback')
    BY <1>0, <1>7, <1>t DEF RiskJudge, Turn, AnyDebate
  <2>2. PICK verdict \in Verdicts :
            /\ feedback' = [retry_count |-> feedback.retry_count + (IF verdict = "revise" THEN 1 ELSE 0),
                            revision_required |-> verdict = "revise",
                            latest_risk_verdict |-> verdict]
            /\ decision' = [about |-> plan, verdict |-> verdict]
    BY <1>7 DEF RiskJudge
  <2>3. feedback' \in Feedbacks /\ decision' \in Decisions /\ decision'.about = plan
    <3>1. feedback.retry_count \in Nat
      BY <1>0 DEF Feedbacks
    <3>2. feedback.retry_count + (IF verdict = "revise" THEN 1 ELSE 0) \in Nat
      BY <3>1
    <3>3. (verdict = "revise") \in BOOLEAN
      OBVIOUS
    <3> QED
      BY <1>0, <2>2, <3>2, <3>3, Zenon DEF Feedbacks, Decisions
  <2>4. Weighed'
    BY <2>1 DEF Weighed, Argued
  <2>5. CASE nodes' = {}
    <3>1. Judged'
      BY <2>1, <2>3, <2>4, <2>5 DEF Judged
    <3> QED
      BY <1>g, <2>3, <3>1 DEF HearingInv
  <2>6. CASE nodes' # {}
    <3>1. nodes' = {"Trader"} /\ feedback'.latest_risk_verdict = "revise"
      BY <2>1, <2>2, <2>6 DEF should_revise_after_risk_judge
    <3>2. Planning'
      BY <2>4, <3>1 DEF Weighed, Planning
    <3> QED
      BY <1>g, <2>1, <2>3, <3>2 DEF HearingInv
  <2> QED
    BY <2>5, <2>6
<1>8. CASE Deliver
  <2>1. Judged
    BY <1>8, <1>p DEF Deliver, Reporting, Debating, Planning, Weighing
  <2> QED
    BY <1>1, <1>8, <2>1 DEF Deliver
<1>9. CASE AttemptFails \/ ResumeGraph
  BY <1>1, <1>9 DEF AttemptFails, ResumeGraph
<1>10. CASE StartGraph
  <2>1. /\ nodes' = Analysts /\ reports' = {} /\ invest' = EmptyDebate /\ risk' = EmptyDebate
        /\ feedback' = NoFeedback /\ plan' = 0 /\ decision' = NoDecision /\ grun' # "delivered"
    BY <1>10 DEF StartGraph, create_initial_state
  <2>2. feedback' \in Feedbacks /\ decision' \in Decisions
    BY <2>1, FirstsTyped
  <2>3. nodes' = {} \/ Reporting'
    BY <2>1 DEF Reporting, Untouched
  <2> QED
    BY <1>g, <2>1, <2>2, <2>3 DEF HearingInv
<1>11. CASE UNCHANGED graphVars
  BY <1>1, <1>11 DEF graphVars
<1> QED
  BY <1>2, <1>3, <1>4, <1>5, <1>6, <1>7, <1>8, <1>9, <1>10, <1>11, Steps DEF GraphNext

\* Whatever is delivered was heard in full, for any analysts, any number of rounds,
\* any verdicts of the judge and any failures in between.
THEOREM DeliveredWasHeard == GraphSpec => []FairHearing
<1>1. HearingInv => FairHearing
  BY DEF HearingInv, Judged, Weighed, Argued, Heard, RiskHeard, FairHearing
<1> QED
  BY <1>1, HearingInit, HearingStep, PTL DEF GraphSpec

-----------------------------------------------------------------------------
(* The six workers side by side.                                           *)

\* A step of the whole is a step of one worker, and the others rest: each worker behaves
\* as it does alone.
LEMMA WorkersAsAlone ==
  /\ Init => SchedInit /\ MarketInit /\ OutInit /\ GraphInit /\ StartInit /\ MetricsInit
  /\ [Next]_allVars =>
       /\ [SchedNext]_schedVars /\ [MarketNext]_marketVars /\ [OutNext]_outVars
       /\ [GraphNext]_graphVars /\ [StartNext]_startVars /\ [MetricsNext]_metricVars
<1>1. Init => SchedInit /\ MarketInit /\ OutInit /\ GraphInit /\ StartInit /\ MetricsInit
  BY DEF Init
<1>2. ASSUME [Next]_allVars
      PROVE  /\ [SchedNext]_schedVars /\ [MarketNext]_marketVars /\ [OutNext]_outVars
             /\ [GraphNext]_graphVars /\ [StartNext]_startVars /\ [MetricsNext]_metricVars
  BY <1>2 DEF Next, allVars, Scheduling, Syncing, Scoring, Analysing, Starting, Counting
<1>3. QED
  BY <1>1, <1>2

\* What is invariant of each worker alone is invariant of the six side by side.
LEMMA WorkersAlways ==
  Spec => [](SchedInv /\ MarketInv /\ OutInv /\ GraphTyped /\ GraphInv /\ HearingInv /\ StartTyped /\ MetricsInv)
<1>1. Spec => /\ SchedInit /\ [][SchedNext]_schedVars /\ MarketInit /\ [][MarketNext]_marketVars
              /\ OutInit /\ [][OutNext]_outVars /\ GraphInit /\ [][GraphNext]_graphVars
              /\ StartInit /\ [][StartNext]_startVars /\ MetricsInit /\ [][MetricsNext]_metricVars
  BY WorkersAsAlone, PTL DEF Spec
<1>2. SchedInit /\ [][SchedNext]_schedVars => []SchedInv
  BY SchedBegins, SchedStep, PTL
<1>3. MarketInit /\ [][MarketNext]_marketVars => []MarketInv
  BY MarketStart, MarketStep, PTL
<1>4. OutInit /\ [][OutNext]_outVars => []OutInv
  BY OutStart, OutStep, PTL
<1>5. GraphInit /\ [][GraphNext]_graphVars => [](GraphTyped /\ GraphInv /\ HearingInv)
  BY GraphInitTyped, GraphStepTyped, GraphInitInv, GraphStepInv, HearingInit, HearingStep, PTL
<1>6. MetricsInit /\ [][MetricsNext]_metricVars => []MetricsInv
  BY MetricsStart, MetricsStep, PTL
<1>7. QED
  BY <1>1, <1>2, <1>3, <1>4, <1>5, <1>6, StartAlways, PTL

\* Every variable of the six workers keeps its type, for any number of stored analyses,
\* syncs, days, reports, claims, processes that start and requests.
THEOREM BackgroundTypeCorrect == Spec => []BackgroundTypeOK
<1>1. SchedInv => SchedTypeOK
  BY SchedTypesFollow
<1>2. MarketInv => MarketTypeOK
  BY DEF MarketInv, MarketTyped, MarketTypeOK
<1>3. OutInv => OutTypeOK
  BY DEF OutInv, OutTypeOK
<1>4. GraphTyped => GraphTypeOK
  BY DEF GraphTyped
<1>5. StartTyped => StartTypeOK
  BY DEF StartTyped
<1>6. MetricsInv => MetricsTypeOK
  BY DEF MetricsInv, MetricsTyped
<1>7. QED
  BY <1>1, <1>2, <1>3, <1>4, <1>5, <1>6, WorkersAlways, PTL DEF BackgroundTypeOK

\* Side by side as alone: the schedule is kept and its rows tell the truth, a tick of the
\* market-data loop leaves nothing behind, what the graph delivers was heard in full and its
\* books agree, the database is whole once every start has come to rest, a settled outcome
\* stays as it is.
THEOREM BackgroundKeepsItsPromises ==
  Spec => [](ScheduleKept /\ TickLeavesNothing /\ FairHearing /\ ClaimsAgree /\ SchemaWhole) /\ SettledStays
<1>1. SchedInv => ScheduleKept
  BY ScheduleFollows
<1>2. MarketInv => TickLeavesNothing
  BY DEF MarketInv, LastIsDone, TickLeavesNothing
<1>3. HearingInv => FairHearing
  BY DEF HearingInv, Judged, Weighed, Argued, Heard, RiskHeard, FairHearing
<1>4. GraphInv => ClaimsAgree
  BY DEF GraphInv, Agree, ClaimsAgree
<1>5. Spec => [](ScheduleKept /\ TickLeavesNothing /\ FairHearing /\ ClaimsAgree)
  BY <1>1, <1>2, <1>3, <1>4, WorkersAlways, PTL
<1>6. Spec => StartInit /\ [][StartNext]_startVars /\ OutInit /\ [][OutNext]_outVars
  BY WorkersAsAlone, PTL DEF Spec
<1>7. Spec => []SchemaWhole
  BY <1>6, SchemaAlwaysWhole DEF StartSpec
<1>8. QED
  BY <1>5, <1>6, <1>7, OutcomesSettle, PTL
=============================================================================
