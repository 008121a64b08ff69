------------------------- MODULE DataSourcesProofs -------------------------
(***************************************************************************)
(* The AkShare lock keeps its permits, the throttle its limit, and every   *)
(* route tells which vendors were asked, for any threads, vendors, permits *)
(* and limits.                                                             *)
(***************************************************************************)
EXTENDS DataSources, FiniteSetTheorems, SequenceTheorems, WellFoundedInduction, TLAPS

\* A non-empty set of natural numbers has a least element.
LEMMA LeastNatural ==
    ASSUME NEW S, S \subseteq Nat, S # {}
    PROVE  \E n \in S : \A m \in S : n <= m
<1>1. IsWellFoundedOn(OpToRel(<, Nat), Nat)
  BY NatLessThanWellFounded
<1>2. PICK n \in S : \A m \in S : <<m, n>> \notin OpToRel(<, Nat)
  BY <1>1, WFMin
<1>3. \A m \in S : <<m, n>> \in OpToRel(<, Nat) <=> m < n
  BY <1>2 DEF OpToRel
<1>4. \A m \in S : m \in Nat /\ n \in Nat /\ ~(m < n)
  BY <1>2, <1>3
<1>5. \A m \in S : n <= m
  BY <1>4
<1>6. QED
  BY <1>2, <1>5

\* The threads that hold a permit, and those that hold one for scheduled work.
Held == {t \in Fetchers : holders[t] # "none" \/ pc[t] = "enter"}
HeldScheduled == {t \in scheduledWork : holders[t] # "none" \/ pc[t] \in {"enter", "total"}}

FetchPCs == {"idle", "local", "route", "throttle", "scheduled", "total", "enter", "call", "exit"}
Words == {"none", "absent", "more", "answers", "raises", "silent"}

SourcesTyped ==
    /\ scheduledWork \subseteq Fetchers
    /\ pc \in [Fetchers -> FetchPCs] /\ outcome \in [Fetchers -> Words]
    /\ replies \in [Fetchers -> Seq(Words)]
    /\ holders \in [Fetchers -> {"none", "fresh", "stale"}]
    /\ total \in Nat /\ scheduled \in Nat

\* Only a thread inside the lock is noted, and only the lock's vendor is called there.
Placed(t) ==
    /\ pc[t] = "scheduled" => t \in scheduledWork
    /\ holders[t] # "none" => pc[t] \in {"call", "exit"}
    /\ holders[t] # "none" \/ pc[t] \in {"scheduled", "total", "enter", "exit"}
           => Vendor(t) = "cn_akshare"

PermitsCounted ==
    /\ total + Cardinality(Held) = Permits
    /\ scheduled + Cardinality(HeldScheduled) = ScheduledMax

SourcesInv == SourcesTyped /\ (\A t \in Fetchers : Placed(t)) /\ PermitsCounted

\* The threads that hold a permit of either lock are finitely many.
LEMMA HeldFinite ==
    ASSUME scheduledWork \subseteq Fetchers
    PROVE  /\ IsFiniteSet(Held) /\ Cardinality(Held) \in Nat
           /\ IsFiniteSet(HeldScheduled) /\ Cardinality(HeldScheduled) \in Nat
<1>1. Held \in SUBSET Fetchers /\ HeldScheduled \in SUBSET Fetchers /\ IsFiniteSet(Fetchers)
  BY SourcesAssumption DEF Held, HeldScheduled
<1>2. IsFiniteSet(Held) /\ IsFiniteSet(HeldScheduled)
  BY <1>1, FS_Subset
<1> QED
  BY <1>2, FS_CardinalityType

\* Before the first fetch every permit is free and nobody is in the lock.
LEMMA SourcesInitInv == SourcesInit => SourcesInv
<1> SUFFICES ASSUME SourcesInit PROVE SourcesInv
  OBVIOUS
<1>1. Held = {} /\ HeldScheduled = {}
  BY DEF SourcesInit, Held, HeldScheduled
<1>2. PermitsCounted
  BY <1>1, FS_EmptySet, SourcesAssumption DEF SourcesInit, PermitsCounted
<1>3. SourcesTyped
  BY SourcesAssumption DEF SourcesInit, SourcesTyped, FetchPCs, Words
<1>4. \A t \in Fetchers : Placed(t)
  BY DEF SourcesInit, Placed
<1> QED
  BY <1>2, <1>3, <1>4 DEF SourcesInv

\* A vendor's answer is noted at the end of its thread's replies, and of no other's.
LEMMA ReplyAppended ==
    ASSUME SourcesTyped, NEW t \in Fetchers, NEW o \in Words,
           replies' = replies \/ replies' = [replies EXCEPT ![t] = Append(@, o)]
    PROVE  replies' \in [Fetchers -> Seq(Words)] /\ \A s \in Fetchers \ {t} : replies'[s] = replies[s]
<1>1. replies \in [Fetchers -> Seq(Words)]
  BY DEF SourcesTyped
<1>2. CASE replies' = replies
  BY <1>1, <1>2
<1>3. CASE replies' = [replies EXCEPT ![t] = Append(@, o)]
  BY <1>1, <1>3
<1> QED
  BY <1>2, <1>3

\* A call of a vendor begins outside the lock, at its gate.
LEMMA GateOutside ==
    ASSUME NEW t \in Fetchers
    PROVE  /\ Gate(t) \in {"throttle", "scheduled", "total", "call"}
           /\ Gate(t) = "scheduled" => t \in scheduledWork
           /\ Gate(t) = "total" => t \notin scheduledWork
           /\ Gate(t) \in {"scheduled", "total"} => Vendor(t) = "cn_akshare"
<1>1. CASE Vendor(t) = "cn_tushare"
  BY <1>1 DEF Gate
<1>2. CASE Vendor(t) = "cn_akshare"
  BY <1>2 DEF Gate
<1>3. CASE Vendor(t) \notin {"cn_tushare", "cn_akshare"}
  BY <1>3 DEF Gate
<1> QED
  BY <1>1, <1>2, <1>3

\* Every step of a thread, a stale reclaim included, keeps the count of permits.
LEMMA SourcesStepInv == SourcesInv /\ [SourcesNext]_sourceVars => SourcesInv'
<1> SUFFICES ASSUME SourcesInv, [SourcesNext]_sourceVars PROVE SourcesInv'
  OBVIOUS
<1>0. SourcesTyped /\ (\A t \in Fetchers : Placed(t)) /\ PermitsCounted
  BY DEF SourcesInv
<1>f. /\ IsFiniteSet(Held) /\ Cardinality(Held) \in Nat
      /\ IsFiniteSet(HeldScheduled) /\ Cardinality(HeldScheduled) \in Nat
  BY <1>0, HeldFinite DEF FetchPCs, Words, SourcesTyped
\* A step that moves one thread outside the lock.
<1>1. ASSUME NEW t \in Fetchers, NEW place \in FetchPCs, holders[t] = "none", pc[t] # "enter",
             pc[t] = "total" => t \notin scheduledWork,
             pc' = [pc EXCEPT ![t] = place], UNCHANGED lockVars,
             place \in {"idle", "local", "route", "throttle", "call", "scheduled", "total", "exit"},
             place = "total" => t \notin scheduledWork, place = "scheduled" => t \in scheduledWork,
             place \in {"scheduled", "total", "exit"} => Vendor(t)' = "cn_akshare",
             replies' \in [Fetchers -> Seq(Words)], outcome' \in [Fetchers -> Words],
             \A s \in Fetchers \ {t} : replies'[s] = replies[s]
      PROVE  SourcesInv'
  <2>1. SourcesTyped'
    BY <1>0, <1>1 DEF FetchPCs, Words, SourcesTyped, lockVars
  <2>2. \A s \in Fetchers : Placed(s)'
    <3> SUFFICES ASSUME NEW s \in Fetchers PROVE Placed(s)'
      OBVIOUS
    <3>1. CASE s = t
      BY <1>0, <1>1, <3>1 DEF FetchPCs, Words, SourcesTyped, Placed, lockVars
    <3>2. CASE s # t
      <4>1. pc'[s] = pc[s] /\ replies'[s] = replies[s] /\ holders' = holders
            /\ scheduledWork' = scheduledWork
        BY <1>0, <1>1, <3>2 DEF FetchPCs, Words, SourcesTyped, lockVars
      <4> QED
        BY <1>0, <4>1 DEF Placed, Vendor
    <3> QED
      BY <3>1, <3>2
  <2>3. Held' = Held /\ HeldScheduled' = HeldScheduled
    BY <1>0, <1>1 DEF FetchPCs, Words, SourcesTyped, Held, HeldScheduled, lockVars
  <2>4. PermitsCounted'
    BY <1>0, <1>1, <2>3 DEF PermitsCounted, lockVars
  <2> QED
    BY <2>1, <2>2, <2>4 DEF SourcesInv
\* Where no permit moves, a thread steps outside the lock or not at all.
<1>2. ASSUME NEW t \in Fetchers, FetchBegins(t) PROVE SourcesInv'
  <2>1. pc[t] = "idle" /\ pc' = [pc EXCEPT ![t] = "local"] /\ UNCHANGED lockVars /\ outcome' = outcome
        /\ replies' = [replies EXCEPT ![t] = <<>>]
    BY <1>2 DEF FetchBegins, Goto
  <2>2. replies' \in [Fetchers -> Seq(Words)]
    BY <1>0, <2>1 DEF SourcesTyped
  <2>3. outcome' \in [Fetchers -> Words] /\ "local" \in FetchPCs
    BY <1>0, <2>1 DEF SourcesTyped, FetchPCs
  <2> QED
    BY <1>0, <1>1, <2>1, <2>2, <2>3 DEF SourcesTyped, Placed
<1>3. ASSUME NEW t \in Fetchers, route_with_local_first(t) PROVE SourcesInv'
  <2>1. pc[t] = "local" /\ UNCHANGED lockVars /\ outcome' = outcome /\ replies' = replies
    BY <1>3 DEF route_with_local_first
  <2>2. pc' = [pc EXCEPT ![t] = "idle"] \/ pc' = [pc EXCEPT ![t] = "route"]
    BY <1>3 DEF route_with_local_first, Goto
  <2> QED
    BY <1>0, <1>1, <2>1, <2>2 DEF FetchPCs, Words, SourcesTyped, Placed
<1>4. ASSUME NEW t \in Fetchers, SkipVendor(t) PROVE SourcesInv'
  <2>1. pc[t] = "route" /\ pc' = [pc EXCEPT ![t] = "route"] /\ UNCHANGED lockVars /\ outcome' = outcome
    BY <1>4 DEF SkipVendor, NextVendor, Goto
  <2>2. PICK r \in {"absent", "raises"} : replies' = [replies EXCEPT ![t] = Append(@, r)]
    BY <1>4 DEF SkipVendor, NextVendor
  <2>3. replies' \in [Fetchers -> Seq(Words)]
    BY <1>0, <2>2 DEF FetchPCs, Words, SourcesTyped
  <2> QED
    BY <1>0, <1>1, <2>1, <2>2, <2>3 DEF FetchPCs, Words, SourcesTyped, Placed
<1>5. ASSUME NEW t \in Fetchers, CallVendor(t) PROVE SourcesInv'
  <2>1. pc[t] = "route" /\ pc' = [pc EXCEPT ![t] = Gate(t)] /\ UNCHANGED lockVars /\ outcome' = outcome
        /\ replies' = replies
    BY <1>5 DEF CallVendor, Goto
  <2>2. Vendor(t)' = Vendor(t)
    BY <2>1 DEF Vendor
  <2> QED
    BY <1>0, <1>1, <2>1, <2>2, GateOutside DEF FetchPCs, Words, SourcesTyped, Placed
<1>6. ASSUME NEW t \in Fetchers, RouteFails(t) PROVE SourcesInv'
  <2>1. pc[t] = "route" /\ pc' = [pc EXCEPT ![t] = "idle"] /\ UNCHANGED lockVars /\ outcome' = outcome
        /\ replies' = replies
    BY <1>6 DEF RouteFails, Goto
  <2> QED
    BY <1>0, <1>1, <2>1 DEF FetchPCs, Words, SourcesTyped, Placed
<1>7. ASSUME NEW t \in Fetchers, _throttle(t) PROVE SourcesInv'
  <2>1. pc[t] = "throttle" /\ pc' = [pc EXCEPT ![t] = "call"] /\ UNCHANGED lockVars /\ outcome' = outcome
        /\ replies' = replies
    BY <1>7 DEF _throttle, Goto
  <2> QED
    BY <1>0, <1>1, <2>1 DEF FetchPCs, Words, SourcesTyped, Placed
\* Where a permit moves.
<1>8. ASSUME NEW t \in Fetchers, AcquireScheduled(t) PROVE SourcesInv'
  <2>1. /\ pc[t] = "scheduled" /\ scheduled > 0 /\ scheduled' = scheduled - 1
        /\ pc' = [pc EXCEPT ![t] = "total"]
        /\ UNCHANGED <<replies, outcome, holders, total, scheduledWork>>
    BY <1>8 DEF AcquireScheduled, Goto
  <2>2. SourcesTyped' /\ \A s \in Fetchers : Placed(s)'
    BY <1>0, <2>1 DEF FetchPCs, Words, SourcesTyped, Placed, Vendor
  <2>3. t \in scheduledWork /\ t \notin HeldScheduled
    BY <1>0, <2>1 DEF Placed, HeldScheduled
  <2>4. Held' = Held /\ HeldScheduled' = HeldScheduled \cup {t}
    BY <1>0, <2>1, <2>3 DEF FetchPCs, Words, SourcesTyped, Held, HeldScheduled
  <2>5. Cardinality(HeldScheduled') = Cardinality(HeldScheduled) + 1
    BY <1>f, <2>3, <2>4, FS_AddElement
  <2>6. PermitsCounted'
    BY <1>0, <1>f, <2>1, <2>4, <2>5 DEF PermitsCounted, SourcesTyped, FetchPCs, Words
  <2> QED
    BY <2>2, <2>6 DEF SourcesInv
<1>9. ASSUME NEW t \in Fetchers, AcquireTotal(t) PROVE SourcesInv'
  <2>1. /\ pc[t] = "total" /\ total > 0 /\ total' = total - 1
        /\ pc' = [pc EXCEPT ![t] = "enter"]
        /\ UNCHANGED <<replies, outcome, holders, scheduled, scheduledWork>>
    BY <1>9 DEF AcquireTotal, Goto
  <2>2. SourcesTyped' /\ \A s \in Fetchers : Placed(s)'
    BY <1>0, <2>1 DEF FetchPCs, Words, SourcesTyped, Placed, Vendor
  <2>3. t \notin Held
    BY <1>0, <2>1 DEF Placed, Held
  <2>4. Held' = Held \cup {t} /\ HeldScheduled' = HeldScheduled
    BY <1>0, <2>1 DEF FetchPCs, Words, SourcesTyped, Held, HeldScheduled
  <2>5. Cardinality(Held') = Cardinality(Held) + 1
    BY <1>f, <2>3, <2>4, FS_AddElement
  <2>6. PermitsCounted'
    BY <1>0, <1>f, <2>1, <2>4, <2>5 DEF PermitsCounted, SourcesTyped, FetchPCs, Words
  <2> QED
    BY <2>2, <2>6 DEF SourcesInv
<1>10. ASSUME NEW t \in Fetchers, EnterNoted(t) PROVE SourcesInv'
  <2>1. /\ pc[t] = "enter" /\ holders' = [holders EXCEPT ![t] = "fresh"]
        /\ pc' = [pc EXCEPT ![t] = "call"]
        /\ UNCHANGED <<replies, outcome, total, scheduled, scheduledWork>>
    BY <1>10 DEF EnterNoted, Goto
  <2>2. SourcesTyped' /\ \A s \in Fetchers : Placed(s)'
    BY <1>0, <2>1 DEF FetchPCs, Words, SourcesTyped, Placed, Vendor
  <2>3. Held' = Held /\ HeldScheduled' = HeldScheduled
    BY <1>0, <2>1 DEF FetchPCs, Words, SourcesTyped, Held, HeldScheduled
  <2> QED
    BY <1>0, <2>1, <2>2, <2>3 DEF SourcesInv, PermitsCounted
<1>11. ASSUME NEW t \in Fetchers, GoesStale(t) PROVE SourcesInv'
  <2>1. /\ holders[t] = "fresh" /\ holders' = [holders EXCEPT ![t] = "stale"]
        /\ UNCHANGED <<pc, replies, outcome, total, scheduled, scheduledWork>>
    BY <1>11 DEF GoesStale
  <2>2. SourcesTyped' /\ \A s \in Fetchers : Placed(s)'
    BY <1>0, <2>1 DEF FetchPCs, Words, SourcesTyped, Placed, Vendor
  <2>3. Held' = Held /\ HeldScheduled' = HeldScheduled
    BY <1>0, <2>1 DEF FetchPCs, Words, SourcesTyped, Held, HeldScheduled
  <2> QED
    BY <1>0, <2>1, <2>2, <2>3 DEF SourcesInv, PermitsCounted
<1>12. ASSUME NEW t \in Fetchers, _reclaim_stale(t) PROVE SourcesInv'
  <2>1. /\ holders' = [s \in Fetchers |-> IF s \in Stale THEN "none" ELSE holders[s]]
        /\ total' = total + Cardinality(Stale)
        /\ scheduled' = scheduled + Cardinality(Stale \cap scheduledWork)
        /\ UNCHANGED <<pc, replies, outcome, scheduledWork>>
    BY <1>12 DEF _reclaim_stale
  <2>2. Stale \subseteq Held /\ Stale \cap scheduledWork \subseteq HeldScheduled
    BY DEF Stale, Held, HeldScheduled
  <2>3. /\ Stale \in SUBSET Held /\ Stale \cap scheduledWork \in SUBSET HeldScheduled
        /\ Held \cap Stale = Stale
        /\ HeldScheduled \cap (Stale \cap scheduledWork) = Stale \cap scheduledWork
    BY <2>2
  <2>4. IsFiniteSet(Stale) /\ IsFiniteSet(Stale \cap scheduledWork)
    BY <1>f, <2>3, FS_Subset
  <2>5. Cardinality(Stale) \in Nat /\ Cardinality(Stale \cap scheduledWork) \in Nat
    BY <2>4, FS_CardinalityType
  <2>6. Held' = Held \ Stale /\ HeldScheduled' = HeldScheduled \ (Stale \cap scheduledWork)
    <3>1. \A s \in Fetchers : s \in Stale => pc[s] \notin {"enter", "total"}
      BY <1>0 DEF Stale, Placed
    <3> QED
      BY <1>0, <2>1, <3>1 DEF FetchPCs, Words, SourcesTyped, Held, HeldScheduled
  <2>7. Cardinality(Held') = Cardinality(Held) - Cardinality(Stale)
    BY <1>f, <2>3, <2>6, FS_Difference
  <2>8. Cardinality(HeldScheduled') = Cardinality(HeldScheduled) - Cardinality(Stale \cap scheduledWork)
    <3> DEFINE mine == Stale \cap scheduledWork
    <3>1. HeldScheduled' = HeldScheduled \ mine /\ HeldScheduled \cap mine = mine
      BY <2>3, <2>6
    <3> HIDE DEF mine
    <3>2. Cardinality(HeldScheduled \ mine) = Cardinality(HeldScheduled) - Cardinality(HeldScheduled \cap mine)
      BY <1>f, FS_Difference
    <3>3. Cardinality(HeldScheduled') = Cardinality(HeldScheduled) - Cardinality(mine)
      BY <3>1, <3>2
    <3> QED
      BY <3>3 DEF mine
  <2>9. PermitsCounted'
    BY <1>0, <1>f, <2>1, <2>5, <2>7, <2>8 DEF PermitsCounted, SourcesTyped, FetchPCs, Words
  <2>10. SourcesTyped'
    BY <1>0, <2>1, <2>5 DEF FetchPCs, Words, SourcesTyped
  <2>11. \A s \in Fetchers : Placed(s)'
    BY <1>0, <2>1 DEF FetchPCs, Words, SourcesTyped, Placed, Vendor
  <2> QED
    BY <2>9, <2>10, <2>11 DEF SourcesInv
<1>13. ASSUME NEW t \in Fetchers, LockTimesOut(t) PROVE SourcesInv'
  <2>1. /\ pc' = [pc EXCEPT ![t] = "route"] /\ replies' = [replies EXCEPT ![t] = Append(@, "raises")]
        /\ UNCHANGED <<outcome, holders, total, scheduledWork>>
        /\ \/ pc[t] = "scheduled" /\ scheduled' = scheduled
           \/ pc[t] = "total" /\ scheduled' = IF t \in scheduledWork THEN scheduled + 1 ELSE scheduled
    BY <1>13 DEF LockTimesOut, NextVendor, Goto
  <2>2. replies' \in [Fetchers -> Seq(Words)] /\ \A s \in Fetchers \ {t} : replies'[s] = replies[s]
    BY <1>0, <2>1 DEF FetchPCs, Words, SourcesTyped
  <2>3. holders[t] = "none"
    BY <1>0, <2>1 DEF Placed
  <2>4. CASE pc[t] = "scheduled" \/ t \notin scheduledWork
    <3>1. UNCHANGED lockVars
      BY <2>1, <2>4 DEF lockVars
    <3> QED
      BY <1>0, <1>1, <2>1, <2>2, <2>3, <2>4, <3>1 DEF FetchPCs, Words, SourcesTyped
  <2>5. CASE pc[t] = "total" /\ t \in scheduledWork
    <3>1. scheduled' = scheduled + 1
      BY <2>1, <2>5
    <3>2. SourcesTyped'
      BY <1>0, <2>1, <2>2, <3>1 DEF FetchPCs, Words, SourcesTyped
    <3>3. \A s \in Fetchers : Placed(s)'
      BY <1>0, <2>1, <2>2, <2>3 DEF FetchPCs, Words, SourcesTyped, Placed, Vendor
    <3>4. Held' = Held /\ HeldScheduled' = HeldScheduled \ {t} /\ t \in HeldScheduled
      BY <1>0, <2>1, <2>3, <2>5 DEF FetchPCs, Words, SourcesTyped, Held, HeldScheduled
    <3>5. Cardinality(HeldScheduled') = Cardinality(HeldScheduled) - 1
      BY <1>f, <3>4, FS_RemoveElement
    <3>6. PermitsCounted'
      BY <1>0, <1>f, <2>1, <3>1, <3>4, <3>5 DEF PermitsCounted, SourcesTyped, FetchPCs, Words
    <3> QED
      BY <3>2, <3>3, <3>6 DEF SourcesInv
  <2> QED
    BY <2>1, <2>4, <2>5
\* Where a call goes when it has ended.
<1>14. ASSUME NEW t \in Fetchers, NEW o \in Words, Answered(t, o)
       PROVE  \E place \in {"idle", "route", "throttle", "scheduled", "total", "call"} :
                  /\ pc' = [pc EXCEPT ![t] = place]
                  /\ place = "total" => t \notin scheduledWork
                  /\ place = "scheduled" => t \in scheduledWork
                  /\ place \in {"scheduled", "total"} => Vendor(t)' = "cn_akshare"
                  /\ replies' = replies \/ replies' = [replies EXCEPT ![t] = Append(@, o)]
  <2>1. CASE o = "more"
    <3>1. pc' = [pc EXCEPT ![t] = Gate(t)] /\ replies' = replies
      BY <1>14, <2>1 DEF Answered, Goto
    <3>2. Vendor(t)' = Vendor(t)
      BY <3>1 DEF Vendor
    <3> QED
      BY <3>1, <3>2, GateOutside
  <2>2. CASE o = "answers"
    <3>1. pc' = [pc EXCEPT ![t] = "idle"] /\ replies' = replies
      BY <1>14, <2>2 DEF Answered, Goto
    <3> QED
      BY <3>1
  <2>3. CASE o \notin {"more", "answers"}
    <3>1. pc' = [pc EXCEPT ![t] = "route"] /\ replies' = [replies EXCEPT ![t] = Append(@, o)]
      BY <1>14, <2>3 DEF Answered, NextVendor, Goto
    <3> QED
      BY <3>1
  <2> QED
    BY <2>1, <2>2, <2>3
<1>15. ASSUME NEW t \in Fetchers, CallReturns(t) PROVE SourcesInv'
  <2>1. pc[t] = "call" /\ UNCHANGED lockVars
    BY <1>15 DEF CallReturns
  <2>2. CASE Vendor(t) = "cn_akshare"
    <3>1. PICK o \in {"more", "answers", "raises", "silent"} :
              outcome' = [outcome EXCEPT ![t] = o] /\ pc' = [pc EXCEPT ![t] = "exit"] /\ replies' = replies
      BY <1>15, <2>2 DEF CallReturns, Goto
    <3>2. SourcesTyped'
      BY <1>0, <2>1, <3>1 DEF FetchPCs, Words, SourcesTyped, lockVars
    <3>3. \A s \in Fetchers : Placed(s)'
      BY <1>0, <2>1, <2>2, <3>1 DEF FetchPCs, Words, SourcesTyped, Placed, Vendor, lockVars
    <3>4. Held' = Held /\ HeldScheduled' = HeldScheduled
      BY <1>0, <2>1, <3>1 DEF FetchPCs, Words, SourcesTyped, Held, HeldScheduled, lockVars
    <3> QED
      BY <1>0, <2>1, <3>2, <3>3, <3>4 DEF SourcesInv, PermitsCounted, lockVars
  <2>3. CASE Vendor(t) # "cn_akshare"
    <3>1. holders[t] = "none"
      BY <1>0, <2>3 DEF Placed
    <3>2. PICK o \in {"more", "answers", "raises", "silent"} : Answered(t, o) /\ outcome' = outcome
      BY <1>15, <2>3 DEF CallReturns
    <3>3. PICK place \in {"idle", "route", "throttle", "scheduled", "total", "call"} :
              /\ pc' = [pc EXCEPT ![t] = place]
              /\ place = "total" => t \notin scheduledWork
              /\ place = "scheduled" => t \in scheduledWork
              /\ place \in {"scheduled", "total"} => Vendor(t)' = "cn_akshare"
              /\ replies' = replies \/ replies' = [replies EXCEPT ![t] = Append(@, o)]
      BY <1>14, <3>2 DEF Words
    <3>4. replies' \in [Fetchers -> Seq(Words)] /\ \A s \in Fetchers \ {t} : replies'[s] = replies[s]
      <4>1. o \in Words
        BY DEF Words
      <4> QED
        BY <1>0, <3>3, <4>1, ReplyAppended
    <3> QED
      BY <1>0, <1>1, <2>1, <3>1, <3>2, <3>3, <3>4 DEF FetchPCs, Words, SourcesTyped
  <2> QED
    BY <2>2, <2>3
<1>16. ASSUME NEW t \in Fetchers, LeaveLock(t) PROVE SourcesInv'
  <2>1. /\ pc[t] = "exit" /\ holders' = [holders EXCEPT ![t] = "none"]
        /\ outcome' = [outcome EXCEPT ![t] = "none"] /\ scheduledWork' = scheduledWork
        /\ IF holders[t] # "none"
           THEN /\ total' = total + 1
                /\ scheduled' = IF t \in scheduledWork THEN scheduled + 1 ELSE scheduled
           ELSE UNCHANGED <<total, scheduled>>
    BY <1>16 DEF LeaveLock
  <2>2. outcome[t] \in Words /\ Answered(t, outcome[t])
    BY <1>0, <1>16 DEF LeaveLock, SourcesTyped, FetchPCs, Words
  <2>3. PICK place \in {"idle", "route", "throttle", "scheduled", "total", "call"} :
              /\ pc' = [pc EXCEPT ![t] = place]
              /\ place = "total" => t \notin scheduledWork
              /\ place = "scheduled" => t \in scheduledWork
              /\ place \in {"scheduled", "total"} => Vendor(t)' = "cn_akshare"
              /\ replies' = replies \/ replies' = [replies EXCEPT ![t] = Append(@, outcome[t])]
    BY <1>14, <2>2
  <2>4. replies' \in [Fetchers -> Seq(Words)] /\ \A s \in Fetchers \ {t} : replies'[s] = replies[s]
    BY <1>0, <2>2, <2>3, ReplyAppended
  <2>5. SourcesTyped'
    <3>1. pc' \in [Fetchers -> FetchPCs]
      BY <1>0, <2>3 DEF SourcesTyped, FetchPCs
    <3>2. holders' \in [Fetchers -> {"none", "fresh", "stale"}]
      BY <1>0, <2>1 DEF SourcesTyped
    <3>3. outcome' \in [Fetchers -> Words]
      BY <1>0, <2>1 DEF SourcesTyped, Words
    <3>4. total' \in Nat /\ scheduled' \in Nat
      BY <1>0, <2>1 DEF SourcesTyped
    <3> QED
      BY <1>0, <2>1, <2>4, <3>1, <3>2, <3>3, <3>4 DEF SourcesTyped
  <2>6. \A s \in Fetchers : Placed(s)'
    <3> SUFFICES ASSUME NEW s \in Fetchers PROVE Placed(s)'
      OBVIOUS
    <3>1. CASE s = t
      BY <1>0, <2>1, <2>3, <3>1 DEF FetchPCs, Words, SourcesTyped, Placed
    <3>2. CASE s # t
      <4>1. pc'[s] = pc[s] /\ replies'[s] = replies[s] /\ holders'[s] = holders[s]
        BY <1>0, <2>1, <2>3, <2>4, <3>2 DEF FetchPCs, Words, SourcesTyped
      <4> QED
        BY <1>0, <2>1, <4>1 DEF Placed, Vendor
    <3> QED
      BY <3>1, <3>2
  <2>7. Held' = Held \ {t} /\ HeldScheduled' = HeldScheduled \ {t}
    BY <1>0, <2>1, <2>3 DEF FetchPCs, Words, SourcesTyped, Held, HeldScheduled
  <2>8. /\ t \in Held <=> holders[t] # "none"
        /\ t \in HeldScheduled <=> holders[t] # "none" /\ t \in scheduledWork
    BY <2>1 DEF Held, HeldScheduled
  <2>9. /\ Cardinality(Held') = IF t \in Held THEN Cardinality(Held) - 1 ELSE Cardinality(Held)
        /\ Cardinality(HeldScheduled') =
               IF t \in HeldScheduled THEN Cardinality(HeldScheduled) - 1 ELSE Cardinality(HeldScheduled)
    BY <1>f, <2>7, FS_RemoveElement
  <2>10. PermitsCounted'
    BY <1>0, <1>f, <2>1, <2>8, <2>9 DEF PermitsCounted, SourcesTyped, FetchPCs, Words
  <2> QED
    BY <2>5, <2>6, <2>10 DEF SourcesInv
<1>17. CASE SourceTick \/ UNCHANGED sourceVars
  <2>1. UNCHANGED <<pc, replies, outcome, lockVars>>
    BY <1>17 DEF SourceTick, sourceVars, lockVars
  <2> QED
    BY <1>0, <2>1 DEF SourcesInv, SourcesTyped, Placed, Vendor, PermitsCounted, Held, HeldScheduled, lockVars
<1> QED
  BY <1>2, <1>3, <1>4, <1>5, <1>6, <1>7, <1>8, <1>9, <1>10, <1>11, <1>12, <1>13, <1>15, <1>16,
     <1>17 DEF SourcesNext

\* No permit of the lock is lost and none is released twice, with any threads and
\* whatever the vendors' calls do.
THEOREM PermitsAreKept == SourcesSpec => []PermitsKept
<1>1. SourcesInv => PermitsKept
  <2> SUFFICES ASSUME SourcesInv PROVE PermitsKept
    OBVIOUS
  <2> DEFINE noted == {t \in Fetchers : holders[t] # "none"}
             entering == {t \in Fetchers : pc[t] = "enter"}
             halfway == {t \in Fetchers : pc[t] = "total"}
  <2>1. Held = noted \cup entering /\ noted \cap entering = {}
    BY DEF SourcesInv, Held, Placed
  <2>2. HeldScheduled = (noted \cup entering \cup halfway) \cap scheduledWork
    BY DEF SourcesInv, SourcesTyped, HeldScheduled
  <2>3. IsFiniteSet(Fetchers) /\ noted \in SUBSET Fetchers /\ entering \in SUBSET Fetchers
    BY SourcesAssumption
  <2>4. IsFiniteSet(noted) /\ IsFiniteSet(entering)
    BY <2>3, FS_Subset
  <2>5. Cardinality(noted) \in Nat /\ Cardinality(entering) \in Nat
    BY <2>4, FS_CardinalityType
  <2>6. Cardinality(Held) = Cardinality(noted) + Cardinality(entering) - Cardinality({})
    BY <2>1, <2>4, FS_Union
  <2>7. Cardinality(Held) = Cardinality(noted) + Cardinality(entering)
    BY <2>5, <2>6, FS_EmptySet
  <2> HIDE DEF noted, entering
  <2>8. total + Cardinality(noted) + Cardinality(entering) = Permits
    BY <2>5, <2>7 DEF SourcesInv, SourcesTyped, PermitsCounted
  <2> USE DEF noted, entering
  <2> QED
    BY <2>2, <2>8 DEF SourcesInv, PermitsCounted, PermitsKept
<1> QED
  BY <1>1, SourcesInitInv, SourcesStepInv, PTL DEF SourcesSpec

-----------------------------------------------------------------------------
(* The throttle.                                                           *)

\* The list of a throttle is the end of the history of calls, no longer than the limit;
\* what was pruned is out of the window, and the history is in the order of time.
RateInv ==
    /\ calls \in Seq(0..MaxTicks) /\ called \in Seq(0..MaxTicks) /\ clock \in 0..MaxTicks
    /\ Len(calls) <= RateLimit /\ Len(calls) <= Len(called)
    /\ \A n \in 1..Len(calls) : calls[n] = called[Len(called) - Len(calls) + n]
    /\ \A n \in 1..Len(called) : called[n] <= clock
    /\ \A n \in 1..(Len(called) - Len(calls)) : clock - called[n] >= Window
    /\ \A m, n \in 1..Len(called) : m <= n => called[m] <= called[n]
    /\ RateKept

\* A set of places that has, with a place, all before it, is all up to one.
LEMMA InitialSegment ==
    ASSUME NEW N \in Nat, NEW S, S \subseteq 1..N,
           \A n \in S : \A m \in 1..n : m \in S
    PROVE  Cardinality(S) \in 0..N /\ S = 1..Cardinality(S)
<1> DEFINE Beyond == {n \in 1..(N + 1) : n \notin S}
<1>1. N + 1 \in Beyond /\ Beyond \subseteq Nat
  OBVIOUS
<1>2. PICK n \in Beyond : \A m \in Beyond : n <= m
  <2> HIDE DEF Beyond
  <2> QED
    BY <1>1, LeastNatural
<1>3. S = 1..(n - 1) /\ n - 1 \in 0..N
  <2>1. \A m \in S : m \in 1..(n - 1)
    <3> SUFFICES ASSUME NEW m \in S, m >= n PROVE FALSE
      OBVIOUS
    <3> QED
      BY <1>2
  <2>2. \A m \in 1..(n - 1) : m \in S
    BY <1>2
  <2>3. n - 1 \in 0..N
    BY <1>2
  <2> HIDE DEF Beyond
  <2> QED
    BY <2>1, <2>2, <2>3
<1>4. Cardinality(1..(n - 1)) = n - 1
  BY <1>2, FS_Interval
<1> QED
  BY <1>3, <1>4

\* What the pruned list is: the calls of the window.
LEMMA PrunedList ==
    ASSUME RateInv
    PROVE  \E k \in 0..Len(calls) :
              /\ Recent(calls) \in Seq(0..MaxTicks) /\ Len(Recent(calls)) = Len(calls) - k
              /\ \A n \in 1..(Len(calls) - k) : Recent(calls)[n] = calls[n + k]
              /\ \A n \in 1..k : clock - calls[n] >= Window
<1> DEFINE old == {n \in DOMAIN calls : clock - calls[n] >= Window}
           k == Cardinality(old)
<1>1. /\ calls \in Seq(0..MaxTicks) /\ DOMAIN calls = 1..Len(calls) /\ Len(calls) \in Nat
      /\ \A n \in 1..Len(calls) : calls[n] \in Nat /\ calls[n] \in 0..MaxTicks
      /\ clock \in Nat /\ Window \in Nat
  BY SourcesAssumption DEF RateInv
<1>2. \A m, n \in 1..Len(calls) : m <= n => calls[m] <= calls[n]
  <2> SUFFICES ASSUME NEW m \in 1..Len(calls), NEW n \in 1..Len(calls), m <= n
               PROVE  calls[m] <= calls[n]
    OBVIOUS
  <2> DEFINE gone == Len(called) - Len(calls)
  <2>1. gone + m \in 1..Len(called) /\ gone + n \in 1..Len(called) /\ gone + m <= gone + n
    BY <1>1 DEF RateInv
  <2> QED
    BY <2>1 DEF RateInv
<1>3. old \subseteq 1..Len(calls)
  BY <1>1
<1>4. \A n \in old : \A m \in 1..n : m \in old
  <2> SUFFICES ASSUME NEW n \in old, NEW m \in 1..n PROVE m \in old
    OBVIOUS
  <2>1. m \in 1..Len(calls) /\ n \in 1..Len(calls) /\ m <= n
    BY <1>1
  <2>2. calls[m] <= calls[n] /\ clock - calls[n] >= Window
    BY <1>2, <2>1
  <2> QED
    BY <1>1, <2>1, <2>2
<1>5. k \in 0..Len(calls) /\ old = 1..k
  <2> HIDE DEF old
  <2> QED
    BY <1>1, <1>3, <1>4, InitialSegment
<1>6. Recent(calls) = SubSeq(calls, k + 1, Len(calls))
  BY DEF Recent
<1>7. \A n \in 1..k : clock - calls[n] >= Window
  BY <1>5
<1> HIDE DEF k
<1>8. /\ Recent(calls) \in Seq(0..MaxTicks) /\ Len(Recent(calls)) = Len(calls) - k
      /\ \A n \in 1..(Len(calls) - k) : Recent(calls)[n] = calls[n + k]
  <2>1. k \in Nat /\ k <= Len(calls) /\ Len(calls) \in Nat /\ calls \in Seq(0..MaxTicks)
    BY <1>1, <1>5
  <2>2. ASSUME NEW i \in (k + 1)..Len(calls) PROVE calls[i] \in 0..MaxTicks
    <3>1. i \in 1..Len(calls)
      BY <2>1
    <3> QED
      BY <1>1, <3>1
  <2>3. /\ SubSeq(calls, k + 1, Len(calls)) \in Seq(0..MaxTicks)
        /\ Len(SubSeq(calls, k + 1, Len(calls))) =
               IF k + 1 <= Len(calls) THEN Len(calls) - (k + 1) + 1 ELSE 0
        /\ \A i \in 1..(Len(calls) - (k + 1) + 1) :
               SubSeq(calls, k + 1, Len(calls))[i] = calls[(k + 1) + i - 1]
    <3>1. k + 1 \in Int /\ Len(calls) \in Int
      BY <2>1
    <3> QED
      BY <2>2, <3>1, SubSeqProperties
  <2>4. \A n \in 1..(Len(calls) - k) : n \in 1..(Len(calls) - (k + 1) + 1) /\ (k + 1) + n - 1 = n + k
    BY <2>1
  <2> QED
    BY <1>6, <2>1, <2>3, <2>4
<1> QED
  BY <1>5, <1>7, <1>8

\* A call is let through.
LEMMA ThrottleKeeps ==
    ASSUME RateInv, NEW t \in Fetchers, _throttle(t)
    PROVE  RateInv'
<1>1. /\ calls \in Seq(0..MaxTicks) /\ called \in Seq(0..MaxTicks) /\ clock \in 0..MaxTicks
      /\ Len(calls) \in Nat /\ Len(called) \in Nat /\ clock \in Nat /\ Window \in Nat
      /\ RateLimit \in Nat /\ RateLimit >= 1 /\ Len(calls) <= Len(called)
      /\ \A n \in 1..Len(called) : called[n] \in Nat /\ called[n] <= clock
  BY SourcesAssumption DEF RateInv
<1> DEFINE list == Recent(calls)
           gone == Len(called) - Len(list)
<1>2. PICK k \in 0..Len(calls) :
         /\ list \in Seq(0..MaxTicks) /\ Len(list) = Len(calls) - k
         /\ \A n \in 1..(Len(calls) - k) : list[n] = calls[n + k]
         /\ \A n \in 1..k : clock - calls[n] >= Window
  BY PrunedList
<1>3. /\ Len(list) < RateLimit /\ calls' = Append(list, clock) /\ called' = Append(called, clock)
      /\ clock' = clock
  BY DEF _throttle
<1> HIDE DEF list
<1>4. /\ Len(list) \in Nat /\ Len(list) <= Len(called) /\ gone \in Nat
      /\ gone = (Len(called) - Len(calls)) + k
  BY <1>1, <1>2
<1>5. /\ calls' \in Seq(0..MaxTicks) /\ called' \in Seq(0..MaxTicks)
      /\ Len(calls') = Len(list) + 1 /\ Len(called') = Len(called) + 1
      /\ \A n \in 1..Len(list) : calls'[n] = list[n]
      /\ \A n \in 1..Len(called) : called'[n] = called[n]
      /\ calls'[Len(list) + 1] = clock /\ called'[Len(called) + 1] = clock
  BY <1>1, <1>2, <1>3
<1>6. \A n \in 1..Len(list) : list[n] = called[gone + n]
  <2> SUFFICES ASSUME NEW n \in 1..Len(list) PROVE list[n] = called[gone + n]
    OBVIOUS
  <2>1. n + k \in 1..Len(calls) /\ n \in 1..(Len(calls) - k)
    BY <1>1, <1>2
  <2>2. calls[n + k] = called[Len(called) - Len(calls) + (n + k)]
    BY <2>1 DEF RateInv
  <2>3. Len(called) - Len(calls) + (n + k) = gone + n
    BY <1>1, <1>2, <1>4
  <2> QED
    BY <1>2, <2>1, <2>2, <2>3
<1>7. \A n \in 1..gone : clock - called[n] >= Window
  <2> SUFFICES ASSUME NEW n \in 1..gone PROVE clock - called[n] >= Window
    OBVIOUS
  <2>1. CASE n <= Len(called) - Len(calls)
    BY <1>1, <2>1 DEF RateInv
  <2>2. CASE n > Len(called) - Len(calls)
    <3> DEFINE i == n - (Len(called) - Len(calls))
    <3>1. i \in 1..k /\ i \in 1..Len(calls) /\ Len(called) - Len(calls) + i = n
      BY <1>1, <1>4, <2>2
    <3>2. calls[i] = called[Len(called) - Len(calls) + i]
      BY <3>1 DEF RateInv
    <3> QED
      BY <1>2, <3>1, <3>2
  <2> QED
    BY <1>1, <1>4, <2>1, <2>2
<1>8. \A n \in 1..Len(calls') : calls'[n] = called'[Len(called') - Len(calls') + n]
  <2> SUFFICES ASSUME NEW n \in 1..Len(calls') PROVE calls'[n] = called'[gone + n]
    <3>1. Len(called') - Len(calls') = gone
      BY <1>1, <1>4, <1>5
    <3> HIDE DEF gone
    <3> QED
      BY <3>1
  <2>1. CASE n = Len(list) + 1
    BY <1>1, <1>4, <1>5, <2>1
  <2>2. CASE n # Len(list) + 1
    <3>1. n \in 1..Len(list) /\ gone + n \in 1..Len(called)
      BY <1>1, <1>4, <1>5, <2>2
    <3> QED
      BY <1>5, <1>6, <3>1
  <2> QED
    BY <2>1, <2>2
<1>9. \A n \in 1..Len(called') : called'[n] <= clock'
  BY <1>1, <1>3, <1>5
<1>10. \A n \in 1..(Len(called') - Len(calls')) : clock' - called'[n] >= Window
  <2>1. Len(called') - Len(calls') = gone /\ gone <= Len(called)
    BY <1>1, <1>4, <1>5
  <2> QED
    BY <1>1, <1>3, <1>4, <1>5, <1>7, <2>1
<1>11. \A m, n \in 1..Len(called') : m <= n => called'[m] <= called'[n]
  <2> SUFFICES ASSUME NEW m \in 1..Len(called'), NEW n \in 1..Len(called'), m <= n
               PROVE  called'[m] <= called'[n]
    OBVIOUS
  <2>1. CASE n = Len(called) + 1
    BY <1>3, <1>5, <1>9, <2>1
  <2>2. CASE n # Len(called) + 1
    <3>1. m \in 1..Len(called) /\ n \in 1..Len(called)
      BY <1>1, <1>5, <2>2
    <3> QED
      BY <1>5, <3>1 DEF RateInv
  <2> QED
    BY <2>1, <2>2
<1>12. RateKept'
  <2> SUFFICES ASSUME NEW n \in 1..Len(called'), n > RateLimit
               PROVE  called'[n] - called'[n - RateLimit] >= Window
    BY DEF RateKept
  <2>1. n - RateLimit \in 1..Len(called)
    BY <1>1, <1>5
  <2>2. CASE n = Len(called) + 1
    <3>1. n - RateLimit \in 1..gone
      BY <1>1, <1>3, <1>4, <2>1, <2>2
    <3> QED
      BY <1>5, <1>7, <2>1, <2>2, <3>1
  <2>3. CASE n # Len(called) + 1
    <3>1. n \in Nat /\ 1 <= n /\ n <= Len(called) + 1
      BY <1>5
    <3>2. n \in 1..Len(called)
      BY <1>1, <2>3, <3>1
    <3> QED
      BY <1>5, <2>1, <3>2 DEF RateInv, RateKept
  <2> QED
    BY <2>2, <2>3
<1>13. Len(calls') <= RateLimit /\ Len(calls') <= Len(called')
  BY <1>1, <1>3, <1>4, <1>5
<1> QED
  BY <1>1, <1>3, <1>5, <1>8, <1>9, <1>10, <1>11, <1>12, <1>13 DEF RateInv

\* Time goes by.
LEMMA TickKeeps ==
    ASSUME RateInv, SourceTick
    PROVE  RateInv'
<1>1. clock' = clock + 1 /\ clock' \in 0..MaxTicks /\ calls' = calls /\ called' = called
  BY SourcesAssumption DEF SourceTick, RateInv
<1>2. /\ clock \in Nat /\ Window \in Nat /\ Len(called) \in Nat /\ Len(calls) \in Nat
      /\ \A n \in 1..Len(called) : called[n] \in Nat
  BY SourcesAssumption DEF RateInv
<1>3. \A n \in 1..Len(called) : called[n] <= clock + 1
  BY <1>2 DEF RateInv
<1>4. \A n \in 1..(Len(called) - Len(calls)) : clock + 1 - called[n] >= Window
  <2> SUFFICES ASSUME NEW n \in 1..(Len(called) - Len(calls)) PROVE clock + 1 - called[n] >= Window
    OBVIOUS
  <2>1. n \in 1..Len(called) /\ clock - called[n] >= Window
    BY <1>2 DEF RateInv
  <2> QED
    BY <1>2, <2>1
<1>5. Len(calls) <= RateLimit /\ Len(calls) <= Len(called)
  BY DEF RateInv
<1>6. RateKept'
  BY <1>1 DEF RateInv, RateKept
<1>7. \A n \in 1..Len(called') : called'[n] <= clock'
  BY <1>1, <1>3
<1>8. \A n \in 1..(Len(called') - Len(calls')) : clock' - called'[n] >= Window
  <2> SUFFICES ASSUME NEW n \in 1..(Len(called') - Len(calls')) PROVE clock' - called'[n] >= Window
    OBVIOUS
  <2>1. n \in 1..(Len(called) - Len(calls)) /\ called'[n] = called[n] /\ clock' = clock + 1
    BY <1>1
  <2>2. clock + 1 - called[n] >= Window
    BY <1>4, <2>1
  <2>3. clock \in Nat /\ Window \in Nat /\ called[n] \in Nat
    BY <1>2, <1>5, <2>1
  <2> QED
    BY <2>1, <2>2, <2>3
<1> QED
  BY <1>1, <1>5, <1>6, <1>7, <1>8 DEF RateInv

\* The calls of the metered vendor stay spaced through every step: only a throttle lets
\* one through and prunes what it has seen, and time only makes room.
LEMMA RateStep == RateInv /\ [SourcesNext]_sourceVars => RateInv'
<1> SUFFICES ASSUME RateInv, [SourcesNext]_sourceVars PROVE RateInv'
  OBVIOUS
<1>1. ASSUME UNCHANGED rateVars PROVE RateInv'
  BY <1>1 DEF RateInv, RateKept, rateVars
<1>2. CASE SourceTick
  BY <1>2, TickKeeps
<1>3. ASSUME NEW t \in Fetchers, _throttle(t) PROVE RateInv'
  BY <1>3, ThrottleKeeps
<1>4. ASSUME NEW t \in Fetchers,
             \/ FetchBegins(t) \/ route_with_local_first(t) \/ SkipVendor(t) \/ CallVendor(t)
             \/ RouteFails(t) \/ AcquireScheduled(t) \/ AcquireTotal(t) \/ EnterNoted(t)
             \/ GoesStale(t) \/ _reclaim_stale(t) \/ LockTimesOut(t) \/ CallReturns(t) \/ LeaveLock(t)
      PROVE  UNCHANGED rateVars
  BY <1>4 DEF FetchBegins, route_with_local_first, SkipVendor, CallVendor, RouteFails,
       AcquireScheduled, AcquireTotal, EnterNoted, GoesStale, _reclaim_stale, LockTimesOut,
       CallReturns, LeaveLock
<1>5. CASE UNCHANGED sourceVars
  BY <1>1, <1>5 DEF sourceVars, rateVars
<1> QED
  BY <1>1, <1>2, <1>3, <1>4, <1>5 DEF SourcesNext

-----------------------------------------------------------------------------
(* The route.                                                              *)

\* A thread under way has no result yet, and one that leaves the lock knows how its
\* call ended.
RouteInv ==
    /\ replies \in [Fetchers -> Seq({"absent", "raises", "silent"})]
    /\ waited \in [Fetchers -> BOOLEAN] /\ fetches \in [Fetchers -> 0..MaxFetches]
    /\ result = [t \in Fetchers |-> result[t]]
    /\ \A t \in Fetchers : pc[t] # "idle" => result[t].status = "none"
    /\ \A t \in Fetchers : pc[t] = "exit" => outcome[t] \in {"more", "answers", "raises", "silent"}
    /\ \A t \in Fetchers : outcome[t] # "absent"
    /\ RouteHonest

\* What a result says of the replies.
HonestResult(r, said) ==
    /\ r.status = "error" =>
           /\ Len(said) = Len(Chain)
           /\ \A n \in 1..Len(Chain) :
                  said[n] = "raises" => \E m \in 1..n : r.error = Chain[m] /\ said[m] = "raises"
    /\ r.status = "hit" => r.vendor \in {"local", Chain[1]}
    /\ r.status = "fallback" => said # <<>>

\* The error of a failed route names the first vendor that said why.
LEMMA ErrorNamesFirst ==
    ASSUME NEW said \in Seq({"absent", "raises", "silent"}), NEW n \in 1..Len(said), said[n] = "raises"
    PROVE  \E m \in 1..n : ErrorReported(said) = Chain[m] /\ said[m] = "raises"
<1> DEFINE told == {i \in 1..Len(said) : said[i] = "raises"}
           silent == {i \in 1..Len(said) : said[i] = "silent"}
           first == CHOOSE i \in told : \A j \in told : i <= j
<1>1. told \subseteq Nat /\ n \in told
  OBVIOUS
<1>2. \E i \in told : \A j \in told : i <= j
  <2> HIDE DEF told
  <2> QED
    BY <1>1, LeastNatural
<1>3. first \in told /\ \A j \in told : first <= j
  <2> HIDE DEF told
  <2> QED
    BY <1>2
<1>4. ErrorReported(said) = Chain[first]
  <2>1. ErrorReported(said) =
            CASE told # {} -> Chain[first]
              [] told = {} /\ silent # {} -> Chain[CHOOSE i \in silent : \A j \in silent : j <= i]
              [] OTHER -> "no-available-vendor"
    BY DEF ErrorReported
  <2>2. told # {}
    BY <1>1
  <2> HIDE DEF told, silent, first
  <2> QED
    BY <2>1, <2>2
<1> QED
  BY <1>1, <1>3, <1>4

\* A step of thread t, whose result stays or is honest, keeps the invariant.
LEMMA RouteMove ==
    ASSUME RouteInv, SourcesTyped, NEW t \in Fetchers,
           \A s \in Fetchers \ {t} : /\ pc'[s] = pc[s] /\ replies'[s] = replies[s]
                                     /\ result'[s] = result[s] /\ outcome'[s] = outcome[s],
           result' = [s \in Fetchers |-> result'[s]],
           replies' \in [Fetchers -> Seq({"absent", "raises", "silent"})],
           waited' \in [Fetchers -> BOOLEAN], fetches' \in [Fetchers -> 0..MaxFetches],
           pc'[t] # "idle" => result'[t].status = "none",
           pc'[t] = "exit" => outcome'[t] \in {"more", "answers", "raises", "silent"},
           outcome'[t] # "absent",
           HonestResult(result'[t], replies'[t])
    PROVE  RouteInv'
<1>1. \A s \in Fetchers \ {t} : HonestResult(result'[s], replies'[s])
  <2>1. \A s \in Fetchers : HonestResult(result[s], replies[s])
    BY DEF RouteInv, RouteHonest, HonestResult
  <2> QED
    BY <2>1
<1>2. \A s \in Fetchers : HonestResult(result'[s], replies'[s])
  BY <1>1
<1>3. RouteHonest'
  BY <1>2 DEF RouteHonest, HonestResult
<1>4. \A s \in Fetchers : pc'[s] # "idle" => result'[s].status = "none"
  BY DEF RouteInv
<1>5. /\ \A s \in Fetchers : pc'[s] = "exit" => outcome'[s] \in {"more", "answers", "raises", "silent"}
      /\ \A s \in Fetchers : outcome'[s] # "absent"
  BY DEF RouteInv
<1> QED
  BY <1>3, <1>4, <1>5 DEF RouteInv

\* A thread under way that has no result when it has moved.
LEMMA RouteGoesOn ==
    ASSUME RouteInv, SourcesTyped, NEW t \in Fetchers, NEW to \in FetchPCs \ {"idle"},
           result[t].status = "none", pc' = [pc EXCEPT ![t] = to],
           UNCHANGED <<result, fetches>>, waited' \in [Fetchers -> BOOLEAN],
           \A s \in Fetchers \ {t} : replies'[s] = replies[s] /\ outcome'[s] = outcome[s],
           replies' \in [Fetchers -> Seq({"absent", "raises", "silent"})],
           to = "exit" => outcome'[t] \in {"more", "answers", "raises", "silent"},
           outcome'[t] # "absent"
    PROVE  RouteInv'
<1>1. \A s \in Fetchers \ {t} : pc'[s] = pc[s] /\ result'[s] = result[s]
  BY DEF SourcesTyped
<1>2. pc'[t] = to
  BY DEF SourcesTyped
<1>3. HonestResult(result'[t], replies'[t])
  BY DEF HonestResult
<1>4. result' = [s \in Fetchers |-> result'[s]] /\ fetches' \in [Fetchers -> 0..MaxFetches]
  BY DEF RouteInv
<1> QED
  BY <1>1, <1>2, <1>3, <1>4, RouteMove

\* Every step of the route keeps the invariant.
LEMMA RouteStep == SourcesInv /\ RouteInv /\ [SourcesNext]_sourceVars => RouteInv'
<1> SUFFICES ASSUME SourcesInv, RouteInv, [SourcesNext]_sourceVars PROVE RouteInv'
  OBVIOUS
<1> DEFINE Said == {"absent", "raises", "silent"}
<1>0. /\ SourcesTyped
      /\ replies \in [Fetchers -> Seq(Said)] /\ waited \in [Fetchers -> BOOLEAN]
      /\ fetches \in [Fetchers -> 0..MaxFetches] /\ result = [t \in Fetchers |-> result[t]]
      /\ pc \in [Fetchers -> FetchPCs] /\ outcome \in [Fetchers -> Words]
      /\ \A t \in Fetchers : pc[t] # "idle" => result[t].status = "none"
      /\ \A t \in Fetchers : HonestResult(result[t], replies[t]) /\ outcome[t] # "absent"
  BY DEF SourcesInv, SourcesTyped, RouteInv, RouteHonest, HonestResult
\* What a reply does to the replies.
<1>a. ASSUME NEW t \in Fetchers, NEW r \in Said, replies' = [replies EXCEPT ![t] = Append(@, r)]
      PROVE  replies' \in [Fetchers -> Seq(Said)] /\ \A s \in Fetchers \ {t} : replies'[s] = replies[s]
  BY <1>0, <1>a
<1>b. ASSUME NEW t \in Fetchers, waited' = waited \/ waited' = [waited EXCEPT ![t] = FALSE]
      PROVE  waited' \in [Fetchers -> BOOLEAN]
  BY <1>0, <1>b
\* A result is noted and the thread is done.
<1>c. ASSUME NEW t \in Fetchers, NEW r, result' = [result EXCEPT ![t] = r],
             pc' = [pc EXCEPT ![t] = "idle"], UNCHANGED <<replies, fetches>>,
             waited' \in [Fetchers -> BOOLEAN],
             \A s \in Fetchers \ {t} : outcome'[s] = outcome[s], outcome'[t] # "absent",
             HonestResult(r, replies[t])
      PROVE  RouteInv'
  <2>1. \A s \in Fetchers \ {t} : pc'[s] = pc[s] /\ result'[s] = result[s]
    BY <1>0, <1>c
  <2>2. pc'[t] = "idle" /\ result'[t] = r /\ result' = [s \in Fetchers |-> result'[s]]
    BY <1>0, <1>c
  <2> QED
    BY <1>0, <1>c, <2>1, <2>2, RouteMove
<1>1. ASSUME NEW t \in Fetchers, FetchBegins(t) PROVE RouteInv'
  <2>1. /\ fetches' = [fetches EXCEPT ![t] = @ + 1] /\ fetches[t] < MaxFetches
        /\ replies' = [replies EXCEPT ![t] = <<>>] /\ result' = [result EXCEPT ![t] = NoResult]
        /\ pc' = [pc EXCEPT ![t] = "local"] /\ UNCHANGED <<outcome, waited>>
    BY <1>1 DEF FetchBegins, Goto
  <2>2. fetches' \in [Fetchers -> 0..MaxFetches]
    BY <1>0, <2>1, SourcesAssumption
  <2>3. replies' \in [Fetchers -> Seq(Said)] /\ \A s \in Fetchers \ {t} : replies'[s] = replies[s]
    <3>1. <<>> \in Seq(Said)
      OBVIOUS
    <3> QED
      BY <1>0, <2>1, <3>1
  <2>4. /\ result'[t] = NoResult /\ result' = [s \in Fetchers |-> result'[s]]
        /\ \A s \in Fetchers \ {t} : result'[s] = result[s]
    BY <1>0, <2>1
  <2>5. pc'[t] = "local" /\ \A s \in Fetchers \ {t} : pc'[s] = pc[s]
    BY <1>0, <2>1
  <2>6. HonestResult(result'[t], replies'[t]) /\ result'[t].status = "none"
    BY <2>4 DEF HonestResult, NoResult
  <2> QED
    BY <1>0, <2>1, <2>2, <2>3, <2>4, <2>5, <2>6, RouteMove
<1>2. ASSUME NEW t \in Fetchers, route_with_local_first(t) PROVE RouteInv'
  <2>1. pc[t] = "local" /\ UNCHANGED <<replies, outcome, waited, fetches>> /\ result[t].status = "none"
    BY <1>0, <1>2 DEF route_with_local_first
  <2>2. CASE /\ result' = [result EXCEPT ![t] = [NoResult EXCEPT !.vendor = "local", !.status = "hit"]]
             /\ pc' = [pc EXCEPT ![t] = "idle"]
    <3> DEFINE r == [NoResult EXCEPT !.vendor = "local", !.status = "hit"]
    <3>1. HonestResult(r, replies[t])
      BY DEF HonestResult, NoResult
    <3> HIDE DEF r
    <3> QED
      BY <1>0, <1>c, <2>1, <2>2, <3>1 DEF r
  <2>3. CASE pc' = [pc EXCEPT ![t] = "route"] /\ UNCHANGED result
    <3>1. "route" \in FetchPCs \ {"idle"}
      BY DEF FetchPCs
    <3> QED
      BY <1>0, <2>1, <2>3, <3>1, RouteGoesOn
  <2> QED
    BY <1>2, <2>2, <2>3 DEF route_with_local_first, Goto
<1>3. ASSUME NEW t \in Fetchers, SkipVendor(t) PROVE RouteInv'
  <2>1. pc[t] = "route" /\ UNCHANGED <<outcome, result, waited, fetches>> /\ pc' = [pc EXCEPT ![t] = "route"]
    BY <1>3 DEF SkipVendor, NextVendor, Goto
  <2>2. PICK r \in {"absent", "raises"} : replies' = [replies EXCEPT ![t] = Append(@, r)]
    BY <1>3 DEF SkipVendor, NextVendor
  <2>3. "route" \in FetchPCs \ {"idle"} /\ r \in Said
    BY DEF FetchPCs
  <2> QED
    BY <1>0, <1>a, <2>1, <2>2, <2>3, RouteGoesOn
<1>4. ASSUME NEW t \in Fetchers, CallVendor(t) PROVE RouteInv'
  <2>1. /\ pc[t] = "route" /\ UNCHANGED <<replies, outcome, result, fetches>>
        /\ pc' = [pc EXCEPT ![t] = Gate(t)] /\ waited' = [waited EXCEPT ![t] = FALSE]
    BY <1>4 DEF CallVendor, Goto
  <2>2. Gate(t) \in FetchPCs \ {"idle", "exit"}
    BY GateOutside DEF FetchPCs
  <2> QED
    BY <1>0, <1>b, <2>1, <2>2, RouteGoesOn
<1>5. ASSUME NEW t \in Fetchers, RouteFails(t) PROVE RouteInv'
  <2> DEFINE r == [vendor |-> "none", status |-> "error", error |-> ErrorReported(replies[t])]
  <2>1. /\ Len(replies[t]) = Len(Chain) /\ result' = [result EXCEPT ![t] = r]
        /\ pc' = [pc EXCEPT ![t] = "idle"] /\ UNCHANGED <<replies, outcome, waited, fetches>>
    BY <1>5 DEF RouteFails, Goto
  <2>2. HonestResult(r, replies[t])
    BY <1>0, <2>1, ErrorNamesFirst DEF HonestResult
  <2> HIDE DEF r
  <2> QED
    BY <1>0, <1>c, <2>1, <2>2
<1>6. ASSUME NEW t \in Fetchers,
             _throttle(t) \/ AcquireScheduled(t) \/ AcquireTotal(t) \/ EnterNoted(t) \/ LockTimesOut(t)
      PROVE  RouteInv'
  <2>1. /\ pc[t] # "idle" /\ UNCHANGED <<outcome, result, fetches>>
        /\ waited' = waited \/ waited' = [waited EXCEPT ![t] = FALSE]
        /\ \E to \in {"call", "total", "enter", "route"} : pc' = [pc EXCEPT ![t] = to]
        /\ replies' = replies \/ replies' = [replies EXCEPT ![t] = Append(@, "raises")]
    BY <1>6 DEF _throttle, AcquireScheduled, AcquireTotal, EnterNoted, LockTimesOut, NextVendor, Goto
  <2>2. PICK to \in {"call", "total", "enter", "route"} : pc' = [pc EXCEPT ![t] = to]
    BY <2>1
  <2>3. to \in FetchPCs \ {"idle", "exit"}
    BY DEF FetchPCs
  <2>4. replies' \in [Fetchers -> Seq(Said)] /\ \A s \in Fetchers \ {t} : replies'[s] = replies[s]
    BY <1>0, <1>a, <2>1
  <2> QED
    BY <1>0, <1>b, <2>1, <2>2, <2>3, <2>4, RouteGoesOn
<1>7. ASSUME NEW t \in Fetchers, GoesStale(t) \/ _reclaim_stale(t) PROVE RouteInv'
  <2>1. /\ UNCHANGED <<pc, replies, outcome, result, fetches>>
        /\ waited' = waited \/ waited' = [waited EXCEPT ![t] = TRUE]
    BY <1>7 DEF GoesStale, _reclaim_stale
  <2>2. waited' \in [Fetchers -> BOOLEAN]
    BY <1>0, <2>1
  <2> QED
    BY <2>1, <2>2 DEF RouteInv, RouteHonest
\* A call ended, and the thread goes on or has its result.
<1>8. ASSUME NEW t \in Fetchers, NEW o \in {"more", "answers", "raises", "silent"}, Answered(t, o),
             result[t].status = "none", UNCHANGED fetches, waited' \in [Fetchers -> BOOLEAN],
             \A s \in Fetchers \ {t} : outcome'[s] = outcome[s], outcome'[t] # "absent"
      PROVE  RouteInv'
  <2>1. CASE o = "more"
    <3>1. pc' = [pc EXCEPT ![t] = Gate(t)] /\ UNCHANGED <<replies, result>>
      BY <1>8, <2>1 DEF Answered, Goto
    <3>2. Gate(t) \in FetchPCs \ {"idle", "exit"}
      BY GateOutside DEF FetchPCs
    <3> QED
      BY <1>0, <1>8, <3>1, <3>2, RouteGoesOn
  <2>2. CASE o = "answers"
    <3> DEFINE r == [NoResult EXCEPT !.vendor = Vendor(t),
                                     !.status = IF replies[t] = <<>> THEN "hit" ELSE "fallback"]
    <3>1. result' = [result EXCEPT ![t] = r] /\ pc' = [pc EXCEPT ![t] = "idle"] /\ UNCHANGED replies
      BY <1>8, <2>2 DEF Answered, Goto
    <3>2. HonestResult(r, replies[t])
      <4>1. replies[t] = <<>> => Vendor(t) = Chain[1]
        BY DEF Vendor
      <4> QED
        BY <4>1 DEF HonestResult, NoResult
    <3> HIDE DEF r
    <3> QED
      BY <1>0, <1>8, <1>c, <3>1, <3>2
  <2>3. CASE o \in {"raises", "silent"}
    <3>1. /\ replies' = [replies EXCEPT ![t] = Append(@, o)] /\ pc' = [pc EXCEPT ![t] = "route"]
          /\ UNCHANGED result
      BY <1>8, <2>3 DEF Answered, NextVendor, Goto
    <3>2. "route" \in FetchPCs \ {"idle", "exit"} /\ o \in Said
      BY <2>3 DEF FetchPCs
    <3> QED
      BY <1>0, <1>8, <1>a, <3>1, <3>2, RouteGoesOn
  <2> QED
    BY <1>8, <2>1, <2>2, <2>3
<1>9. ASSUME NEW t \in Fetchers, CallReturns(t) PROVE RouteInv'
  <2>1. pc[t] = "call" /\ waited' = [waited EXCEPT ![t] = FALSE] /\ UNCHANGED fetches
    BY <1>9 DEF CallReturns
  <2>2. result[t].status = "none" /\ waited' \in [Fetchers -> BOOLEAN]
    BY <1>0, <1>b, <2>1
  <2>3. CASE Vendor(t) = "cn_akshare"
    <3>1. PICK o \in {"more", "answers", "raises", "silent"} :
              outcome' = [outcome EXCEPT ![t] = o] /\ pc' = [pc EXCEPT ![t] = "exit"]
              /\ UNCHANGED <<replies, result>>
      BY <1>9, <2>3 DEF CallReturns, Goto
    <3>2. outcome'[t] = o /\ \A s \in Fetchers \ {t} : outcome'[s] = outcome[s]
      BY <1>0, <3>1
    <3>3. "exit" \in FetchPCs \ {"idle"}
      BY DEF FetchPCs
    <3> QED
      BY <1>0, <2>1, <2>2, <3>1, <3>2, <3>3, RouteGoesOn
  <2>4. CASE Vendor(t) # "cn_akshare"
    <3>1. PICK o \in {"more", "answers", "raises", "silent"} : Answered(t, o) /\ outcome' = outcome
      BY <1>9, <2>4 DEF CallReturns
    <3>2. outcome'[t] # "absent" /\ \A s \in Fetchers \ {t} : outcome'[s] = outcome[s]
      BY <1>0, <3>1
    <3> QED
      BY <1>8, <2>1, <2>2, <3>1, <3>2
  <2> QED
    BY <2>3, <2>4
<1>10. ASSUME NEW t \in Fetchers, LeaveLock(t) PROVE RouteInv'
  <2>1. /\ pc[t] = "exit" /\ Answered(t, outcome[t]) /\ outcome' = [outcome EXCEPT ![t] = "none"]
        /\ UNCHANGED <<waited, fetches>>
    BY <1>10 DEF LeaveLock
  <2>2. /\ result[t].status = "none" /\ waited' \in [Fetchers -> BOOLEAN]
        /\ outcome'[t] # "absent" /\ \A s \in Fetchers \ {t} : outcome'[s] = outcome[s]
    BY <1>0, <2>1
  <2>3. outcome[t] \in {"more", "answers", "raises", "silent"}
    BY <2>1 DEF RouteInv
  <2> QED
    BY <1>8, <2>1, <2>2, <2>3
<1>11. CASE SourceTick \/ UNCHANGED sourceVars
  <2>1. UNCHANGED <<pc, replies, outcome, result, waited, fetches>>
    BY <1>11 DEF SourceTick, sourceVars
  <2> QED
    BY <2>1 DEF RouteInv, RouteHonest
<1> QED
  BY <1>1, <1>2, <1>3, <1>4, <1>5, <1>6, <1>7, <1>9, <1>10, <1>11 DEF SourcesNext

\* No call has been made and no route begun at first.
LEMMA RouteStart == SourcesInit => RateInv /\ RouteInv
<1> SUFFICES ASSUME SourcesInit PROVE RateInv /\ RouteInv
  OBVIOUS
<1>1. <<>> \in Seq(0..MaxTicks) /\ Len(<<>>) = 0 /\ <<>> \in Seq({"absent", "raises", "silent"})
  OBVIOUS
<1>2. RateInv
  BY <1>1, SourcesAssumption DEF SourcesInit, RateInv, RateKept
<1>3. RouteInv
  BY <1>1, SourcesAssumption DEF SourcesInit, RouteInv, RouteHonest, NoResult
<1> QED
  BY <1>2, <1>3

\* So the three invariants always hold.
LEMMA SourcesAlways == SourcesSpec => [](SourcesInv /\ RateInv /\ RouteInv)
<1> QED
  BY SourcesInitInv, SourcesStepInv, RouteStart, RateStep, RouteStep, PTL DEF SourcesSpec

\* Every variable of the data sources has its type, and no semaphore is above its value.
THEOREM SourcesTypeCorrect == SourcesSpec => []SourcesTypeOK
<1>1. SourcesInv /\ RateInv /\ RouteInv => SourcesTypeOK
  <2> SUFFICES ASSUME SourcesInv, RateInv, RouteInv PROVE SourcesTypeOK
    OBVIOUS
  <2>1. SourcesTyped /\ PermitsCounted
    BY DEF SourcesInv
  <2>2. Cardinality(Held) \in Nat /\ Cardinality(HeldScheduled) \in Nat
    BY <2>1, HeldFinite DEF SourcesTyped
  <2>3. total \in 0..Permits /\ scheduled \in 0..ScheduledMax
    BY <2>1, <2>2, SourcesAssumption DEF SourcesTyped, PermitsCounted
  <2>4. outcome \in [Fetchers -> {"none", "more", "answers", "raises", "silent"}]
    BY <2>1 DEF SourcesTyped, Words, RouteInv
  <2> QED
    BY <2>1, <2>3, <2>4 DEF SourcesTyped, FetchPCs, RateInv, RouteInv, SourcesTypeOK
<1> QED
  BY <1>1, SourcesAlways, PTL

\* Whatever the threads do: no window of time sees more calls of the throttled vendor than
\* its limit, a route that failed asked every vendor and names the first that said why,
\* and an answer tells whether the first vendor gave it.
THEOREM CallsAlwaysHonest == SourcesSpec => []CallsHonest
<1>1. RateInv /\ RouteInv => CallsHonest
  BY DEF RateInv, RouteInv, CallsHonest
<1> QED
  BY <1>1, SourcesAlways, PTL
=============================================================================
