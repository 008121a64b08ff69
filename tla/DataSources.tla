---------------------------- MODULE DataSources ----------------------------
(***************************************************************************)
(* Fetching market data.  A method is routed along a chain of vendors: the *)
(* first that answers wins.  The calls of one vendor (Tushare) are         *)
(* throttled to a number per minute; those of another (AkShare) share a    *)
(* lock of a few permits, of which scheduled work may hold a part only,    *)
(* and which takes back the permit of a thread that holds it too long.     *)
(***************************************************************************)
EXTENDS Integers, Sequences, FiniteSets

CONSTANTS
    Fetchers,        \* threads that fetch
    Chain,           \* fallback_vendors, the configured one first
    Permits,         \* total: permits of the AkShare lock
    ScheduledMax,    \* scheduled_max: those scheduled work may hold
    RateLimit,       \* calls to Tushare in a window
    Window,          \* the window, in ticks of the clock
    MaxFetches,      \* bound: fetches of a thread
    MaxTicks         \* bound: the clock

ASSUME SourcesAssumption ==
    /\ IsFiniteSet(Fetchers)
    /\ Permits \in Nat /\ ScheduledMax \in Nat
    /\ RateLimit \in Nat \ {0} /\ Window \in Nat \ {0} /\ MaxFetches \in Nat /\ MaxTicks \in Nat

VARIABLES
    scheduledWork, \* the threads of scheduled analyses (_is_scheduled_task)
    pc,          \* pc[t]: where the thread is
    replies,     \* replies[t]: what the vendors before the current one came to
    outcome,     \* outcome[t]: how the vendor's call ended, until the lock is left
    result,      \* result[t]: what the route returned
    waited,      \* waited[t]: the first wait for a permit is over
    fetches,     \* fetches[t]: fetches begun
    holders,     \* _holders: "none", or how old the entry of the thread is
    total,       \* _total, a semaphore
    scheduled,   \* _scheduled, a semaphore
    calls,       \* _calls: times of the calls in the window, as last pruned
    called,      \* times of all calls to Tushare (history)
    clock

sourceVars == <<scheduledWork, pc, replies, outcome, result, waited, fetches, holders, total,
                scheduled, calls, called, clock>>
lockVars == <<scheduledWork, holders, total, scheduled>>
rateVars == <<calls, called, clock>>

NoResult == [vendor |-> "none", status |-> "none", error |-> "none"]

SourcesInit ==
    /\ scheduledWork \in SUBSET Fetchers
    /\ pc = [t \in Fetchers |-> "idle"] /\ replies = [t \in Fetchers |-> <<>>]
    /\ outcome = [t \in Fetchers |-> "none"] /\ result = [t \in Fetchers |-> NoResult]
    /\ waited = [t \in Fetchers |-> FALSE] /\ fetches = [t \in Fetchers |-> 0]
    /\ holders = [t \in Fetchers |-> "none"]
    /\ total = Permits /\ scheduled = ScheduledMax
    /\ calls = <<>> /\ called = <<>> /\ clock = 0

Vendor(t) == Chain[Len(replies[t]) + 1]
Goto(t, place) == pc' = [pc EXCEPT ![t] = place]

\* The route goes on to the next vendor after reply r.
NextVendor(t, r) ==
    /\ replies' = [replies EXCEPT ![t] = Append(@, r)]
    /\ Goto(t, "route")

-----------------------------------------------------------------------------
(* The route *)

\* A method is called; a local table may have the rows.
FetchBegins(t) ==
    /\ pc[t] = "idle" /\ fetches[t] < MaxFetches
    /\ fetches' = [fetches EXCEPT ![t] = @ + 1]
    /\ replies' = [replies EXCEPT ![t] = <<>>] /\ result' = [result EXCEPT ![t] = NoResult]
    /\ Goto(t, "local")
    /\ UNCHANGED <<outcome, waited, lockVars, rateVars>>

route_with_local_first(t) ==
    /\ pc[t] = "local"
    /\ \/ /\ result' = [result EXCEPT ![t] = [NoResult EXCEPT !.vendor = "local", !.status = "hit"]]
          /\ Goto(t, "idle")
       \/ Goto(t, "route") /\ UNCHANGED result
    /\ UNCHANGED <<replies, outcome, waited, fetches, lockVars, rateVars>>

\* A vendor is not registered or has no such method; or it refuses before it
\* calls anybody, for want of a token or a package.
SkipVendor(t) ==
    /\ pc[t] = "route" /\ Len(replies[t]) < Len(Chain)
    /\ \E r \in {"absent", "raises"} : NextVendor(t, r)
    /\ UNCHANGED <<outcome, result, waited, fetches, lockVars, rateVars>>

\* Where a call of a vendor begins.
Gate(t) ==
    CASE Vendor(t) = "cn_tushare" -> "throttle"
      [] Vendor(t) = "cn_akshare" -> IF t \in scheduledWork THEN "scheduled" ELSE "total"
      [] OTHER -> "call"

CallVendor(t) ==
    /\ pc[t] = "route" /\ Len(replies[t]) < Len(Chain)
    /\ Goto(t, Gate(t))
    /\ waited' = [waited EXCEPT ![t] = FALSE]
    /\ UNCHANGED <<replies, outcome, result, fetches, lockVars, rateVars>>

\* What a reader is told when every vendor failed: the first exception that says
\* something, else the last one.
ErrorReported(r) ==
    LET told == {n \in 1..Len(r) : r[n] = "raises"}
        silent == {n \in 1..Len(r) : r[n] = "silent"}
    IN  CASE told # {} -> Chain[CHOOSE n \in told : \A m \in told : n <= m]
          [] told = {} /\ silent # {} -> Chain[CHOOSE n \in silent : \A m \in silent : m <= n]
          [] OTHER -> "no-available-vendor"

RouteFails(t) ==
    /\ pc[t] = "route" /\ Len(replies[t]) = Len(Chain)
    /\ result' = [result EXCEPT ![t] = [vendor |-> "none", status |-> "error",
                                        error |-> ErrorReported(replies[t])]]
    /\ Goto(t, "idle")
    /\ UNCHANGED <<replies, outcome, waited, fetches, lockVars, rateVars>>

\* A call ended with outcome o: the vendor's method makes another, or ends.
Answered(t, o) ==
    CASE o = "more" -> Goto(t, Gate(t)) /\ UNCHANGED <<replies, result>>
      [] o = "answers" ->
             /\ result' = [result EXCEPT ![t] =
                    [NoResult EXCEPT !.vendor = Vendor(t),
                                     !.status = IF replies[t] = <<>> THEN "hit" ELSE "fallback"]]
             /\ Goto(t, "idle") /\ UNCHANGED replies
      [] OTHER -> NextVendor(t, o) /\ UNCHANGED result

-----------------------------------------------------------------------------
(* The throttle *)

\* The calls of the window; the list is in the order of time, the older ones come first.
Recent(list) ==
    LET old == {n \in DOMAIN list : clock - list[n] >= Window}
    IN  SubSeq(list, Cardinality(old) + 1, Len(list))

\* The limit is exceeded by one.
ThrottleOffByOne(t) ==
    /\ pc[t] = "throttle" /\ Len(Recent(calls)) <= RateLimit
    /\ calls' = Append(Recent(calls), clock) /\ called' = Append(called, clock)
    /\ Goto(t, "call")
    /\ UNCHANGED <<replies, outcome, result, waited, fetches, lockVars, clock>>

\* The list is pruned and, if it is short enough, the call noted, under a mutex.
_throttle(t) ==
    /\ pc[t] = "throttle" /\ Len(Recent(calls)) < RateLimit
    /\ calls' = Append(Recent(calls), clock) /\ called' = Append(called, clock)
    /\ Goto(t, "call")
    /\ UNCHANGED <<replies, outcome, result, waited, fetches, lockVars, clock>>

SourceTick ==
    /\ clock < MaxTicks /\ clock' = clock + 1
    /\ UNCHANGED <<pc, replies, outcome, result, waited, fetches, lockVars, calls, called>>

-----------------------------------------------------------------------------
(* The lock *)

AcquireScheduled(t) ==
    /\ pc[t] = "scheduled" /\ scheduled > 0
    /\ scheduled' = scheduled - 1
    /\ waited' = [waited EXCEPT ![t] = FALSE] /\ Goto(t, "total")
    /\ UNCHANGED <<replies, outcome, result, fetches, holders, total, scheduledWork, rateVars>>

AcquireTotal(t) ==
    /\ pc[t] = "total" /\ total > 0
    /\ total' = total - 1 /\ Goto(t, "enter")
    /\ UNCHANGED <<replies, outcome, result, waited, fetches, holders, scheduled, scheduledWork, rateVars>>

\* The permit is noted with the time, after it was acquired.
EnterNoted(t) ==
    /\ pc[t] = "enter"
    /\ holders' = [holders EXCEPT ![t] = "fresh"] /\ Goto(t, "call")
    /\ UNCHANGED <<replies, outcome, result, waited, fetches, total, scheduled, scheduledWork, rateVars>>

\* STALE_TIMEOUT passes.
GoesStale(t) ==
    /\ holders[t] = "fresh" /\ holders' = [holders EXCEPT ![t] = "stale"]
    /\ UNCHANGED <<pc, replies, outcome, result, waited, fetches, total, scheduled, scheduledWork, rateVars>>

Stale == {t \in Fetchers : holders[t] = "stale"}

\* The entry of a stale holder stays: its thread releases the permit again.
ReclaimKeepsEntry(t) ==
    /\ ~waited[t] /\ waited' = [waited EXCEPT ![t] = TRUE]
    /\ \/ pc[t] = "scheduled" /\ scheduled = 0
       \/ pc[t] = "total" /\ total = 0
    /\ total' = total + Cardinality(Stale)
    /\ scheduled' = scheduled + Cardinality(Stale \cap scheduledWork)
    /\ UNCHANGED <<pc, replies, outcome, result, fetches, holders, scheduledWork, rateVars>>

\* ACQUIRE_TIMEOUT passes without a permit: those of stale holders are taken
\* back, and the wait is repeated once.
_reclaim_stale(t) ==
    /\ ~waited[t] /\ waited' = [waited EXCEPT ![t] = TRUE]
    /\ \/ pc[t] = "scheduled" /\ scheduled = 0
       \/ pc[t] = "total" /\ total = 0
    /\ holders' = [s \in Fetchers |-> IF s \in Stale THEN "none" ELSE holders[s]]
    /\ total' = total + Cardinality(Stale)
    /\ scheduled' = scheduled + Cardinality(Stale \cap scheduledWork)
    /\ UNCHANGED <<pc, replies, outcome, result, fetches, scheduledWork, rateVars>>

\* No permit after the second wait: an exception of the vendor; a permit for
\* scheduled work that was already acquired is given back.
LockTimesOut(t) ==
    /\ waited[t]
    /\ \/ pc[t] = "scheduled" /\ scheduled = 0 /\ UNCHANGED scheduled
       \/ pc[t] = "total" /\ total = 0
          /\ scheduled' = IF t \in scheduledWork THEN scheduled + 1 ELSE scheduled
    /\ NextVendor(t, "raises")
    /\ UNCHANGED <<outcome, result, waited, fetches, holders, total, scheduledWork, rateVars>>

\* The vendor's call ends; with the lock held, the lock is left first.
CallReturns(t) ==
    /\ pc[t] = "call"
    /\ \E o \in {"more", "answers", "raises", "silent"} :
           IF Vendor(t) = "cn_akshare"
           THEN outcome' = [outcome EXCEPT ![t] = o] /\ Goto(t, "exit") /\ UNCHANGED <<replies, result>>
           ELSE Answered(t, o) /\ UNCHANGED outcome
    /\ waited' = [waited EXCEPT ![t] = FALSE]
    /\ UNCHANGED <<fetches, lockVars, rateVars>>

\* A holder whose permit was taken back releases nothing.
LeaveLock(t) ==
    /\ pc[t] = "exit"
    /\ IF holders[t] # "none"
       THEN /\ total' = total + 1
            /\ scheduled' = IF t \in scheduledWork THEN scheduled + 1 ELSE scheduled
       ELSE UNCHANGED <<total, scheduled>>
    /\ holders' = [holders EXCEPT ![t] = "none"]
    /\ Answered(t, outcome[t]) /\ outcome' = [outcome EXCEPT ![t] = "none"]
    /\ UNCHANGED <<waited, fetches, scheduledWork, rateVars>>

SourcesNext ==
    \/ SourceTick
    \/ \E t \in Fetchers :
        \/ FetchBegins(t) \/ route_with_local_first(t) \/ SkipVendor(t) \/ CallVendor(t) \/ RouteFails(t)
        \/ _throttle(t) \/ AcquireScheduled(t) \/ AcquireTotal(t) \/ EnterNoted(t) \/ GoesStale(t)
        \/ _reclaim_stale(t) \/ LockTimesOut(t) \/ CallReturns(t) \/ LeaveLock(t)

SourcesSpec == SourcesInit /\ [][SourcesNext]_sourceVars

-----------------------------------------------------------------------------
(* Properties *)

\* The type of the state of the data sources.
SourcesTypeOK ==
    /\ scheduledWork \subseteq Fetchers
    /\ pc \in [Fetchers -> {"idle", "local", "route", "throttle", "scheduled", "total", "enter",
                            "call", "exit"}]
    /\ replies \in [Fetchers -> Seq({"absent", "raises", "silent"})]
    /\ outcome \in [Fetchers -> {"none", "more", "answers", "raises", "silent"}]
    /\ waited \in [Fetchers -> BOOLEAN] /\ fetches \in [Fetchers -> 0..MaxFetches]
    /\ holders \in [Fetchers -> {"none", "fresh", "stale"}]
    /\ total \in 0..Permits /\ scheduled \in 0..ScheduledMax
    /\ calls \in Seq(0..MaxTicks) /\ called \in Seq(0..MaxTicks) /\ clock \in 0..MaxTicks

\* No permit is lost and none is released twice, although permits are taken back
\* from threads that still run, may return at any time and may fetch again: those
\* free, those noted and those just acquired are all there are.
PermitsKept ==
    LET noted == {t \in Fetchers : holders[t] # "none"}
        entering == {t \in Fetchers : pc[t] = "enter"}
        halfway == {t \in Fetchers : pc[t] = "total"}
    IN  /\ total + Cardinality(noted) + Cardinality(entering) = Permits
        /\ scheduled + Cardinality((noted \cup entering \cup halfway) \cap scheduledWork) = ScheduledMax

\* No window of time sees more calls than the limit, whatever the threads do: the
\* list the throttle decides on is pruned as it goes.
RateKept ==
    \A n \in 1..Len(called) : n > RateLimit => called[n] - called[n - RateLimit] >= Window

\* A route that failed asked every vendor, none answered, and the error names the
\* first that said why; one that did not says whether the first vendor answered.
RouteHonest ==
    \A t \in Fetchers :
        /\ result[t].status = "error" =>
               /\ Len(replies[t]) = Len(Chain)
               /\ \A n \in 1..Len(Chain) :
                      replies[t][n] = "raises" =>
                          \E m \in 1..n : result[t].error = Chain[m] /\ replies[t][m] = "raises"
        /\ result[t].status = "hit" => result[t].vendor \in {"local", Chain[1]}
        /\ result[t].status = "fallback" => replies[t] # <<>>

\* The calls are what they are said to be: the vendors' limits hold, and every answer
\* tells which vendors were asked.
CallsHonest == RateKept /\ RouteHonest
=============================================================================
