---------------------------- MODULE QuoteCaches ----------------------------
(***************************************************************************)
(* The caches in front of the vendors of quotes and charts (api/main.py,   *)
(* api/services/rt_quote_service.py, market_chart_service.py,              *)
(* market_advanced_service.py, cache_service.py).  Each has its own time   *)
(* to live, its own idea of what a failed call is worth, and most let      *)
(* concurrent callers share one load.  Some lie over another one, so that  *)
(* ages add up.  One cache is followed at a time, with the one below it;   *)
(* all callers ask for one key.  Times are seconds, counted from now; only *)
(* the calls of a vendor take any.                                         *)
(***************************************************************************)
EXTENDS Naturals, FiniteSets

CONSTANTS
    CachesFollowed, \* the caches told apart, a subset of DOMAIN CacheTable
    Callers,        \* request threads
    NoCaller,
    CallTime,       \* the longest call of a vendor, or of the model
    MaxAsked        \* bound: requests

ASSUME CachesAssumption ==
    /\ CachesFollowed \subseteq
           {"kline", "kline_past", "rt", "quotes", "auction", "cyq", "moneyflow", "factor_pro",
            "daily_basic", "hsgt", "events", "corp", "intraday", "orderbook", "profile", "insight"}
    /\ NoCaller \notin Callers /\ CallTime \in Nat \ {0} /\ MaxAsked \in Nat

VARIABLES
    top,      \* the cache followed
    shelf,    \* shelf[c]: the entry of cache c: how long it still lives, and its value
    flight,   \* flight[c]: the caller whose load is under way (_inflight)
    at,       \* at[p]: the cache p works on
    step,     \* step[p]: where in it
    hand,     \* hand[p]: the value p carries
    asked,    \* asked[p]: how long ago its request came
    calling,  \* calling[p]: how long ago its call of a vendor began
    owner,    \* owner[p]: whose load p waits for
    said,     \* said[p]: its last answer, with the age it had when the request came
    requests

cacheVars == <<top, shelf, flight, at, step, hand, asked, calling, owner, said, requests>>

-----------------------------------------------------------------------------
\* What is known of a cache: how long an answer is kept, and one without data; what an
\* exception of the vendor becomes; whether callers share a load; the cache below it,
\* which it asks first.
Cache(ttl, empty, failure, shares, below) ==
    [ttl |-> ttl, empty |-> empty, failure |-> failure, shares |-> shares, below |-> below]

Kline == Cache(45, 0, "empty", TRUE, "none")
KlinePast == Cache(900, 0, "empty", TRUE, "none")
RtQuotes == Cache(8, 8, "failed", TRUE, "none")
LiveQuotes == Cache(10, 10, "empty", FALSE, "rt")
Auction == Cache(5, 5, "raised", TRUE, "none")
CyqChart == Cache(1800, 1800, "raised", TRUE, "none")
MoneyflowSeries == Cache(300, 300, "raised", TRUE, "none")
FactorPro == Cache(43200, 43200, "raised", TRUE, "none")
BasicSnapshot == Cache(21600, 21600, "raised", TRUE, "none")
HsgtSeries == Cache(300, 300, "raised", TRUE, "none")
EventMarkers == Cache(21600, 21600, "empty", TRUE, "none")
CorpEvents == Cache(86400, 86400, "empty", TRUE, "none")
Intraday == Cache(30, 30, "raised", FALSE, "redis")
Orderbook == Cache(15, 15, "raised", FALSE, "redis")
Profile == Cache(86400, 86400, "raised", FALSE, "redis")
ChartInsight == Cache(600, 0, "failed", FALSE, "kline")

CacheTable ==
    [kline |-> Kline, kline_past |-> KlinePast, rt |-> RtQuotes, quotes |-> LiveQuotes,
     auction |-> Auction, cyq |-> CyqChart, moneyflow |-> MoneyflowSeries,
     factor_pro |-> FactorPro, daily_basic |-> BasicSnapshot, hsgt |-> HsgtSeries,
     events |-> EventMarkers, corp |-> CorpEvents, intraday |-> Intraday,
     orderbook |-> Orderbook, profile |-> Profile, insight |-> ChartInsight]

Below(c) == CacheTable[c].below

\* The caches of the process, and Redis behind the tiered ones.
Shelves == {top, Below(top)} \ {"none"}
InProcess == Shelves \ {"redis"}

\* Values: data of the vendor; rows of the vendor asked when rt_k fails ("second"), and
\* what the quotes make of them, which look for a price under other names ("blank"); no
\* data; what a failed call was turned into; an exception.
NoValue == [age |-> 0, kind |-> "none"]
NoEntry == [left |-> 0, value |-> NoValue]
New(kind) == [age |-> 0, kind |-> kind]

Go(p, c, s) == at' = [at EXCEPT ![p] = c] /\ step' = [step EXCEPT ![p] = s]

-----------------------------------------------------------------------------
\* A request comes in.
Request(p) ==
    /\ step[p] = "idle" /\ requests < MaxAsked
    /\ requests' = requests + 1
    /\ Go(p, top, "look")
    /\ said' = [said EXCEPT ![p] = NoValue]
    /\ UNCHANGED <<top, shelf, flight, hand, asked, calling, owner>>

\* The value as it was when the request came.
Then(p, value) == [value EXCEPT !.age = IF asked[p] <= @ THEN @ - asked[p] ELSE 0]

\* Cache c answers the callers P: their requests are over, or the cache above goes on,
\* which for an insight needs candles.
Hand(P, c, value) ==
    LET ends == c = top \/ (top = "insight" /\ value.kind # "good")
        set(f, v) == [p \in Callers |-> IF p \in P THEN v ELSE f[p]] IN
    /\ at' = set(at, top)
    /\ step' = set(step, IF ends THEN "idle" ELSE "asking")
    /\ hand' = set(hand, IF ends THEN NoValue ELSE value)
    /\ calling' = set(calling, 0)
    /\ IF ends
       THEN /\ said' = [p \in Callers |-> IF p \notin P THEN said[p]
                                          ELSE IF c = top THEN Then(p, value) ELSE New("raised")]
            /\ asked' = set(asked, 0)
       ELSE UNCHANGED <<said, asked>>

Fresh(c) == shelf[c].left > 0

Hit(p) ==
    /\ step[p] = "look" /\ Fresh(at[p])
    /\ Hand({p}, at[p], shelf[at[p]].value)
    /\ UNCHANGED <<top, shelf, flight, owner, requests>>

\* Somebody loads the key already.
Join(p) ==
    LET c == at[p] IN
    /\ step[p] = "look" /\ ~Fresh(c) /\ CacheTable[c].shares /\ flight[c] # NoCaller
    /\ Go(p, c, "wait") /\ owner' = [owner EXCEPT ![p] = flight[c]]
    /\ UNCHANGED <<top, shelf, flight, hand, asked, calling, said, requests>>

\* Where a load begins: in Redis, in the cache below, or with the vendor.
Load(p, c) ==
    CASE Below(c) = "redis" -> Go(p, c, "redis") /\ UNCHANGED calling
      [] Below(c) \in {"rt", "kline"} -> Go(p, Below(c), "look") /\ UNCHANGED calling
      [] OTHER -> Go(p, c, "asking") /\ calling' = [calling EXCEPT ![p] = 0]

\* The look-up and the entry into _inflight are under one lock.
Miss(p) ==
    LET c == at[p] IN
    /\ step[p] = "look" /\ ~Fresh(c)
    /\ IF CacheTable[c].shares
       THEN flight[c] = NoCaller /\ flight' = [flight EXCEPT ![c] = p]
       ELSE UNCHANGED flight
    /\ Load(p, c)
    /\ UNCHANGED <<top, shelf, hand, asked, owner, said, requests>>

\* TieredCache.get: what Redis still holds lives in the process for another ten seconds.
LookInRedis(p) ==
    /\ step[p] = "redis"
    /\ IF Fresh("redis")
       THEN /\ shelf' = [shelf EXCEPT ![top] = [left |-> 10, value |-> shelf["redis"].value]]
            /\ Hand({p}, top, shelf["redis"].value)
       ELSE /\ Go(p, top, "asking") /\ calling' = [calling EXCEPT ![p] = 0]
            /\ UNCHANGED <<shelf, hand, asked, said>>
    /\ UNCHANGED <<top, flight, owner, requests>>

\* What the vendor's answer means to the cache.  The quotes keep what rt had; the insight
\* is about the candles in hand, whether the model answers or the fallback stands in.
Outcome(p, answer) ==
    LET kind == IF answer = "fails" THEN CacheTable[at[p]].failure ELSE answer IN
    CASE at[p] = "quotes" /\ hand[p].kind = "good" -> hand[p]
      [] at[p] = "quotes" /\ hand[p].kind = "second" -> [hand[p] EXCEPT !.kind = "blank"]
      [] at[p] = "insight" -> [hand[p] EXCEPT !.kind = IF answer = "good" THEN @ ELSE "failed"]
      [] OTHER -> New(kind)

\* Where rt_k fails, the quotes of another vendor are asked for.
VendorAnswers(p, answer) ==
    /\ step[p] = "asking"
    /\ calling' = [calling EXCEPT ![p] = 0]
    /\ IF at[p] = "rt" /\ answer = "fails"
       THEN Go(p, "rt", "second") /\ UNCHANGED hand
       ELSE Go(p, at[p], "store") /\ hand' = [hand EXCEPT ![p] = Outcome(p, answer)]
    /\ UNCHANGED <<top, shelf, flight, asked, owner, said, requests>>

SecondAnswers(p, answer) ==
    /\ step[p] = "second" /\ Go(p, "rt", "store")
    /\ calling' = [calling EXCEPT ![p] = 0]
    /\ hand' = [hand EXCEPT ![p] = New(IF answer = "good" THEN "second" ELSE "failed")]
    /\ UNCHANGED <<top, shelf, flight, asked, owner, said, requests>>

\* Mutant of Ttl: the second vendor's rows live as long as those of the first.
TtlAlike(c, value) ==
    CASE value.kind = "empty" -> CacheTable[c].empty
      [] value.kind = "raised" -> 0
      [] OTHER -> CacheTable[c].ttl

\* How long a value is kept, 0 when it is not.
Ttl(c, value) ==
    CASE value.kind = "empty" -> CacheTable[c].empty
      [] value.kind = "raised" -> 0
      [] value.kind \in {"second", "failed"} /\ c = "rt" -> 3
      [] OTHER -> CacheTable[c].ttl

\* The value is stored and the load taken out of _inflight, under one lock; candles that
\* are empty take the entry away.
StoreValue(p) ==
    LET c == at[p]
        ttl == Ttl(c, hand[p]) IN
    /\ step[p] = "store" /\ Go(p, c, "resolve")
    /\ shelf' = [d \in Shelves |->
           CASE d \in {c, "redis"} /\ ttl > 0 -> [left |-> ttl, value |-> hand[p]]
             [] d = c /\ ttl = 0 /\ hand[p].kind = "empty" -> NoEntry
             [] OTHER -> shelf[d]]
    /\ flight' = IF CacheTable[c].shares THEN [flight EXCEPT ![c] = NoCaller] ELSE flight
    /\ UNCHANGED <<top, hand, asked, calling, owner, said, requests>>

\* The future is resolved: the load is the answer to those who waited for it as well.
WaitingFor(p) == {q \in Callers : step[q] = "wait" /\ owner[q] = p}
Resolve(p) ==
    /\ step[p] = "resolve"
    /\ Hand({p} \union WaitingFor(p), at[p], hand[p])
    /\ owner' = [q \in Callers |-> IF q \in WaitingFor(p) THEN NoCaller ELSE owner[q]]
    /\ UNCHANGED <<top, shelf, flight, requests>>

\* Time passes while nobody does anything but wait for a vendor, up to the next moment
\* that makes a difference: an entry's last second, its end, the end of a call.
Asking == {p \in Callers : step[p] \in {"asking", "second"}}
Moments ==
    ({shelf[c].left : c \in Shelves} \union {shelf[c].left - 1 : c \in {d \in Shelves : Fresh(d)}}
         \union {CallTime - calling[p] : p \in Asking}) \ {0}

Aged(value, by) == IF value.kind = "none" THEN value ELSE [value EXCEPT !.age = @ + by]

PassSeconds(by) ==
    /\ \A p \in Callers : step[p] \in {"idle", "wait", "asking", "second"}
    /\ \A p \in Asking : calling[p] + by <= CallTime
    /\ shelf' = [c \in Shelves |-> IF shelf[c].left <= by THEN NoEntry
                                   ELSE [left |-> shelf[c].left - by, value |-> Aged(shelf[c].value, by)]]
    /\ hand' = [p \in Callers |-> Aged(hand[p], by)]
    /\ asked' = [p \in Callers |-> IF step[p] = "idle" THEN 0 ELSE asked[p] + by]
    /\ calling' = [p \in Callers |-> IF p \in Asking THEN calling[p] + by ELSE 0]
    /\ UNCHANGED <<top, flight, at, step, owner, said, requests>>

\* The process restarts: what is in its memory is gone, Redis stays.
CachesRestart ==
    /\ \A p \in Callers : step[p] = "idle"
    /\ \E c \in InProcess : shelf[c] # NoEntry
    /\ shelf' = [c \in Shelves |-> IF c = "redis" THEN shelf[c] ELSE NoEntry]
    /\ UNCHANGED <<top, flight, at, step, hand, asked, calling, owner, said, requests>>

CachesInit ==
    /\ top \in CachesFollowed
    /\ shelf = [c \in Shelves |-> NoEntry]
    /\ flight = [c \in Shelves |-> NoCaller]
    /\ at = [p \in Callers |-> top] /\ step = [p \in Callers |-> "idle"]
    /\ hand = [p \in Callers |-> NoValue] /\ said = [p \in Callers |-> NoValue]
    /\ asked = [p \in Callers |-> 0] /\ calling = [p \in Callers |-> 0]
    /\ owner = [p \in Callers |-> NoCaller] /\ requests = 0

CallerStep(p) ==
    \/ Hit(p) \/ Join(p) \/ Miss(p) \/ LookInRedis(p) \/ StoreValue(p) \/ Resolve(p)
    \/ \E answer \in {"good", "empty", "fails"} : VendorAnswers(p, answer)
    \/ \E answer \in {"good", "fails"} : SecondAnswers(p, answer)

CachesNext ==
    \/ \E p \in Callers : Request(p) \/ CallerStep(p)
    \/ \E by \in Moments : PassSeconds(by)
    \/ CachesRestart

\* A thread of the pool goes on, and each call of a vendor ends, at its timeout at last.
CachesFairness == \A p \in Callers : WF_cacheVars(CallerStep(p))
CachesSpec == CachesInit /\ [][CachesNext]_cacheVars /\ CachesFairness

-----------------------------------------------------------------------------
\* The type of every variable.
CachesTypeOK ==
    /\ top \in CachesFollowed
    /\ \A c \in Shelves : shelf[c].left \in Nat /\ flight[c] \in Callers \union {NoCaller}
    /\ at \in [Callers -> Shelves]
    /\ step \in [Callers -> {"idle", "look", "redis", "wait", "asking", "second", "store", "resolve"}]
    /\ calling \in [Callers -> 0 .. CallTime] /\ asked \in [Callers -> Nat]
    /\ requests \in 0 .. MaxAsked

\* How old an answer may be: the time to live of its cache, and what the value had behind
\* it when it came from below: Redis gives it ten seconds more, the quotes wait for one
\* more vendor before they are stored, the insight for the model.
MaxAge(c, kind) ==
    CASE Below(c) = "redis" -> CacheTable[c].ttl + 10
      [] Below(c) \in {"rt", "kline"} /\ kind = "blank" -> CacheTable[c].ttl + 3 + CallTime
      [] Below(c) \in {"rt", "kline"} /\ kind # "blank" -> CacheTable[c].ttl + CacheTable[Below(c)].ttl + CallTime
      [] c = "rt" /\ kind \in {"second", "failed"} -> 3
      [] kind = "raised" -> 1
      [] OTHER -> CacheTable[c].ttl

\* Whoever loaded it, through whatever caches it went and however the requests overlapped:
\* an answer was not older, when its request came, than the times to live on its way
\* allow; what the second vendor said for a failed rt_k lives three seconds, and an
\* exception reaches only those who waited for the call.
AnswersFresh ==
    \A p \in Callers : said[p].kind # "none" => said[p].age < MaxAge(top, said[p].kind)

\* Where loads are shared there is one at a time, and whoever waits waits for a caller that
\* is at it and will resolve it.
LoadsShared ==
    /\ \A c \in InProcess : CacheTable[c].shares =>
           Cardinality({p \in Callers : at[p] = c /\ step[p] \in {"asking", "second", "store"}}) <= 1
    /\ \A p \in Callers : step[p] = "wait" =>
           at[owner[p]] = at[p] /\ step[owner[p]] \in {"asking", "second", "store", "resolve"}

\* Every request is answered, by its own load or by the one it waits for.
AnswersCome == \A p \in Callers : step[p] # "idle" ~> step[p] = "idle"

\* A cache tells nobody something older than it may, and has nobody wait for a load
\* that is not under way.
CachesHonest == AnswersFresh /\ LoadsShared
=============================================================================
