----------------------------- MODULE MCPlatform -----------------------------
(***************************************************************************)
(* What lies between the vendors of data and those who ask for it, checked *)
(* side by side: the tables the market syncs fill, the caches of quotes    *)
(* and charts, the map of the names of stocks, the data pool of an         *)
(* analysis and the snapshot of a fast one.  They share no variable; a     *)
(* behaviour follows one of them, the others rest.                         *)
(***************************************************************************)
EXTENDS MarketStore, QuoteCaches, DataPool, FastSnapshot, StockMap

VARIABLE part

platformVars == <<part, storeVars, cacheVars, poolVars, snapVars, mapVars>>

Storing(A)  == part = "store" /\ A /\ UNCHANGED <<part, cacheVars, poolVars, snapVars, mapVars>>
Quoting(A)  == part = "caches" /\ A /\ UNCHANGED <<part, storeVars, poolVars, snapVars, mapVars>>
Pooling(A)  == part = "pool" /\ A /\ UNCHANGED <<part, storeVars, cacheVars, snapVars, mapVars>>
Snapping(A) == part = "snapshots" /\ A /\ UNCHANGED <<part, storeVars, cacheVars, poolVars, mapVars>>
Naming(A)   == part = "names" /\ A /\ UNCHANGED <<part, storeVars, cacheVars, poolVars, snapVars>>

\* What a part that rests starts from is no choice of it.
Rests(p, var, S) == part # p => var = CHOOSE x \in S : TRUE

Init ==
    /\ part \in {"store", "caches", "pool", "snapshots", "names"}
    /\ Rests("store", feed, Feeds) /\ Rests("store", dialect, Dialects)
    /\ Rests("caches", top, CachesFollowed)
    /\ Rests("pool", tasks, Batches) /\ Rests("pool", registered, ProviderSets)
    /\ Rests("pool", switches, SwitchSets)
    /\ Rests("snapshots", labels, SourceSets)
    /\ StoreInit /\ CachesInit /\ PoolInit /\ SnapInit /\ MapInit

Next ==
    \/ Storing(StoreNext) \/ Quoting(CachesNext) \/ Pooling(PoolNext) \/ Snapping(SnapNext)
    \/ Naming(MapNext)

\* CachesFairness and SnapFairness, each where its part is followed.
Fairness ==
    /\ \A p \in Callers : WF_platformVars(Quoting(CallerStep(p)))
    /\ \A s \in Snapshots : WF_platformVars(Snapping(LoopStep(s)))

Spec == Init /\ [][Next]_platformVars /\ Fairness

\* The type of every variable of the five parts.
PlatformTypeOK == StoreTypeOK /\ CachesTypeOK /\ PoolTypeOK /\ SnapTypeOK /\ MapTypeOK

\* Whoever asks is answered: a request for quotes or charts by its own load or another's, a
\* fast analysis by a verdict or a failure, also when its vendors never answer.
PlatformAnswers == AnswersCome /\ SnapshotsEnd
=============================================================================
