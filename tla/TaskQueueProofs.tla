-------------------------- MODULE TaskQueueProofs --------------------------
(***************************************************************************)
(* Theorems of TaskQueue, for any sets of jobs, dispatchers and clients,   *)
(* any queue size and any number of crashes: the types, and the safety     *)
(* invariants the runs check.                                              *)
(***************************************************************************)
EXTENDS TaskQueue, FiniteSetTheorems, WellFoundedInduction, TLAPS

-----------------------------------------------------------------------------
(* The values the sort order is computed from.                             *)

\* A finite non-empty set of naturals has a greatest element.  The library's
\* well-founded minimum, over the subsets that have none, gives it.
LEMMA GreatestNatural ==
    ASSUME NEW S, S \subseteq Nat, IsFiniteSet(S), S # {}
    PROVE  \E n \in S : \A m \in S : m <= n
<1> DEFINE HasGreatest(U) == \E n \in U : \A m \in U : m <= n
           Bad == {U \in SUBSET S : U # {} /\ ~HasGreatest(U)}
<1>1. SUFFICES ASSUME Bad # {} PROVE FALSE
  OBVIOUS
<1>2. PICK U \in Bad : \A V \in Bad : <<V, U>> \notin StrictSubsetOrdering(S)
  <2>1. IsWellFoundedOn(StrictSubsetOrdering(S), SUBSET S)
    BY FS_StrictSubsetOrderingWellFounded, FS_FiniteSubsetsOfFinite
  <2>2. QED
    <3> HIDE DEF HasGreatest
    <3>1. Bad \subseteq SUBSET S
      OBVIOUS
    <3> HIDE DEF Bad
    <3>2. QED
      BY <1>1, <2>1, <3>1, WFMin
<1>3. PICK x \in U : TRUE
  OBVIOUS
<1>4. U \ {x} # {}
  BY <1>3
<1>5. HasGreatest(U \ {x})
  <2>1. <<U \ {x}, U>> \in StrictSubsetOrdering(S)
    BY <1>3 DEF StrictSubsetOrdering
  <2>2. U \ {x} \notin Bad
    BY <1>2, <2>1
  <2>3. QED
    BY <1>4, <2>2
<1>6. PICK n \in U \ {x} : \A m \in U \ {x} : m <= n
  BY <1>5
<1>7. HasGreatest(U)
  <2>1. CASE x <= n
    BY <1>6, <2>1
  <2>2. CASE ~(x <= n)
    <3>1. \A m \in U : m <= x
      BY <1>3, <1>6, <2>2
    <3>2. QED
      BY <1>3, <3>1
  <2>3. QED
    BY <2>1, <2>2
<1>8. QED
  BY <1>2, <1>7

\* The order enqueue_job reads for a new row is a natural number.
LEMMA NextOrderType == TypeOK => NextOrder \in Nat
<1>1. SUFFICES ASSUME TypeOK, Rows # {} PROVE NextOrder \in Nat
  BY DEF NextOrder
<1> DEFINE Orders == {ord[j] : j \in Rows}
<1>2. Orders \subseteq Nat /\ Orders # {}
  <2>1. Rows \subseteq Jobs /\ ord \in [Jobs -> Nat]
    BY <1>1 DEF TypeOK, Rows
  <2>2. \A j \in Rows : ord[j] \in Nat
    BY <2>1
  <2>3. QED
    BY <1>1, <2>2
<1>3. IsFiniteSet(Orders)
  <2>1. IsFiniteSet(Rows)
    BY FS_Subset, JobsAssumption DEF Rows
  <2> DEFINE order[j \in Rows] == ord[j]
  <2>2. QED
    <3>1. order \in Surjection(Rows, Orders)
      BY DEF Surjection
    <3>2. QED
      BY <2>1, <3>1, FS_Surjection
<1>4. \E n \in Orders : \A m \in Orders : m <= n
  <2> HIDE DEF Orders
  <2> QED BY <1>2, <1>3, GreatestNatural
<1>5. \E n \in Orders : \A k \in Rows : ord[k] <= n
  BY <1>4
<1>6. QED
  BY <1>1, <1>2, <1>5 DEF NextOrder

\* Compaction numbers the rows it is given with naturals.
LEMMA CompactedType ==
    ASSUME TypeOK, NEW rows \in SUBSET Jobs
    PROVE  Compacted(rows) \in [Jobs -> Nat]
<1>1. ASSUME NEW j \in Jobs PROVE Cardinality({k \in rows : Before(k, j)}) \in Nat
  BY FS_Subset, FS_CardinalityType, JobsAssumption
<1>2. QED
  BY <1>1 DEF Compacted, TypeOK

\* The rank a submission takes as its created_at is a natural number.
LEMMA BornType == Cardinality({k \in Jobs : born[k] > 0}) \in Nat
  BY FS_Subset, FS_CardinalityType, JobsAssumption

\* The number of rows, which bounds the orders of a reordering.
LEMMA RowCountType == Cardinality(Rows) \in Nat
  BY FS_Subset, FS_CardinalityType, JobsAssumption DEF Rows

-----------------------------------------------------------------------------
(* Type correctness.                                                       *)

\* A dispatcher or a client names a job exactly while it works on one.
InHand ==
    /\ \A d \in Dispatchers : disp[d] \in {"picked", "dequeued"} <=> djob[d] \in Jobs
    /\ \A c \in Clients : client[c] # "idle" <=> cjob[c] \in Jobs

\* Every step of every handler keeps the variables in their types: in
\* particular no order turns negative and no run is counted below zero.
LEMMA TypeStep == TypeOK /\ InHand /\ [Next]_vars => TypeOK'
<1> USE DEF Statuses, Active, Waiting, Terminal, SubPCs, Rows
<1>1. SUFFICES ASSUME TypeOK, InHand, [Next]_vars PROVE TypeOK'
  OBVIOUS
<1>2. CASE Next
  <2>1. ASSUME NEW j \in Jobs, Submit(j) PROVE TypeOK'
    BY <1>1, <2>1 DEF TypeOK, Submit, Goto, SetStatus, runVars, histVars
  <2>2. ASSUME NEW j \in Jobs, CheckActive(j) PROVE TypeOK'
    BY <1>1, <2>2 DEF TypeOK, CheckActive, Goto, dbVars, runVars, histVars
  <2>3. ASSUME NEW j \in Jobs, CheckQueue(j) PROVE TypeOK'
    BY <1>1, <2>3 DEF TypeOK, CheckQueue, Goto, dbVars, runVars, histVars
  <2>4. ASSUME NEW j \in Jobs, CheckSize(j) PROVE TypeOK'
    BY <1>1, <2>4, BornType DEF TypeOK, CheckSize, Goto, runVars, histVars
  <2>5. ASSUME NEW j \in Jobs, Reject(j) PROVE TypeOK'
    BY <1>1, <2>5 DEF TypeOK, Reject, Goto, SetStatus, runVars, histVars
  <2>6. ASSUME NEW j \in Jobs, ReadOrder(j) PROVE TypeOK'
    BY <1>1, <2>6, NextOrderType DEF TypeOK, ReadOrder, Goto, runVars, histVars
  <2>7. ASSUME NEW j \in Jobs, Insert(j) PROVE TypeOK'
    BY <1>1, <2>7 DEF TypeOK, Insert, Goto, runVars, histVars
  <2>8. ASSUME NEW j \in Jobs, MarkQueued(j) PROVE TypeOK'
    BY <1>1, <2>8 DEF TypeOK, MarkQueued, Goto, SetStatus, runVars, histVars
  <2>9. ASSUME NEW j \in Jobs, PostQueued(j) PROVE TypeOK'
    BY <1>1, <2>9 DEF TypeOK, PostQueued, Goto, SetStatus, Kick, runVars, histVars
  <2>10. ASSUME NEW j \in Jobs, StartDirect(j) PROVE TypeOK'
    BY <1>1, <2>10 DEF TypeOK, StartDirect, Goto, dbVars, histVars
  <2>11. ASSUME Watchdog PROVE TypeOK'
    BY <1>1, <2>11 DEF TypeOK, Watchdog, Kick, dbVars, runVars, histVars
  <2>12. ASSUME NEW d \in Dispatchers, DispatchBlocked(d) PROVE TypeOK'
    BY <1>1, <2>12 DEF TypeOK, DispatchBlocked, dbVars, runVars, histVars
  <2>13. ASSUME NEW d \in Dispatchers, DispatchClear(d) PROVE TypeOK'
    BY <1>1, <2>13 DEF TypeOK, DispatchClear, dbVars, runVars, histVars
  <2>14. ASSUME NEW d \in Dispatchers, FindNothing(d) PROVE TypeOK'
    BY <1>1, <2>14 DEF TypeOK, FindNothing, dbVars, runVars, histVars
  <2>15. ASSUME NEW d \in Dispatchers, PickNext(d) PROVE TypeOK'
    <3>1. PICK j \in Jobs : djob' = [djob EXCEPT ![d] = j]
      BY <2>15 DEF PickNext, QueuedRows
    <3>2. QED
      BY <1>1, <2>15, <3>1 DEF TypeOK, PickNext, dbVars, runVars, histVars
  <2>16. ASSUME NEW d \in Dispatchers, DeleteRow(d) PROVE TypeOK'
    BY <1>1, <2>16, CompactedType DEF TypeOK, DeleteRow, runVars, histVars
  <2>17. ASSUME NEW d \in Dispatchers, StartDequeued(d) PROVE TypeOK'
    <3>1. djob[d] \in Jobs
      BY <1>1, <2>17 DEF InHand, StartDequeued
    <3>2. status' \in [Jobs -> Statuses] /\ starts' \in [Jobs -> Nat] /\ kicks' \in Nat
      BY <1>1, <2>17, <3>1 DEF TypeOK, StartDequeued, SetStatus, Release, histVars
    <3>3. QED
      BY <1>1, <2>17, <3>1, <3>2 DEF TypeOK, StartDequeued, SetStatus, Release, histVars
  <2>18. ASSUME NEW d \in Dispatchers, FailDequeued(d) PROVE TypeOK'
    <3>1. djob[d] \in Jobs
      BY <1>1, <2>18 DEF InHand, FailDequeued
    <3>2. status' \in [Jobs -> Statuses] /\ starts' \in [Jobs -> Nat] /\ kicks' \in Nat
      BY <1>1, <2>18, <3>1 DEF TypeOK, FailDequeued, SetStatus, Kick, Release, histVars
    <3>3. QED
      BY <1>1, <2>18, <3>1, <3>2 DEF TypeOK, FailDequeued, SetStatus, Kick, Release,
         histVars
  <2>19. ASSUME NEW j \in Jobs, RunBegin(j) PROVE TypeOK'
    BY <1>1, <2>19 DEF TypeOK, RunBegin, SetStatus, histVars
  <2>20. ASSUME NEW j \in Jobs, RunRefused(j) PROVE TypeOK'
    BY <1>1, <2>20 DEF TypeOK, RunRefused, Kick, histVars
  <2>21. ASSUME NEW j \in Jobs, RunEnd(j) PROVE TypeOK'
    BY <1>1, <2>21 DEF TypeOK, RunEnd, SetStatus, Kick, histVars
  <2>22. ASSUME NEW j \in Jobs, LeaseLapse(j) PROVE TypeOK'
    BY <1>1, <2>22 DEF TypeOK, LeaseLapse, runVars, histVars
  <2>23. ASSUME NEW c \in Clients, NEW j \in Jobs, PauseRow(c, j) PROVE TypeOK'
    BY <1>1, <2>23 DEF TypeOK, PauseRow, Serve, runVars, histVars
  <2>24. ASSUME NEW c \in Clients, PauseJob(c) PROVE TypeOK'
    BY <1>1, <2>24 DEF TypeOK, PauseJob, SetStatus, Serve, runVars, histVars
  <2>25. ASSUME NEW c \in Clients, NEW j \in Jobs, ResumeRow(c, j) PROVE TypeOK'
    BY <1>1, <2>25 DEF TypeOK, ResumeRow, Serve, runVars, histVars
  <2>26. ASSUME NEW c \in Clients, ResumeJob(c) PROVE TypeOK'
    <3>1. status' \in [Jobs -> Statuses]
      BY <1>1, <2>26 DEF TypeOK, ResumeJob, SetStatus
    <3>2. kicks' \in Nat
      BY <1>1, <2>26 DEF TypeOK, ResumeJob, Kick
    <3>3. QED
      BY <1>1, <2>26, <3>1, <3>2 DEF TypeOK, ResumeJob, Serve, runVars, histVars
  <2>27. ASSUME NEW c \in Clients, NEW j \in Jobs, RemoveRead(c, j) PROVE TypeOK'
    BY <1>1, <2>27 DEF TypeOK, RemoveRead, Serve, dbVars, runVars, histVars
  <2>28. ASSUME NEW c \in Clients, RemoveRow(c) PROVE TypeOK'
    BY <1>1, <2>28, CompactedType DEF TypeOK, InHand, RemoveRow, SetStatus, Kick, Serve,
       runVars
  <2>29. ASSUME NEW j \in Jobs, CancelQueued(j) PROVE TypeOK'
    BY <1>1, <2>29, CompactedType DEF TypeOK, CancelQueued, SetStatus, Kick, runVars
  <2>30. ASSUME NEW j \in Jobs, CancelFallback(j) PROVE TypeOK'
    BY <1>1, <2>30 DEF TypeOK, CancelFallback, SetStatus, Kick, runVars
  <2>31. ASSUME Reorder PROVE TypeOK'
    BY <1>1, <2>31, RowCountType DEF TypeOK, Reorder, Kick, runVars, histVars
  <2>32. ASSUME Crash PROVE TypeOK'
    BY <1>1, <2>32 DEF TypeOK, Crash, dbVars
  <2>33. ASSUME NEW j \in Jobs, Reclaim(j) PROVE TypeOK'
    BY <1>1, <2>33 DEF TypeOK, Reclaim, SetStatus
  <2>34. QED
    BY <1>2, <2>1, <2>2, <2>3, <2>4, <2>5, <2>6, <2>7, <2>8, <2>9, <2>10, <2>11,
       <2>12, <2>13, <2>14, <2>15, <2>16, <2>17, <2>18, <2>19, <2>20, <2>21, <2>22,
       <2>23, <2>24, <2>25, <2>26, <2>27, <2>28, <2>29, <2>30, <2>31, <2>32, <2>33
       DEF Next, SubmitStep, DispatchStep, ClientStep, ClientRequest
<1>3. CASE UNCHANGED vars
  BY <1>1, <1>3 DEF TypeOK, vars
<1>4. QED
  BY <1>1, <1>2, <1>3


-----------------------------------------------------------------------------
(* The job before its queue row.                                           *)

Early == {"upserted", "check_queue", "check_size", "read_order", "insert", "start"}

\* Until its queue row is inserted, a job is known to its submission only.
Fresh ==
    \A j \in Jobs : sub[j] \in Early \union {"new"} =>
        /\ rowst[j] = "none" /\ launched[j] = 0 /\ executing[j] = 0 /\ starts[j] = 0
        /\ j \notin direct \union interrupted
        /\ \A d \in Dispatchers : djob[d] # j
        /\ \A c \in Clients : cjob[c] # j

\* From its first commit on it is pending under a good lease, or cancelled.
EarlyStatus ==
    \A j \in Jobs :
        /\ sub[j] = "new" => status[j] = "none" /\ j \notin lapsed
        /\ sub[j] \in Early =>
              \/ status[j] = "pending" /\ j \notin lapsed
              \/ status[j] = "failed" /\ j \in cancelled

\* Handlers take a job in hand and let go of it in the same steps that move them.
LEMMA InHandStep == TypeOK /\ InHand /\ [Next]_vars => InHand'
<1> USE JobsAssumption
<1>1. SUFFICES ASSUME TypeOK, InHand, [Next]_vars PROVE InHand'
  OBVIOUS
<1>2. CASE Next
  <2>1. ASSUME NEW j \in Jobs, Submit(j) PROVE InHand'
    BY <1>1, <2>1 DEF InHand, Submit, Goto, SetStatus, runVars, histVars
  <2>2. ASSUME NEW j \in Jobs, CheckActive(j) PROVE InHand'
    BY <1>1, <2>2 DEF InHand, CheckActive, Goto, dbVars, runVars, histVars
  <2>3. ASSUME NEW j \in Jobs, CheckQueue(j) PROVE InHand'
    BY <1>1, <2>3 DEF InHand, CheckQueue, Goto, dbVars, runVars, histVars
  <2>4. ASSUME NEW j \in Jobs, CheckSize(j) PROVE InHand'
    BY <1>1, <2>4 DEF InHand, CheckSize, Goto, runVars, histVars
  <2>5. ASSUME NEW j \in Jobs, Reject(j) PROVE InHand'
    BY <1>1, <2>5 DEF InHand, Reject, Goto, SetStatus, runVars, histVars
  <2>6. ASSUME NEW j \in Jobs, ReadOrder(j) PROVE InHand'
    BY <1>1, <2>6 DEF InHand, ReadOrder, Goto, runVars, histVars
  <2>7. ASSUME NEW j \in Jobs, Insert(j) PROVE InHand'
    BY <1>1, <2>7 DEF InHand, Insert, Goto, runVars, histVars
  <2>8. ASSUME NEW j \in Jobs, MarkQueued(j) PROVE InHand'
    BY <1>1, <2>8 DEF InHand, MarkQueued, Goto, SetStatus, runVars, histVars
  <2>9. ASSUME NEW j \in Jobs, PostQueued(j) PROVE InHand'
    BY <1>1, <2>9 DEF InHand, PostQueued, Goto, SetStatus, runVars, histVars
  <2>10. ASSUME NEW j \in Jobs, StartDirect(j) PROVE InHand'
    BY <1>1, <2>10 DEF InHand, StartDirect, Goto, dbVars, histVars
  <2>11. ASSUME Watchdog PROVE InHand'
    BY <1>1, <2>11 DEF InHand, Watchdog, dbVars, runVars, histVars
  <2>12. ASSUME NEW d \in Dispatchers, DispatchBlocked(d) PROVE InHand'
    BY <1>1, <2>12 DEF TypeOK, InHand, QueuedRows, Rows, DispatchBlocked, dbVars,
       runVars, histVars
  <2>13. ASSUME NEW d \in Dispatchers, DispatchClear(d) PROVE InHand'
    BY <1>1, <2>13 DEF InHand, DispatchClear, dbVars, runVars, histVars
  <2>14. ASSUME NEW d \in Dispatchers, FindNothing(d) PROVE InHand'
    BY <1>1, <2>14 DEF InHand, FindNothing, dbVars, runVars, histVars
  <2>15. ASSUME NEW d \in Dispatchers, PickNext(d) PROVE InHand'
    BY <1>1, <2>15 DEF TypeOK, InHand, QueuedRows, PickNext, dbVars, runVars, histVars
  <2>16. ASSUME NEW d \in Dispatchers, DeleteRow(d) PROVE InHand'
    BY <1>1, <2>16 DEF InHand, DeleteRow, runVars, histVars
  <2>17. ASSUME NEW d \in Dispatchers, StartDequeued(d) PROVE InHand'
    BY <1>1, <2>17 DEF TypeOK, InHand, StartDequeued, SetStatus, Release, histVars
  <2>18. ASSUME NEW d \in Dispatchers, FailDequeued(d) PROVE InHand'
    BY <1>1, <2>18 DEF TypeOK, InHand, FailDequeued, SetStatus, Release, histVars
  <2>19. ASSUME NEW j \in Jobs, RunBegin(j) PROVE InHand'
    BY <1>1, <2>19 DEF InHand, RunBegin, SetStatus, histVars
  <2>20. ASSUME NEW j \in Jobs, RunRefused(j) PROVE InHand'
    BY <1>1, <2>20 DEF InHand, RunRefused, histVars
  <2>21. ASSUME NEW j \in Jobs, RunEnd(j) PROVE InHand'
    BY <1>1, <2>21 DEF InHand, RunEnd, SetStatus, histVars
  <2>22. ASSUME NEW j \in Jobs, LeaseLapse(j) PROVE InHand'
    BY <1>1, <2>22 DEF InHand, LeaseLapse, runVars, histVars
  <2>23. ASSUME NEW c \in Clients, NEW j \in Jobs, PauseRow(c, j) PROVE InHand'
    BY <1>1, <2>23 DEF TypeOK, InHand, PauseRow, Serve, runVars, histVars
  <2>24. ASSUME NEW c \in Clients, PauseJob(c) PROVE InHand'
    BY <1>1, <2>24 DEF TypeOK, InHand, PauseJob, SetStatus, Serve, runVars, histVars
  <2>25. ASSUME NEW c \in Clients, NEW j \in Jobs, ResumeRow(c, j) PROVE InHand'
    BY <1>1, <2>25 DEF TypeOK, InHand, ResumeRow, Serve, runVars, histVars
  <2>26. ASSUME NEW c \in Clients, ResumeJob(c) PROVE InHand'
    BY <1>1, <2>26 DEF TypeOK, InHand, ResumeJob, SetStatus, Serve, runVars, histVars
  <2>27. ASSUME NEW c \in Clients, NEW j \in Jobs, RemoveRead(c, j) PROVE InHand'
    BY <1>1, <2>27 DEF TypeOK, InHand, RemoveRead, Serve, dbVars, runVars, histVars
  <2>28. ASSUME NEW c \in Clients, RemoveRow(c) PROVE InHand'
    BY <1>1, <2>28 DEF TypeOK, InHand, RemoveRow, SetStatus, Serve, runVars
  <2>29. ASSUME NEW j \in Jobs, CancelQueued(j) PROVE InHand'
    BY <1>1, <2>29 DEF InHand, CancelQueued, SetStatus, runVars
  <2>30. ASSUME NEW j \in Jobs, CancelFallback(j) PROVE InHand'
    BY <1>1, <2>30 DEF InHand, CancelFallback, SetStatus, runVars
  <2>31. ASSUME Reorder PROVE InHand'
    BY <1>1, <2>31 DEF InHand, Reorder, runVars, histVars
  <2>32. ASSUME Crash PROVE InHand'
    BY <1>1, <2>32 DEF InHand, Crash, dbVars
  <2>33. ASSUME NEW j \in Jobs, Reclaim(j) PROVE InHand'
    BY <1>1, <2>33 DEF InHand, Reclaim, SetStatus, histVars
  <2>34. QED
    BY <1>2, <2>1, <2>2, <2>3, <2>4, <2>5, <2>6, <2>7, <2>8, <2>9, <2>10, <2>11,
       <2>12, <2>13, <2>14, <2>15, <2>16, <2>17, <2>18, <2>19, <2>20, <2>21, <2>22,
       <2>23, <2>24, <2>25, <2>26, <2>27, <2>28, <2>29, <2>30, <2>31, <2>32, <2>33
       DEF Next, SubmitStep, DispatchStep, ClientStep, ClientRequest
<1>3. CASE UNCHANGED vars
  BY <1>1, <1>3 DEF InHand, vars
<1>4. QED
  BY <1>1, <1>2, <1>3

\* Nobody but its submission touches a job before its queue row is in.
LEMMA FreshStep == TypeOK /\ InHand /\ Fresh /\ EarlyStatus /\ [Next]_vars => Fresh'
<1> USE JobsAssumption
<1>1. SUFFICES ASSUME TypeOK, InHand, Fresh, EarlyStatus, [Next]_vars PROVE Fresh'
  OBVIOUS
<1>2. CASE Next
  <2>1. ASSUME NEW j \in Jobs, Submit(j) PROVE Fresh'
    BY <1>1, <2>1 DEF Fresh, Early, QueuedRows, Rows, Active, Waiting, Submit, Goto,
       SetStatus, runVars, histVars
  <2>2. ASSUME NEW j \in Jobs, CheckActive(j) PROVE Fresh'
    BY <1>1, <2>2 DEF Fresh, Early, QueuedRows, Rows, Active, Waiting, CheckActive,
       Goto, dbVars, runVars, histVars
  <2>3. ASSUME NEW j \in Jobs, CheckQueue(j) PROVE Fresh'
    BY <1>1, <2>3 DEF Fresh, Early, QueuedRows, Rows, Active, Waiting, CheckQueue, Goto,
       dbVars, runVars, histVars
  <2>4. ASSUME NEW j \in Jobs, CheckSize(j) PROVE Fresh'
    BY <1>1, <2>4 DEF Fresh, Early, QueuedRows, Rows, Active, Waiting, CheckSize, Goto,
       runVars, histVars
  <2>5. ASSUME NEW j \in Jobs, Reject(j) PROVE Fresh'
    BY <1>1, <2>5 DEF Fresh, Early, QueuedRows, Rows, Active, Waiting, Reject, Goto,
       SetStatus, runVars, histVars
  <2>6. ASSUME NEW j \in Jobs, ReadOrder(j) PROVE Fresh'
    BY <1>1, <2>6 DEF Fresh, Early, QueuedRows, Rows, Active, Waiting, ReadOrder, Goto,
       runVars, histVars
  <2>7. ASSUME NEW j \in Jobs, Insert(j) PROVE Fresh'
    BY <1>1, <2>7 DEF TypeOK, Fresh, Early, QueuedRows, Rows, Active, Waiting, Insert,
       Goto, runVars, histVars
  <2>8. ASSUME NEW j \in Jobs, MarkQueued(j) PROVE Fresh'
    BY <1>1, <2>8 DEF Fresh, Early, QueuedRows, Rows, Active, Waiting, MarkQueued, Goto,
       SetStatus, runVars, histVars
  <2>9. ASSUME NEW j \in Jobs, PostQueued(j) PROVE Fresh'
    BY <1>1, <2>9 DEF TypeOK, InHand, Fresh, EarlyStatus, Early, QueuedRows, Rows,
       Active, Waiting, PostQueued, Goto, SetStatus, runVars, histVars
  <2>10. ASSUME NEW j \in Jobs, StartDirect(j) PROVE Fresh'
    BY <1>1, <2>10 DEF TypeOK, InHand, Fresh, EarlyStatus, Early, QueuedRows, Rows,
       Active, Waiting, StartDirect, Goto, dbVars, histVars
  <2>11. ASSUME Watchdog PROVE Fresh'
    BY <1>1, <2>11 DEF Fresh, Early, QueuedRows, Rows, Active, Waiting, Watchdog,
       dbVars, runVars, histVars
  <2>12. ASSUME NEW d \in Dispatchers, DispatchBlocked(d) PROVE Fresh'
    BY <1>1, <2>12 DEF Fresh, Early, QueuedRows, Rows, Active, Waiting, DispatchBlocked,
       dbVars, runVars, histVars
  <2>13. ASSUME NEW d \in Dispatchers, DispatchClear(d) PROVE Fresh'
    BY <1>1, <2>13 DEF Fresh, Early, QueuedRows, Rows, Active, Waiting, DispatchClear,
       dbVars, runVars, histVars
  <2>14. ASSUME NEW d \in Dispatchers, FindNothing(d) PROVE Fresh'
    BY <1>1, <2>14 DEF Fresh, Early, QueuedRows, Rows, Active, Waiting, FindNothing,
       dbVars, runVars, histVars
  <2>15. ASSUME NEW d \in Dispatchers, PickNext(d) PROVE Fresh'
    BY <1>1, <2>15 DEF Fresh, Early, QueuedRows, Rows, Active, Waiting, PickNext,
       dbVars, runVars, histVars
  <2>16. ASSUME NEW d \in Dispatchers, DeleteRow(d) PROVE Fresh'
    BY <1>1, <2>16 DEF TypeOK, InHand, Fresh, EarlyStatus, Early, QueuedRows, Rows,
       Active, Waiting, DeleteRow, runVars, histVars
  <2>17. ASSUME NEW d \in Dispatchers, StartDequeued(d) PROVE Fresh'
    BY <1>1, <2>17 DEF Fresh, Early, QueuedRows, Rows, Active, Waiting, StartDequeued,
       SetStatus, Release, histVars
  <2>18. ASSUME NEW d \in Dispatchers, FailDequeued(d) PROVE Fresh'
    BY <1>1, <2>18 DEF Fresh, Early, QueuedRows, Rows, Active, Waiting, FailDequeued,
       SetStatus, Release, histVars
  <2>19. ASSUME NEW j \in Jobs, RunBegin(j) PROVE Fresh'
    BY <1>1, <2>19 DEF Fresh, Early, QueuedRows, Rows, Active, Waiting, RunBegin,
       SetStatus, histVars
  <2>20. ASSUME NEW j \in Jobs, RunRefused(j) PROVE Fresh'
    BY <1>1, <2>20 DEF Fresh, Early, QueuedRows, Rows, Active, Waiting, RunRefused, histVars
  <2>21. ASSUME NEW j \in Jobs, RunEnd(j) PROVE Fresh'
    BY <1>1, <2>21 DEF Fresh, Early, QueuedRows, Rows, Active, Waiting, RunEnd,
       SetStatus, histVars
  <2>22. ASSUME NEW j \in Jobs, LeaseLapse(j) PROVE Fresh'
    BY <1>1, <2>22 DEF Fresh, Early, QueuedRows, Rows, Active, Waiting, LeaseLapse,
       runVars, histVars
  <2>23. ASSUME NEW c \in Clients, NEW j \in Jobs, PauseRow(c, j) PROVE Fresh'
    BY <1>1, <2>23 DEF Fresh, Early, QueuedRows, Rows, Active, Waiting, PauseRow, Serve,
       runVars, histVars
  <2>24. ASSUME NEW c \in Clients, PauseJob(c) PROVE Fresh'
    BY <1>1, <2>24 DEF Fresh, Early, QueuedRows, Rows, Active, Waiting, PauseJob,
       SetStatus, Serve, runVars, histVars
  <2>25. ASSUME NEW c \in Clients, NEW j \in Jobs, ResumeRow(c, j) PROVE Fresh'
    BY <1>1, <2>25 DEF Fresh, Early, QueuedRows, Rows, Active, Waiting, ResumeRow,
       Serve, runVars, histVars
  <2>26. ASSUME NEW c \in Clients, ResumeJob(c) PROVE Fresh'
    BY <1>1, <2>26 DEF Fresh, Early, QueuedRows, Rows, Active, Waiting, ResumeJob,
       SetStatus, Serve, runVars, histVars
  <2>27. ASSUME NEW c \in Clients, NEW j \in Jobs, RemoveRead(c, j) PROVE Fresh'
    BY <1>1, <2>27 DEF Fresh, Early, QueuedRows, Rows, Active, Waiting, RemoveRead,
       Serve, dbVars, runVars, histVars
  <2>28. ASSUME NEW c \in Clients, RemoveRow(c) PROVE Fresh'
    BY <1>1, <2>28 DEF Fresh, Early, QueuedRows, Rows, Active, Waiting, RemoveRow,
       SetStatus, Serve, runVars
  <2>29. ASSUME NEW j \in Jobs, CancelQueued(j) PROVE Fresh'
    BY <1>1, <2>29 DEF Fresh, Early, QueuedRows, Rows, Active, Waiting, CancelQueued,
       SetStatus, runVars
  <2>30. ASSUME NEW j \in Jobs, CancelFallback(j) PROVE Fresh'
    BY <1>1, <2>30 DEF Fresh, Early, QueuedRows, Rows, Active, Waiting, CancelFallback,
       SetStatus, runVars
  <2>31. ASSUME Reorder PROVE Fresh'
    BY <1>1, <2>31 DEF Fresh, Early, QueuedRows, Rows, Active, Waiting, Reorder,
       runVars, histVars
  <2>32. ASSUME Crash PROVE Fresh'
    <3>1. SUFFICES ASSUME NEW j \in Jobs, sub'[j] \in Early \union {"new"}
                   PROVE  /\ rowst'[j] = "none" /\ launched'[j] = 0 /\ executing'[j] = 0 /\ starts'[j] = 0
                          /\ j \notin direct' \union interrupted'
                          /\ \A d \in Dispatchers : djob'[d] # j
                          /\ \A c \in Clients : cjob'[c] # j
      BY DEF Fresh
    <3>2. sub[j] = "new"
      BY <2>32, <3>1 DEF Crash, Early
    <3>3. QED
      BY <1>1, <2>32, <3>1, <3>2 DEF Fresh, Crash, Idle, dbVars
  <2>33. ASSUME NEW j \in Jobs, Reclaim(j) PROVE Fresh'
    BY <1>1, <2>33 DEF Fresh, EarlyStatus, Early, QueuedRows, Rows, Active, Waiting,
       Reclaim, SetStatus, histVars
  <2>34. QED
    BY <1>2, <2>1, <2>2, <2>3, <2>4, <2>5, <2>6, <2>7, <2>8, <2>9, <2>10, <2>11,
       <2>12, <2>13, <2>14, <2>15, <2>16, <2>17, <2>18, <2>19, <2>20, <2>21, <2>22,
       <2>23, <2>24, <2>25, <2>26, <2>27, <2>28, <2>29, <2>30, <2>31, <2>32, <2>33
       DEF Next, SubmitStep, DispatchStep, ClientStep, ClientRequest
<1>3. CASE UNCHANGED vars
  BY <1>1, <1>3 DEF Fresh, Early, QueuedRows, Rows, Active, Waiting, vars
<1>4. QED
  BY <1>1, <1>2, <1>3

\* ... so that its status is the submission's, or that of a cancellation.
LEMMA EarlyStatusStep == TypeOK /\ InHand /\ Fresh /\ EarlyStatus /\ [Next]_vars => EarlyStatus'
<1> USE JobsAssumption
<1>1. SUFFICES ASSUME TypeOK, InHand, Fresh, EarlyStatus, [Next]_vars PROVE EarlyStatus'
  OBVIOUS
<1>2. CASE Next
  <2>1. ASSUME NEW j \in Jobs, Submit(j) PROVE EarlyStatus'
    BY <1>1, <2>1 DEF TypeOK, EarlyStatus, Early, Rows, Active, Waiting, Submit, Goto,
       SetStatus, runVars, histVars
  <2>2. ASSUME NEW j \in Jobs, CheckActive(j) PROVE EarlyStatus'
    BY <1>1, <2>2 DEF EarlyStatus, Early, Rows, Active, Waiting, CheckActive, Goto,
       dbVars, runVars, histVars
  <2>3. ASSUME NEW j \in Jobs, CheckQueue(j) PROVE EarlyStatus'
    BY <1>1, <2>3 DEF EarlyStatus, Early, Rows, Active, Waiting, CheckQueue, Goto,
       dbVars, runVars, histVars
  <2>4. ASSUME NEW j \in Jobs, CheckSize(j) PROVE EarlyStatus'
    BY <1>1, <2>4 DEF EarlyStatus, Early, Rows, Active, Waiting, CheckSize, Goto,
       runVars, histVars
  <2>5. ASSUME NEW j \in Jobs, Reject(j) PROVE EarlyStatus'
    BY <1>1, <2>5 DEF TypeOK, EarlyStatus, Early, Rows, Active, Waiting, Reject, Goto,
       SetStatus, runVars, histVars
  <2>6. ASSUME NEW j \in Jobs, ReadOrder(j) PROVE EarlyStatus'
    BY <1>1, <2>6 DEF EarlyStatus, Early, Rows, Active, Waiting, ReadOrder, Goto,
       runVars, histVars
  <2>7. ASSUME NEW j \in Jobs, Insert(j) PROVE EarlyStatus'
    BY <1>1, <2>7 DEF EarlyStatus, Early, Rows, Active, Waiting, Insert, Goto, runVars,
       histVars
  <2>8. ASSUME NEW j \in Jobs, MarkQueued(j) PROVE EarlyStatus'
    BY <1>1, <2>8 DEF EarlyStatus, Early, Rows, Active, Waiting, MarkQueued, Goto,
       SetStatus, runVars, histVars
  <2>9. ASSUME NEW j \in Jobs, PostQueued(j) PROVE EarlyStatus'
    BY <1>1, <2>9 DEF TypeOK, EarlyStatus, Early, Rows, Active, Waiting, PostQueued,
       Goto, SetStatus, runVars, histVars
  <2>10. ASSUME NEW j \in Jobs, StartDirect(j) PROVE EarlyStatus'
    BY <1>1, <2>10 DEF EarlyStatus, Early, Rows, Active, Waiting, StartDirect, Goto,
       dbVars, histVars
  <2>11. ASSUME Watchdog PROVE EarlyStatus'
    BY <1>1, <2>11 DEF EarlyStatus, Early, Rows, Active, Waiting, Watchdog, dbVars,
       runVars, histVars
  <2>12. ASSUME NEW d \in Dispatchers, DispatchBlocked(d) PROVE EarlyStatus'
    BY <1>1, <2>12 DEF EarlyStatus, Early, Rows, Active, Waiting, DispatchBlocked,
       dbVars, runVars, histVars
  <2>13. ASSUME NEW d \in Dispatchers, DispatchClear(d) PROVE EarlyStatus'
    BY <1>1, <2>13 DEF EarlyStatus, Early, Rows, Active, Waiting, DispatchClear, dbVars,
       runVars, histVars
  <2>14. ASSUME NEW d \in Dispatchers, FindNothing(d) PROVE EarlyStatus'
    BY <1>1, <2>14 DEF EarlyStatus, Early, Rows, Active, Waiting, FindNothing, dbVars,
       runVars, histVars
  <2>15. ASSUME NEW d \in Dispatchers, PickNext(d) PROVE EarlyStatus'
    BY <1>1, <2>15 DEF EarlyStatus, Early, Rows, Active, Waiting, PickNext, dbVars,
       runVars, histVars
  <2>16. ASSUME NEW d \in Dispatchers, DeleteRow(d) PROVE EarlyStatus'
    BY <1>1, <2>16 DEF EarlyStatus, Early, Rows, Active, Waiting, DeleteRow, runVars,
       histVars
  <2>17. ASSUME NEW d \in Dispatchers, StartDequeued(d) PROVE EarlyStatus'
    BY <1>1, <2>17 DEF Fresh, EarlyStatus, Early, Rows, Active, Waiting, StartDequeued,
       SetStatus, Release, histVars
  <2>18. ASSUME NEW d \in Dispatchers, FailDequeued(d) PROVE EarlyStatus'
    BY <1>1, <2>18 DEF Fresh, EarlyStatus, Early, Rows, Active, Waiting, FailDequeued,
       SetStatus, Release, histVars
  <2>19. ASSUME NEW j \in Jobs, RunBegin(j) PROVE EarlyStatus'
    BY <1>1, <2>19 DEF Fresh, EarlyStatus, Early, Rows, Active, Waiting, RunBegin,
       SetStatus, histVars
  <2>20. ASSUME NEW j \in Jobs, RunRefused(j) PROVE EarlyStatus'
    BY <1>1, <2>20 DEF TypeOK, Fresh, EarlyStatus, Early, Rows, Active, Waiting,
       RunRefused, histVars
  <2>21. ASSUME NEW j \in Jobs, RunEnd(j) PROVE EarlyStatus'
    BY <1>1, <2>21 DEF Fresh, EarlyStatus, Early, Rows, Active, Waiting, RunEnd,
       SetStatus, histVars
  <2>22. ASSUME NEW j \in Jobs, LeaseLapse(j) PROVE EarlyStatus'
    BY <1>1, <2>22 DEF EarlyStatus, Early, Rows, Active, Waiting, LeaseLapse, runVars,
       histVars
  <2>23. ASSUME NEW c \in Clients, NEW j \in Jobs, PauseRow(c, j) PROVE EarlyStatus'
    BY <1>1, <2>23 DEF EarlyStatus, Early, Rows, Active, Waiting, PauseRow, Serve,
       runVars, histVars
  <2>24. ASSUME NEW c \in Clients, PauseJob(c) PROVE EarlyStatus'
    BY <1>1, <2>24 DEF Fresh, EarlyStatus, Early, Rows, Active, Waiting, PauseJob,
       SetStatus, Serve, runVars, histVars
  <2>25. ASSUME NEW c \in Clients, NEW j \in Jobs, ResumeRow(c, j) PROVE EarlyStatus'
    BY <1>1, <2>25 DEF EarlyStatus, Early, Rows, Active, Waiting, ResumeRow, Serve,
       runVars, histVars
  <2>26. ASSUME NEW c \in Clients, ResumeJob(c) PROVE EarlyStatus'
    BY <1>1, <2>26 DEF Fresh, EarlyStatus, Early, Rows, Active, Waiting, ResumeJob,
       SetStatus, Serve, runVars, histVars
  <2>27. ASSUME NEW c \in Clients, NEW j \in Jobs, RemoveRead(c, j) PROVE EarlyStatus'
    BY <1>1, <2>27 DEF EarlyStatus, Early, Rows, Active, Waiting, RemoveRead, Serve,
       dbVars, runVars, histVars
  <2>28. ASSUME NEW c \in Clients, RemoveRow(c) PROVE EarlyStatus'
    BY <1>1, <2>28 DEF TypeOK, EarlyStatus, Early, Rows, Active, Waiting, RemoveRow,
       SetStatus, Serve, runVars
  <2>29. ASSUME NEW j \in Jobs, CancelQueued(j) PROVE EarlyStatus'
    BY <1>1, <2>29 DEF EarlyStatus, Early, Rows, Active, Waiting, CancelQueued,
       SetStatus, runVars
  <2>30. ASSUME NEW j \in Jobs, CancelFallback(j) PROVE EarlyStatus'
    BY <1>1, <2>30 DEF TypeOK, EarlyStatus, Early, Rows, Active, Waiting,
       CancelFallback, SetStatus, runVars
  <2>31. ASSUME Reorder PROVE EarlyStatus'
    BY <1>1, <2>31 DEF EarlyStatus, Early, Rows, Active, Waiting, Reorder, runVars, histVars
  <2>32. ASSUME Crash PROVE EarlyStatus'
    BY <1>1, <2>32 DEF EarlyStatus, Early, Rows, Active, Waiting, Crash, dbVars
  <2>33. ASSUME NEW j \in Jobs, Reclaim(j) PROVE EarlyStatus'
    BY <1>1, <2>33 DEF EarlyStatus, Early, Rows, Active, Waiting, Reclaim, SetStatus,
       histVars
  <2>34. QED
    BY <1>2, <2>1, <2>2, <2>3, <2>4, <2>5, <2>6, <2>7, <2>8, <2>9, <2>10, <2>11,
       <2>12, <2>13, <2>14, <2>15, <2>16, <2>17, <2>18, <2>19, <2>20, <2>21, <2>22,
       <2>23, <2>24, <2>25, <2>26, <2>27, <2>28, <2>29, <2>30, <2>31, <2>32, <2>33
       DEF Next, SubmitStep, DispatchStep, ClientStep, ClientRequest
<1>3. CASE UNCHANGED vars
  BY <1>1, <1>3 DEF EarlyStatus, Early, Rows, Active, Waiting, vars
<1>4. QED
  BY <1>1, <1>2, <1>3
-----------------------------------------------------------------------------
(* Jobs started past the queue.                                            *)

\* A job its submission started itself never had a queue row: it has one run at
\* most, under an active status unless the user cancelled it.
StraightRun ==
    \A j \in direct :
        /\ sub[j] = "done" /\ rowst[j] = "none"
        /\ \A d \in Dispatchers : djob[d] # j
        /\ \A c \in Clients : cjob[c] # j
        /\ launched[j] + executing[j] <= 1
        /\ Live(j) => status[j] \in Active \/ j \in cancelled

\* A submission contends from the moment it saw no other active job.
Contending(j) == sub[j] \in {"check_queue", "start"} \/ (j \in direct /\ Live(j))

\* DirectStartExclusion, from one step earlier on.
Exclusion == \A i, j \in Jobs \ cancelled : i # j => ~(Contending(i) /\ Contending(j))

\* No other handler ever touches such a job, and it is not run twice.
LEMMA StraightRunStep == TypeOK /\ InHand /\ Fresh /\ EarlyStatus /\ StraightRun /\ [Next]_vars => StraightRun'
<1> USE JobsAssumption
<1>1. SUFFICES ASSUME TypeOK, InHand, Fresh, EarlyStatus, StraightRun, [Next]_vars PROVE StraightRun'
  OBVIOUS
<1>2. CASE Next
  <2>1. ASSUME NEW j \in Jobs, Submit(j) PROVE StraightRun'
    BY <1>1, <2>1 DEF StraightRun, Early, QueuedRows, Rows, Live, Active, Waiting,
       Terminal, Submit, Goto, SetStatus, runVars, histVars
  <2>2. ASSUME NEW j \in Jobs, CheckActive(j) PROVE StraightRun'
    BY <1>1, <2>2 DEF StraightRun, Early, QueuedRows, Rows, Live, Active, Waiting,
       Terminal, CheckActive, Goto, dbVars, runVars, histVars
  <2>3. ASSUME NEW j \in Jobs, CheckQueue(j) PROVE StraightRun'
    BY <1>1, <2>3 DEF StraightRun, Early, QueuedRows, Rows, Live, Active, Waiting,
       Terminal, CheckQueue, Goto, dbVars, runVars, histVars
  <2>4. ASSUME NEW j \in Jobs, CheckSize(j) PROVE StraightRun'
    BY <1>1, <2>4 DEF StraightRun, Early, QueuedRows, Rows, Live, Active, Waiting,
       Terminal, CheckSize, Goto, runVars, histVars
  <2>5. ASSUME NEW j \in Jobs, Reject(j) PROVE StraightRun'
    BY <1>1, <2>5 DEF StraightRun, Early, QueuedRows, Rows, Live, Active, Waiting,
       Terminal, Reject, Goto, SetStatus, runVars, histVars
  <2>6. ASSUME NEW j \in Jobs, ReadOrder(j) PROVE StraightRun'
    BY <1>1, <2>6 DEF StraightRun, Early, QueuedRows, Rows, Live, Active, Waiting,
       Terminal, ReadOrder, Goto, runVars, histVars
  <2>7. ASSUME NEW j \in Jobs, Insert(j) PROVE StraightRun'
    BY <1>1, <2>7 DEF StraightRun, Early, QueuedRows, Rows, Live, Active, Waiting,
       Terminal, Insert, Goto, runVars, histVars
  <2>8. ASSUME NEW j \in Jobs, MarkQueued(j) PROVE StraightRun'
    BY <1>1, <2>8 DEF StraightRun, Early, QueuedRows, Rows, Live, Active, Waiting,
       Terminal, MarkQueued, Goto, SetStatus, runVars, histVars
  <2>9. ASSUME NEW j \in Jobs, PostQueued(j) PROVE StraightRun'
    BY <1>1, <2>9 DEF TypeOK, StraightRun, Early, QueuedRows, Rows, Live, Active,
       Waiting, Terminal, PostQueued, Goto, SetStatus, runVars, histVars
  <2>10. ASSUME NEW j \in Jobs, StartDirect(j) PROVE StraightRun'
    BY <1>1, <2>10 DEF TypeOK, Fresh, EarlyStatus, StraightRun, Early, QueuedRows, Rows,
       Live, Active, Waiting, Terminal, StartDirect, Goto, dbVars, histVars
  <2>11. ASSUME Watchdog PROVE StraightRun'
    BY <1>1, <2>11 DEF StraightRun, Early, QueuedRows, Rows, Live, Active, Waiting,
       Terminal, Watchdog, dbVars, runVars, histVars
  <2>12. ASSUME NEW d \in Dispatchers, DispatchBlocked(d) PROVE StraightRun'
    BY <1>1, <2>12 DEF StraightRun, Early, QueuedRows, Rows, Live, Active, Waiting,
       Terminal, DispatchBlocked, dbVars, runVars, histVars
  <2>13. ASSUME NEW d \in Dispatchers, DispatchClear(d) PROVE StraightRun'
    BY <1>1, <2>13 DEF StraightRun, Early, QueuedRows, Rows, Live, Active, Waiting,
       Terminal, DispatchClear, dbVars, runVars, histVars
  <2>14. ASSUME NEW d \in Dispatchers, FindNothing(d) PROVE StraightRun'
    BY <1>1, <2>14 DEF StraightRun, Early, QueuedRows, Rows, Live, Active, Waiting,
       Terminal, FindNothing, dbVars, runVars, histVars
  <2>15. ASSUME NEW d \in Dispatchers, PickNext(d) PROVE StraightRun'
    BY <1>1, <2>15 DEF StraightRun, Early, QueuedRows, Rows, Live, Active, Waiting,
       Terminal, PickNext, dbVars, runVars, histVars
  <2>16. ASSUME NEW d \in Dispatchers, DeleteRow(d) PROVE StraightRun'
    BY <1>1, <2>16 DEF StraightRun, Early, QueuedRows, Rows, Live, Active, Waiting,
       Terminal, DeleteRow, runVars, histVars
  <2>17. ASSUME NEW d \in Dispatchers, StartDequeued(d) PROVE StraightRun'
    BY <1>1, <2>17 DEF TypeOK, StraightRun, Early, QueuedRows, Rows, Live, Active,
       Waiting, Terminal, StartDequeued, SetStatus, Release, histVars
  <2>18. ASSUME NEW d \in Dispatchers, FailDequeued(d) PROVE StraightRun'
    BY <1>1, <2>18 DEF TypeOK, StraightRun, Early, QueuedRows, Rows, Live, Active,
       Waiting, Terminal, FailDequeued, SetStatus, Release, histVars
  <2>19. ASSUME NEW j \in Jobs, RunBegin(j) PROVE StraightRun'
    BY <1>1, <2>19 DEF TypeOK, StraightRun, Early, QueuedRows, Rows, Live, Active,
       Waiting, Terminal, RunBegin, SetStatus, histVars
  <2>20. ASSUME NEW j \in Jobs, RunRefused(j) PROVE StraightRun'
    BY <1>1, <2>20 DEF TypeOK, StraightRun, Early, QueuedRows, Rows, Live, Active,
       Waiting, Terminal, RunRefused, histVars
  <2>21. ASSUME NEW j \in Jobs, RunEnd(j) PROVE StraightRun'
    BY <1>1, <2>21 DEF TypeOK, StraightRun, Early, QueuedRows, Rows, Live, Active,
       Waiting, Terminal, RunEnd, SetStatus, histVars
  <2>22. ASSUME NEW j \in Jobs, LeaseLapse(j) PROVE StraightRun'
    BY <1>1, <2>22 DEF StraightRun, Early, QueuedRows, Rows, Live, Active, Waiting,
       Terminal, LeaseLapse, runVars, histVars
  <2>23. ASSUME NEW c \in Clients, NEW j \in Jobs, PauseRow(c, j) PROVE StraightRun'
    BY <1>1, <2>23 DEF StraightRun, Early, QueuedRows, Rows, Live, Active, Waiting,
       Terminal, PauseRow, Serve, runVars, histVars
  <2>24. ASSUME NEW c \in Clients, PauseJob(c) PROVE StraightRun'
    BY <1>1, <2>24 DEF TypeOK, StraightRun, Early, QueuedRows, Rows, Live, Active,
       Waiting, Terminal, PauseJob, SetStatus, Serve, runVars, histVars
  <2>25. ASSUME NEW c \in Clients, NEW j \in Jobs, ResumeRow(c, j) PROVE StraightRun'
    BY <1>1, <2>25 DEF StraightRun, Early, QueuedRows, Rows, Live, Active, Waiting,
       Terminal, ResumeRow, Serve, runVars, histVars
  <2>26. ASSUME NEW c \in Clients, ResumeJob(c) PROVE StraightRun'
    BY <1>1, <2>26 DEF TypeOK, StraightRun, Early, QueuedRows, Rows, Live, Active,
       Waiting, Terminal, ResumeJob, SetStatus, Serve, runVars, histVars
  <2>27. ASSUME NEW c \in Clients, NEW j \in Jobs, RemoveRead(c, j) PROVE StraightRun'
    BY <1>1, <2>27 DEF StraightRun, Early, QueuedRows, Rows, Live, Active, Waiting,
       Terminal, RemoveRead, Serve, dbVars, runVars, histVars
  <2>28. ASSUME NEW c \in Clients, RemoveRow(c) PROVE StraightRun'
    BY <1>1, <2>28 DEF TypeOK, StraightRun, Early, QueuedRows, Rows, Live, Active,
       Waiting, Terminal, RemoveRow, SetStatus, Serve, runVars
  <2>29. ASSUME NEW j \in Jobs, CancelQueued(j) PROVE StraightRun'
    BY <1>1, <2>29 DEF StraightRun, Early, QueuedRows, Rows, Live, Active, Waiting,
       Terminal, CancelQueued, SetStatus, runVars
  <2>30. ASSUME NEW j \in Jobs, CancelFallback(j) PROVE StraightRun'
    BY <1>1, <2>30 DEF StraightRun, Early, QueuedRows, Rows, Live, Active, Waiting,
       Terminal, CancelFallback, SetStatus, runVars
  <2>31. ASSUME Reorder PROVE StraightRun'
    BY <1>1, <2>31 DEF StraightRun, Early, QueuedRows, Rows, Live, Active, Waiting,
       Terminal, Reorder, runVars, histVars
  <2>32. ASSUME Crash PROVE StraightRun'
    BY <1>1, <2>32 DEF StraightRun, Early, QueuedRows, Rows, Live, Active, Waiting,
       Terminal, Crash, dbVars
  <2>33. ASSUME NEW j \in Jobs, Reclaim(j) PROVE StraightRun'
    BY <1>1, <2>33 DEF StraightRun, Early, QueuedRows, Rows, Live, Active, Waiting,
       Terminal, Reclaim, SetStatus, histVars
  <2>34. QED
    BY <1>2, <2>1, <2>2, <2>3, <2>4, <2>5, <2>6, <2>7, <2>8, <2>9, <2>10, <2>11,
       <2>12, <2>13, <2>14, <2>15, <2>16, <2>17, <2>18, <2>19, <2>20, <2>21, <2>22,
       <2>23, <2>24, <2>25, <2>26, <2>27, <2>28, <2>29, <2>30, <2>31, <2>32, <2>33
       DEF Next, SubmitStep, DispatchStep, ClientStep, ClientRequest
<1>3. CASE UNCHANGED vars
  BY <1>1, <1>3 DEF StraightRun, Early, QueuedRows, Rows, Live, Active, Waiting, Terminal,
     vars
<1>4. QED
  BY <1>1, <1>2, <1>3

\* A submission enters the contention only when it sees no active job, and whoever
\* is in it has made its own job active before.
LEMMA ExclusionStep == TypeOK /\ InHand /\ Fresh /\ EarlyStatus /\ StraightRun /\ Exclusion /\ [Next]_vars => Exclusion'
<1> USE JobsAssumption
<1>1. SUFFICES ASSUME TypeOK, InHand, Fresh, EarlyStatus, StraightRun, Exclusion, [Next]_vars PROVE Exclusion'
  OBVIOUS
<1>2. CASE Next
  <2>1. ASSUME NEW j \in Jobs, Submit(j) PROVE Exclusion'
    BY <1>1, <2>1 DEF StraightRun, Exclusion, Contending, Early, Rows, Live, Active,
       Waiting, Submit, Goto, SetStatus, runVars, histVars
  <2>2. ASSUME NEW j \in Jobs, CheckActive(j) PROVE Exclusion'
    BY <1>1, <2>2 DEF EarlyStatus, StraightRun, Exclusion, Contending, Early, Rows,
       Live, Active, Waiting, CheckActive, Goto, dbVars, runVars, histVars,
       HasActiveOther
  <2>3. ASSUME NEW j \in Jobs, CheckQueue(j) PROVE Exclusion'
    BY <1>1, <2>3 DEF StraightRun, Exclusion, Contending, Early, Rows, Live, Active,
       Waiting, CheckQueue, Goto, dbVars, runVars, histVars
  <2>4. ASSUME NEW j \in Jobs, CheckSize(j) PROVE Exclusion'
    BY <1>1, <2>4 DEF StraightRun, Exclusion, Contending, Early, Rows, Live, Active,
       Waiting, CheckSize, Goto, runVars, histVars
  <2>5. ASSUME NEW j \in Jobs, Reject(j) PROVE Exclusion'
    BY <1>1, <2>5 DEF StraightRun, Exclusion, Contending, Early, Rows, Live, Active,
       Waiting, Reject, Goto, SetStatus, runVars, histVars
  <2>6. ASSUME NEW j \in Jobs, ReadOrder(j) PROVE Exclusion'
    BY <1>1, <2>6 DEF StraightRun, Exclusion, Contending, Early, Rows, Live, Active,
       Waiting, ReadOrder, Goto, runVars, histVars
  <2>7. ASSUME NEW j \in Jobs, Insert(j) PROVE Exclusion'
    BY <1>1, <2>7 DEF StraightRun, Exclusion, Contending, Early, Rows, Live, Active,
       Waiting, Insert, Goto, runVars, histVars
  <2>8. ASSUME NEW j \in Jobs, MarkQueued(j) PROVE Exclusion'
    BY <1>1, <2>8 DEF StraightRun, Exclusion, Contending, Early, Rows, Live, Active,
       Waiting, MarkQueued, Goto, SetStatus, runVars, histVars
  <2>9. ASSUME NEW j \in Jobs, PostQueued(j) PROVE Exclusion'
    BY <1>1, <2>9 DEF StraightRun, Exclusion, Contending, Early, Rows, Live, Active,
       Waiting, PostQueued, Goto, SetStatus, runVars, histVars
  <2>10. ASSUME NEW j \in Jobs, StartDirect(j) PROVE Exclusion'
    BY <1>1, <2>10 DEF StraightRun, Exclusion, Contending, Early, Rows, Live, Active,
       Waiting, StartDirect, Goto, dbVars, histVars
  <2>11. ASSUME Watchdog PROVE Exclusion'
    BY <1>1, <2>11 DEF StraightRun, Exclusion, Contending, Early, Rows, Live, Active,
       Waiting, Watchdog, dbVars, runVars, histVars
  <2>12. ASSUME NEW d \in Dispatchers, DispatchBlocked(d) PROVE Exclusion'
    BY <1>1, <2>12 DEF StraightRun, Exclusion, Contending, Early, Rows, Live, Active,
       Waiting, DispatchBlocked, dbVars, runVars, histVars
  <2>13. ASSUME NEW d \in Dispatchers, DispatchClear(d) PROVE Exclusion'
    BY <1>1, <2>13 DEF StraightRun, Exclusion, Contending, Early, Rows, Live, Active,
       Waiting, DispatchClear, dbVars, runVars, histVars
  <2>14. ASSUME NEW d \in Dispatchers, FindNothing(d) PROVE Exclusion'
    BY <1>1, <2>14 DEF StraightRun, Exclusion, Contending, Early, Rows, Live, Active,
       Waiting, FindNothing, dbVars, runVars, histVars
  <2>15. ASSUME NEW d \in Dispatchers, PickNext(d) PROVE Exclusion'
    BY <1>1, <2>15 DEF StraightRun, Exclusion, Contending, Early, Rows, Live, Active,
       Waiting, PickNext, dbVars, runVars, histVars
  <2>16. ASSUME NEW d \in Dispatchers, DeleteRow(d) PROVE Exclusion'
    BY <1>1, <2>16 DEF StraightRun, Exclusion, Contending, Early, Rows, Live, Active,
       Waiting, DeleteRow, runVars, histVars
  <2>17. ASSUME NEW d \in Dispatchers, StartDequeued(d) PROVE Exclusion'
    BY <1>1, <2>17 DEF StraightRun, Exclusion, Contending, Early, Rows, Live, Active,
       Waiting, StartDequeued, SetStatus, Release, histVars
  <2>18. ASSUME NEW d \in Dispatchers, FailDequeued(d) PROVE Exclusion'
    BY <1>1, <2>18 DEF StraightRun, Exclusion, Contending, Early, Rows, Live, Active,
       Waiting, FailDequeued, SetStatus, Release, histVars
  <2>19. ASSUME NEW j \in Jobs, RunBegin(j) PROVE Exclusion'
    BY <1>1, <2>19 DEF TypeOK, StraightRun, Exclusion, Contending, Early, Rows, Live,
       Active, Waiting, RunBegin, SetStatus, histVars
  <2>20. ASSUME NEW j \in Jobs, RunRefused(j) PROVE Exclusion'
    BY <1>1, <2>20 DEF TypeOK, StraightRun, Exclusion, Contending, Early, Rows, Live,
       Active, Waiting, RunRefused, histVars
  <2>21. ASSUME NEW j \in Jobs, RunEnd(j) PROVE Exclusion'
    BY <1>1, <2>21 DEF TypeOK, StraightRun, Exclusion, Contending, Early, Rows, Live,
       Active, Waiting, RunEnd, SetStatus, histVars
  <2>22. ASSUME NEW j \in Jobs, LeaseLapse(j) PROVE Exclusion'
    BY <1>1, <2>22 DEF StraightRun, Exclusion, Contending, Early, Rows, Live, Active,
       Waiting, LeaseLapse, runVars, histVars
  <2>23. ASSUME NEW c \in Clients, NEW j \in Jobs, PauseRow(c, j) PROVE Exclusion'
    BY <1>1, <2>23 DEF StraightRun, Exclusion, Contending, Early, Rows, Live, Active,
       Waiting, PauseRow, Serve, runVars, histVars
  <2>24. ASSUME NEW c \in Clients, PauseJob(c) PROVE Exclusion'
    BY <1>1, <2>24 DEF StraightRun, Exclusion, Contending, Early, Rows, Live, Active,
       Waiting, PauseJob, SetStatus, Serve, runVars, histVars
  <2>25. ASSUME NEW c \in Clients, NEW j \in Jobs, ResumeRow(c, j) PROVE Exclusion'
    BY <1>1, <2>25 DEF StraightRun, Exclusion, Contending, Early, Rows, Live, Active,
       Waiting, ResumeRow, Serve, runVars, histVars
  <2>26. ASSUME NEW c \in Clients, ResumeJob(c) PROVE Exclusion'
    BY <1>1, <2>26 DEF StraightRun, Exclusion, Contending, Early, Rows, Live, Active,
       Waiting, ResumeJob, SetStatus, Serve, runVars, histVars
  <2>27. ASSUME NEW c \in Clients, NEW j \in Jobs, RemoveRead(c, j) PROVE Exclusion'
    BY <1>1, <2>27 DEF StraightRun, Exclusion, Contending, Early, Rows, Live, Active,
       Waiting, RemoveRead, Serve, dbVars, runVars, histVars
  <2>28. ASSUME NEW c \in Clients, RemoveRow(c) PROVE Exclusion'
    BY <1>1, <2>28 DEF StraightRun, Exclusion, Contending, Early, Rows, Live, Active,
       Waiting, RemoveRow, SetStatus, Serve, runVars
  <2>29. ASSUME NEW j \in Jobs, CancelQueued(j) PROVE Exclusion'
    BY <1>1, <2>29 DEF StraightRun, Exclusion, Contending, Early, Rows, Live, Active,
       Waiting, CancelQueued, SetStatus, runVars
  <2>30. ASSUME NEW j \in Jobs, CancelFallback(j) PROVE Exclusion'
    BY <1>1, <2>30 DEF StraightRun, Exclusion, Contending, Early, Rows, Live, Active,
       Waiting, CancelFallback, SetStatus, runVars
  <2>31. ASSUME Reorder PROVE Exclusion'
    BY <1>1, <2>31 DEF StraightRun, Exclusion, Contending, Early, Rows, Live, Active,
       Waiting, Reorder, runVars, histVars
  <2>32. ASSUME Crash PROVE Exclusion'
    BY <1>1, <2>32 DEF StraightRun, Exclusion, Contending, Early, Rows, Live, Active,
       Waiting, Crash, dbVars
  <2>33. ASSUME NEW j \in Jobs, Reclaim(j) PROVE Exclusion'
    BY <1>1, <2>33 DEF StraightRun, Exclusion, Contending, Early, Rows, Live, Active,
       Waiting, Reclaim, SetStatus, histVars
  <2>34. QED
    BY <1>2, <2>1, <2>2, <2>3, <2>4, <2>5, <2>6, <2>7, <2>8, <2>9, <2>10, <2>11,
       <2>12, <2>13, <2>14, <2>15, <2>16, <2>17, <2>18, <2>19, <2>20, <2>21, <2>22,
       <2>23, <2>24, <2>25, <2>26, <2>27, <2>28, <2>29, <2>30, <2>31, <2>32, <2>33
       DEF Next, SubmitStep, DispatchStep, ClientStep, ClientRequest
<1>3. CASE UNCHANGED vars
  BY <1>1, <1>3 DEF StraightRun, Exclusion, Contending, Early, Rows, Live, Active,
     Waiting, vars
<1>4. QED
  BY <1>1, <1>2, <1>3
-----------------------------------------------------------------------------
(* The rows of the queue.                                                  *)

\* The row of a job no crash interrupted: the job was not started, it runs
\* nowhere, and it is active only between its two commits of enqueueing.
RowsHold ==
    /\ \A d \in Dispatchers : disp[d] = "dequeued" => rowst[djob[d]] = "none"
    /\ \A j \in Rows \ interrupted :
          /\ starts[j] = 0 /\ ~Live(j)
          /\ j \in cancelled \/ status[j] \in Waiting \union {"pending"}
          /\ status[j] \in Active => sub[j] = "mark" /\ status[j] = "pending" /\ j \notin lapsed

\* A dispatcher takes the row out before it starts the job, a crash is the only
\* way to leave the row behind, and no other handler makes a queued job active.
LEMMA RowsHoldStep == TypeOK /\ InHand /\ Fresh /\ EarlyStatus /\ RowsHold /\ [Next]_vars => RowsHold'
<1> USE JobsAssumption
<1>1. SUFFICES ASSUME TypeOK, InHand, Fresh, EarlyStatus, RowsHold, [Next]_vars PROVE RowsHold'
  OBVIOUS
<1>2. CASE Next
  <2>1. ASSUME NEW j \in Jobs, Submit(j) PROVE RowsHold'
    BY <1>1, <2>1 DEF Fresh, RowsHold, Early, QueuedRows, Rows, Live, Active, Waiting,
       Submit, Goto, SetStatus, runVars, histVars
  <2>2. ASSUME NEW j \in Jobs, CheckActive(j) PROVE RowsHold'
    BY <1>1, <2>2 DEF RowsHold, Early, QueuedRows, Rows, Live, Active, Waiting,
       CheckActive, Goto, dbVars, runVars, histVars
  <2>3. ASSUME NEW j \in Jobs, CheckQueue(j) PROVE RowsHold'
    BY <1>1, <2>3 DEF RowsHold, Early, QueuedRows, Rows, Live, Active, Waiting,
       CheckQueue, Goto, dbVars, runVars, histVars
  <2>4. ASSUME NEW j \in Jobs, CheckSize(j) PROVE RowsHold'
    BY <1>1, <2>4 DEF RowsHold, Early, QueuedRows, Rows, Live, Active, Waiting,
       CheckSize, Goto, runVars, histVars
  <2>5. ASSUME NEW j \in Jobs, Reject(j) PROVE RowsHold'
    BY <1>1, <2>5 DEF EarlyStatus, RowsHold, Early, QueuedRows, Rows, Live, Active,
       Waiting, Reject, Goto, SetStatus, runVars, histVars
  <2>6. ASSUME NEW j \in Jobs, ReadOrder(j) PROVE RowsHold'
    BY <1>1, <2>6 DEF RowsHold, Early, QueuedRows, Rows, Live, Active, Waiting,
       ReadOrder, Goto, runVars, histVars
  <2>7. ASSUME NEW j \in Jobs, Insert(j) PROVE RowsHold'
    BY <1>1, <2>7 DEF TypeOK, Fresh, EarlyStatus, RowsHold, Early, QueuedRows, Rows,
       Live, Active, Waiting, Insert, Goto, runVars, histVars
  <2>8. ASSUME NEW j \in Jobs, MarkQueued(j) PROVE RowsHold'
    BY <1>1, <2>8 DEF TypeOK, RowsHold, Early, QueuedRows, Rows, Live, Active, Waiting,
       MarkQueued, Goto, SetStatus, runVars, histVars
  <2>9. ASSUME NEW j \in Jobs, PostQueued(j) PROVE RowsHold'
    BY <1>1, <2>9 DEF TypeOK, RowsHold, Early, QueuedRows, Rows, Live, Active, Waiting,
       PostQueued, Goto, SetStatus, runVars, histVars
  <2>10. ASSUME NEW j \in Jobs, StartDirect(j) PROVE RowsHold'
    BY <1>1, <2>10 DEF Fresh, RowsHold, Early, QueuedRows, Rows, Live, Active, Waiting,
       StartDirect, Goto, dbVars, histVars
  <2>11. ASSUME Watchdog PROVE RowsHold'
    BY <1>1, <2>11 DEF RowsHold, Early, QueuedRows, Rows, Live, Active, Waiting,
       Watchdog, dbVars, runVars, histVars
  <2>12. ASSUME NEW d \in Dispatchers, DispatchBlocked(d) PROVE RowsHold'
    BY <1>1, <2>12 DEF RowsHold, Early, QueuedRows, Rows, Live, Active, Waiting,
       DispatchBlocked, dbVars, runVars, histVars
  <2>13. ASSUME NEW d \in Dispatchers, DispatchClear(d) PROVE RowsHold'
    BY <1>1, <2>13 DEF RowsHold, Early, QueuedRows, Rows, Live, Active, Waiting,
       DispatchClear, dbVars, runVars, histVars
  <2>14. ASSUME NEW d \in Dispatchers, FindNothing(d) PROVE RowsHold'
    BY <1>1, <2>14 DEF RowsHold, Early, QueuedRows, Rows, Live, Active, Waiting,
       FindNothing, dbVars, runVars, histVars
  <2>15. ASSUME NEW d \in Dispatchers, PickNext(d) PROVE RowsHold'
    BY <1>1, <2>15 DEF RowsHold, Early, QueuedRows, Rows, Live, Active, Waiting,
       PickNext, dbVars, runVars, histVars
  <2>16. ASSUME NEW d \in Dispatchers, DeleteRow(d) PROVE RowsHold'
    BY <1>1, <2>16 DEF TypeOK, InHand, RowsHold, Early, QueuedRows, Rows, Live, Active,
       Waiting, DeleteRow, runVars, histVars
  <2>17. ASSUME NEW d \in Dispatchers, StartDequeued(d) PROVE RowsHold'
    BY <1>1, <2>17 DEF TypeOK, RowsHold, Early, QueuedRows, Rows, Live, Active, Waiting,
       StartDequeued, SetStatus, Release, histVars
  <2>18. ASSUME NEW d \in Dispatchers, FailDequeued(d) PROVE RowsHold'
    BY <1>1, <2>18 DEF TypeOK, RowsHold, Early, QueuedRows, Rows, Live, Active, Waiting,
       FailDequeued, SetStatus, Release, histVars
  <2>19. ASSUME NEW j \in Jobs, RunBegin(j) PROVE RowsHold'
    BY <1>1, <2>19 DEF TypeOK, RowsHold, Early, QueuedRows, Rows, Live, Active, Waiting,
       RunBegin, SetStatus, histVars
  <2>20. ASSUME NEW j \in Jobs, RunRefused(j) PROVE RowsHold'
    BY <1>1, <2>20 DEF TypeOK, RowsHold, Early, QueuedRows, Rows, Live, Active, Waiting,
       RunRefused, histVars
  <2>21. ASSUME NEW j \in Jobs, RunEnd(j) PROVE RowsHold'
    BY <1>1, <2>21 DEF TypeOK, RowsHold, Early, QueuedRows, Rows, Live, Active, Waiting,
       RunEnd, SetStatus, histVars
  <2>22. ASSUME NEW j \in Jobs, LeaseLapse(j) PROVE RowsHold'
    BY <1>1, <2>22 DEF RowsHold, Early, QueuedRows, Rows, Live, Active, Waiting,
       LeaseLapse, runVars, histVars
  <2>23. ASSUME NEW c \in Clients, NEW j \in Jobs, PauseRow(c, j) PROVE RowsHold'
    BY <1>1, <2>23 DEF RowsHold, Early, QueuedRows, Rows, Live, Active, Waiting,
       PauseRow, Serve, runVars, histVars
  <2>24. ASSUME NEW c \in Clients, PauseJob(c) PROVE RowsHold'
    BY <1>1, <2>24 DEF RowsHold, Early, QueuedRows, Rows, Live, Active, Waiting,
       PauseJob, SetStatus, Serve, runVars, histVars
  <2>25. ASSUME NEW c \in Clients, NEW j \in Jobs, ResumeRow(c, j) PROVE RowsHold'
    BY <1>1, <2>25 DEF RowsHold, Early, QueuedRows, Rows, Live, Active, Waiting,
       ResumeRow, Serve, runVars, histVars
  <2>26. ASSUME NEW c \in Clients, ResumeJob(c) PROVE RowsHold'
    BY <1>1, <2>26 DEF RowsHold, Early, QueuedRows, Rows, Live, Active, Waiting,
       ResumeJob, SetStatus, Serve, runVars, histVars
  <2>27. ASSUME NEW c \in Clients, NEW j \in Jobs, RemoveRead(c, j) PROVE RowsHold'
    BY <1>1, <2>27 DEF RowsHold, Early, QueuedRows, Rows, Live, Active, Waiting,
       RemoveRead, Serve, dbVars, runVars, histVars
  <2>28. ASSUME NEW c \in Clients, RemoveRow(c) PROVE RowsHold'
    BY <1>1, <2>28 DEF TypeOK, RowsHold, Early, QueuedRows, Rows, Live, Active, Waiting,
       RemoveRow, SetStatus, Serve, runVars
  <2>29. ASSUME NEW j \in Jobs, CancelQueued(j) PROVE RowsHold'
    BY <1>1, <2>29 DEF RowsHold, Early, QueuedRows, Rows, Live, Active, Waiting,
       CancelQueued, SetStatus, runVars
  <2>30. ASSUME NEW j \in Jobs, CancelFallback(j) PROVE RowsHold'
    BY <1>1, <2>30 DEF TypeOK, RowsHold, Early, QueuedRows, Rows, Live, Active, Waiting,
       CancelFallback, SetStatus, runVars
  <2>31. ASSUME Reorder PROVE RowsHold'
    BY <1>1, <2>31 DEF RowsHold, Early, QueuedRows, Rows, Live, Active, Waiting,
       Reorder, runVars, histVars
  <2>32. ASSUME Crash PROVE RowsHold'
    BY <1>1, <2>32 DEF RowsHold, Early, QueuedRows, Rows, Live, Active, Waiting, Crash,
       dbVars, Idle
  <2>33. ASSUME NEW j \in Jobs, Reclaim(j) PROVE RowsHold'
    BY <1>1, <2>33 DEF RowsHold, Early, QueuedRows, Rows, Live, Active, Waiting,
       Reclaim, SetStatus, histVars
  <2>34. QED
    BY <1>2, <2>1, <2>2, <2>3, <2>4, <2>5, <2>6, <2>7, <2>8, <2>9, <2>10, <2>11,
       <2>12, <2>13, <2>14, <2>15, <2>16, <2>17, <2>18, <2>19, <2>20, <2>21, <2>22,
       <2>23, <2>24, <2>25, <2>26, <2>27, <2>28, <2>29, <2>30, <2>31, <2>32, <2>33
       DEF Next, SubmitStep, DispatchStep, ClientStep, ClientRequest
<1>3. CASE UNCHANGED vars
  BY <1>1, <1>3 DEF RowsHold, Early, QueuedRows, Rows, Live, Active, Waiting, vars
<1>4. QED
  BY <1>1, <1>2, <1>3
-----------------------------------------------------------------------------
(* The jobs that wait.                                                     *)

\* Something keeps track of the job, or accounts for its having been let go.
Found(j) == j \in Rows \/ Held(j) \/ starts[j] > 0 \/ j \in cancelled \union interrupted

\* Every job that says it waits, or that a handler is about to mark so, is found.
Traced ==
    /\ \A j \in Jobs : sub[j] \in {"mark", "post"} \/ status[j] \in Waiting => Found(j)
    /\ \A c \in Clients : client[c] # "idle" => Found(cjob[c])

\* A step that takes the row out leaves another trace of the job.
LEMMA TracedStep == TypeOK /\ InHand /\ Fresh /\ EarlyStatus /\ Traced /\ [Next]_vars => Traced'
<1> USE JobsAssumption
<1>1. SUFFICES ASSUME TypeOK, InHand, Fresh, EarlyStatus, Traced, [Next]_vars PROVE Traced'
  OBVIOUS
<1>2. CASE Next
  <2>1. ASSUME NEW j \in Jobs, Submit(j) PROVE Traced'
    BY <1>1, <2>1 DEF Traced, Found, Held, Early, QueuedRows, Rows, Active, Waiting,
       Submit, Goto, SetStatus, runVars, histVars
  <2>2. ASSUME NEW j \in Jobs, CheckActive(j) PROVE Traced'
    BY <1>1, <2>2 DEF Traced, Found, Held, Early, QueuedRows, Rows, Active, Waiting,
       CheckActive, Goto, dbVars, runVars, histVars
  <2>3. ASSUME NEW j \in Jobs, CheckQueue(j) PROVE Traced'
    BY <1>1, <2>3 DEF Traced, Found, Held, Early, QueuedRows, Rows, Active, Waiting,
       CheckQueue, Goto, dbVars, runVars, histVars
  <2>4. ASSUME NEW j \in Jobs, CheckSize(j) PROVE Traced'
    BY <1>1, <2>4 DEF Traced, Found, Held, Early, QueuedRows, Rows, Active, Waiting,
       CheckSize, Goto, runVars, histVars
  <2>5. ASSUME NEW j \in Jobs, Reject(j) PROVE Traced'
    BY <1>1, <2>5 DEF Traced, Found, Held, Early, QueuedRows, Rows, Active, Waiting,
       Reject, Goto, SetStatus, runVars, histVars
  <2>6. ASSUME NEW j \in Jobs, ReadOrder(j) PROVE Traced'
    BY <1>1, <2>6 DEF Traced, Found, Held, Early, QueuedRows, Rows, Active, Waiting,
       ReadOrder, Goto, runVars, histVars
  <2>7. ASSUME NEW j \in Jobs, Insert(j) PROVE Traced'
    BY <1>1, <2>7 DEF TypeOK, Traced, Found, Held, Early, QueuedRows, Rows, Active,
       Waiting, Insert, Goto, runVars, histVars
  <2>8. ASSUME NEW j \in Jobs, MarkQueued(j) PROVE Traced'
    BY <1>1, <2>8 DEF Traced, Found, Held, Early, QueuedRows, Rows, Active, Waiting,
       MarkQueued, Goto, SetStatus, runVars, histVars
  <2>9. ASSUME NEW j \in Jobs, PostQueued(j) PROVE Traced'
    BY <1>1, <2>9 DEF TypeOK, Traced, Found, Held, Early, QueuedRows, Rows, Active,
       Waiting, PostQueued, Goto, SetStatus, runVars, histVars
  <2>10. ASSUME NEW j \in Jobs, StartDirect(j) PROVE Traced'
    BY <1>1, <2>10 DEF Fresh, Traced, Found, Held, Early, QueuedRows, Rows, Active,
       Waiting, StartDirect, Goto, dbVars, histVars
  <2>11. ASSUME Watchdog PROVE Traced'
    BY <1>1, <2>11 DEF Traced, Found, Held, Early, QueuedRows, Rows, Active, Waiting,
       Watchdog, dbVars, runVars, histVars
  <2>12. ASSUME NEW d \in Dispatchers, DispatchBlocked(d) PROVE Traced'
    BY <1>1, <2>12 DEF Traced, Found, Held, Early, QueuedRows, Rows, Active, Waiting,
       DispatchBlocked, dbVars, runVars, histVars
  <2>13. ASSUME NEW d \in Dispatchers, DispatchClear(d) PROVE Traced'
    BY <1>1, <2>13 DEF Traced, Found, Held, Early, QueuedRows, Rows, Active, Waiting,
       DispatchClear, dbVars, runVars, histVars
  <2>14. ASSUME NEW d \in Dispatchers, FindNothing(d) PROVE Traced'
    BY <1>1, <2>14 DEF Traced, Found, Held, Early, QueuedRows, Rows, Active, Waiting,
       FindNothing, dbVars, runVars, histVars
  <2>15. ASSUME NEW d \in Dispatchers, PickNext(d) PROVE Traced'
    BY <1>1, <2>15 DEF Traced, Found, Held, Early, QueuedRows, Rows, Active, Waiting,
       PickNext, dbVars, runVars, histVars
  <2>16. ASSUME NEW d \in Dispatchers, DeleteRow(d) PROVE Traced'
    BY <1>1, <2>16 DEF TypeOK, Traced, Found, Held, Early, QueuedRows, Rows, Active,
       Waiting, DeleteRow, runVars, histVars
  <2>17. ASSUME NEW d \in Dispatchers, StartDequeued(d) PROVE Traced'
    BY <1>1, <2>17 DEF TypeOK, InHand, Traced, Found, Held, Early, QueuedRows, Rows,
       Active, Waiting, StartDequeued, SetStatus, Release, histVars
  <2>18. ASSUME NEW d \in Dispatchers, FailDequeued(d) PROVE Traced'
    BY <1>1, <2>18 DEF TypeOK, InHand, Traced, Found, Held, Early, QueuedRows, Rows,
       Active, Waiting, FailDequeued, SetStatus, Release, histVars
  <2>19. ASSUME NEW j \in Jobs, RunBegin(j) PROVE Traced'
    BY <1>1, <2>19 DEF Traced, Found, Held, Early, QueuedRows, Rows, Active, Waiting,
       RunBegin, SetStatus, histVars
  <2>20. ASSUME NEW j \in Jobs, RunRefused(j) PROVE Traced'
    BY <1>1, <2>20 DEF TypeOK, Traced, Found, Held, Early, QueuedRows, Rows, Active,
       Waiting, RunRefused, histVars
  <2>21. ASSUME NEW j \in Jobs, RunEnd(j) PROVE Traced'
    BY <1>1, <2>21 DEF Traced, Found, Held, Early, QueuedRows, Rows, Active, Waiting,
       RunEnd, SetStatus, histVars, Terminal
  <2>22. ASSUME NEW j \in Jobs, LeaseLapse(j) PROVE Traced'
    BY <1>1, <2>22 DEF Traced, Found, Held, Early, QueuedRows, Rows, Active, Waiting,
       LeaseLapse, runVars, histVars
  <2>23. ASSUME NEW c \in Clients, NEW j \in Jobs, PauseRow(c, j) PROVE Traced'
    BY <1>1, <2>23 DEF TypeOK, Traced, Found, Held, Early, QueuedRows, Rows, Active,
       Waiting, PauseRow, Serve, runVars, histVars
  <2>24. ASSUME NEW c \in Clients, PauseJob(c) PROVE Traced'
    BY <1>1, <2>24 DEF TypeOK, Traced, Found, Held, Early, QueuedRows, Rows, Active,
       Waiting, PauseJob, SetStatus, Serve, runVars, histVars
  <2>25. ASSUME NEW c \in Clients, NEW j \in Jobs, ResumeRow(c, j) PROVE Traced'
    BY <1>1, <2>25 DEF TypeOK, Traced, Found, Held, Early, QueuedRows, Rows, Active,
       Waiting, ResumeRow, Serve, runVars, histVars
  <2>26. ASSUME NEW c \in Clients, ResumeJob(c) PROVE Traced'
    BY <1>1, <2>26 DEF TypeOK, Traced, Found, Held, Early, QueuedRows, Rows, Active,
       Waiting, ResumeJob, SetStatus, Serve, runVars, histVars
  <2>27. ASSUME NEW c \in Clients, NEW j \in Jobs, RemoveRead(c, j) PROVE Traced'
    BY <1>1, <2>27 DEF TypeOK, Traced, Found, Held, Early, QueuedRows, Rows, Active,
       Waiting, RemoveRead, Serve, dbVars, runVars, histVars
  <2>28. ASSUME NEW c \in Clients, RemoveRow(c) PROVE Traced'
    BY <1>1, <2>28 DEF TypeOK, Traced, Found, Held, Early, QueuedRows, Rows, Active,
       Waiting, RemoveRow, SetStatus, Serve, runVars
  <2>29. ASSUME NEW j \in Jobs, CancelQueued(j) PROVE Traced'
    BY <1>1, <2>29 DEF Traced, Found, Held, Early, QueuedRows, Rows, Active, Waiting,
       CancelQueued, SetStatus, runVars
  <2>30. ASSUME NEW j \in Jobs, CancelFallback(j) PROVE Traced'
    BY <1>1, <2>30 DEF Traced, Found, Held, Early, QueuedRows, Rows, Active, Waiting,
       CancelFallback, SetStatus, runVars
  <2>31. ASSUME Reorder PROVE Traced'
    BY <1>1, <2>31 DEF Traced, Found, Held, Early, QueuedRows, Rows, Active, Waiting,
       Reorder, runVars, histVars
  <2>32. ASSUME Crash PROVE Traced'
    BY <1>1, <2>32 DEF Traced, Found, Held, Early, QueuedRows, Rows, Active, Waiting,
       Crash, dbVars
  <2>33. ASSUME NEW j \in Jobs, Reclaim(j) PROVE Traced'
    BY <1>1, <2>33 DEF Traced, Found, Held, Early, QueuedRows, Rows, Active, Waiting,
       Reclaim, SetStatus, histVars
  <2>34. QED
    BY <1>2, <2>1, <2>2, <2>3, <2>4, <2>5, <2>6, <2>7, <2>8, <2>9, <2>10, <2>11,
       <2>12, <2>13, <2>14, <2>15, <2>16, <2>17, <2>18, <2>19, <2>20, <2>21, <2>22,
       <2>23, <2>24, <2>25, <2>26, <2>27, <2>28, <2>29, <2>30, <2>31, <2>32, <2>33
       DEF Next, SubmitStep, DispatchStep, ClientStep, ClientRequest
<1>3. CASE UNCHANGED vars
  BY <1>1, <1>3 DEF Traced, Found, Held, Early, QueuedRows, Rows, Active, Waiting, vars
<1>4. QED
  BY <1>1, <1>2, <1>3
-----------------------------------------------------------------------------
(* The starts of a job.                                                    *)

\* One dispatcher task at a time.
Serial == \A d, e \in Dispatchers : disp[d] # "idle" /\ disp[e] # "idle" => d = e

\* A job no crash interrupted is started once at most, and was not started while a
\* dispatcher has it in hand.
GivenOnce ==
    \A j \in Jobs \ interrupted :
        /\ starts[j] <= 1
        /\ \A d \in Dispatchers : djob[d] = j => starts[j] = 0

\* What a dispatcher picks was not started, and nobody else starts it meanwhile.
LEMMA GivenOnceStep == TypeOK /\ InHand /\ Fresh /\ RowsHold /\ Serial /\ GivenOnce /\ [Next]_vars => GivenOnce'
<1> USE JobsAssumption
<1>1. SUFFICES ASSUME TypeOK, InHand, Fresh, RowsHold, Serial, GivenOnce, [Next]_vars PROVE GivenOnce'
  OBVIOUS
<1>2. CASE Next
  <2>1. ASSUME NEW j \in Jobs, Submit(j) PROVE GivenOnce'
    BY <1>1, <2>1 DEF GivenOnce, Submit, Goto, SetStatus, runVars, histVars
  <2>2. ASSUME NEW j \in Jobs, CheckActive(j) PROVE GivenOnce'
    BY <1>1, <2>2 DEF GivenOnce, CheckActive, Goto, dbVars, runVars, histVars
  <2>3. ASSUME NEW j \in Jobs, CheckQueue(j) PROVE GivenOnce'
    BY <1>1, <2>3 DEF GivenOnce, CheckQueue, Goto, dbVars, runVars, histVars
  <2>4. ASSUME NEW j \in Jobs, CheckSize(j) PROVE GivenOnce'
    BY <1>1, <2>4 DEF GivenOnce, CheckSize, Goto, runVars, histVars
  <2>5. ASSUME NEW j \in Jobs, Reject(j) PROVE GivenOnce'
    BY <1>1, <2>5 DEF GivenOnce, Reject, Goto, SetStatus, runVars, histVars
  <2>6. ASSUME NEW j \in Jobs, ReadOrder(j) PROVE GivenOnce'
    BY <1>1, <2>6 DEF GivenOnce, ReadOrder, Goto, runVars, histVars
  <2>7. ASSUME NEW j \in Jobs, Insert(j) PROVE GivenOnce'
    BY <1>1, <2>7 DEF GivenOnce, Insert, Goto, runVars, histVars
  <2>8. ASSUME NEW j \in Jobs, MarkQueued(j) PROVE GivenOnce'
    BY <1>1, <2>8 DEF GivenOnce, MarkQueued, Goto, SetStatus, runVars, histVars
  <2>9. ASSUME NEW j \in Jobs, PostQueued(j) PROVE GivenOnce'
    BY <1>1, <2>9 DEF GivenOnce, PostQueued, Goto, SetStatus, runVars, histVars
  <2>10. ASSUME NEW j \in Jobs, StartDirect(j) PROVE GivenOnce'
    BY <1>1, <2>10 DEF TypeOK, InHand, Fresh, Early, RowsHold, Serial, GivenOnce,
       QueuedRows, Rows, StartDirect, Goto, dbVars, histVars
  <2>11. ASSUME Watchdog PROVE GivenOnce'
    BY <1>1, <2>11 DEF GivenOnce, Watchdog, dbVars, runVars, histVars
  <2>12. ASSUME NEW d \in Dispatchers, DispatchBlocked(d) PROVE GivenOnce'
    BY <1>1, <2>12 DEF GivenOnce, DispatchBlocked, dbVars, runVars, histVars
  <2>13. ASSUME NEW d \in Dispatchers, DispatchClear(d) PROVE GivenOnce'
    BY <1>1, <2>13 DEF GivenOnce, DispatchClear, dbVars, runVars, histVars
  <2>14. ASSUME NEW d \in Dispatchers, FindNothing(d) PROVE GivenOnce'
    BY <1>1, <2>14 DEF GivenOnce, FindNothing, dbVars, runVars, histVars
  <2>15. ASSUME NEW d \in Dispatchers, PickNext(d) PROVE GivenOnce'
    BY <1>1, <2>15 DEF TypeOK, InHand, Fresh, Early, RowsHold, Serial, GivenOnce,
       QueuedRows, Rows, PickNext, dbVars, runVars, histVars
  <2>16. ASSUME NEW d \in Dispatchers, DeleteRow(d) PROVE GivenOnce'
    BY <1>1, <2>16 DEF TypeOK, InHand, Fresh, Early, RowsHold, Serial, GivenOnce,
       QueuedRows, Rows, DeleteRow, runVars, histVars
  <2>17. ASSUME NEW d \in Dispatchers, StartDequeued(d) PROVE GivenOnce'
    BY <1>1, <2>17 DEF TypeOK, InHand, Fresh, Early, RowsHold, Serial, GivenOnce,
       QueuedRows, Rows, StartDequeued, SetStatus, Release, histVars
  <2>18. ASSUME NEW d \in Dispatchers, FailDequeued(d) PROVE GivenOnce'
    BY <1>1, <2>18 DEF TypeOK, InHand, Fresh, Early, RowsHold, Serial, GivenOnce,
       QueuedRows, Rows, FailDequeued, SetStatus, Release, histVars
  <2>19. ASSUME NEW j \in Jobs, RunBegin(j) PROVE GivenOnce'
    BY <1>1, <2>19 DEF GivenOnce, RunBegin, SetStatus, histVars
  <2>20. ASSUME NEW j \in Jobs, RunRefused(j) PROVE GivenOnce'
    BY <1>1, <2>20 DEF GivenOnce, RunRefused, histVars
  <2>21. ASSUME NEW j \in Jobs, RunEnd(j) PROVE GivenOnce'
    BY <1>1, <2>21 DEF GivenOnce, RunEnd, SetStatus, histVars
  <2>22. ASSUME NEW j \in Jobs, LeaseLapse(j) PROVE GivenOnce'
    BY <1>1, <2>22 DEF GivenOnce, LeaseLapse, runVars, histVars
  <2>23. ASSUME NEW c \in Clients, NEW j \in Jobs, PauseRow(c, j) PROVE GivenOnce'
    BY <1>1, <2>23 DEF GivenOnce, PauseRow, Serve, runVars, histVars
  <2>24. ASSUME NEW c \in Clients, PauseJob(c) PROVE GivenOnce'
    BY <1>1, <2>24 DEF GivenOnce, PauseJob, SetStatus, Serve, runVars, histVars
  <2>25. ASSUME NEW c \in Clients, NEW j \in Jobs, ResumeRow(c, j) PROVE GivenOnce'
    BY <1>1, <2>25 DEF GivenOnce, ResumeRow, Serve, runVars, histVars
  <2>26. ASSUME NEW c \in Clients, ResumeJob(c) PROVE GivenOnce'
    BY <1>1, <2>26 DEF GivenOnce, ResumeJob, SetStatus, Serve, runVars, histVars
  <2>27. ASSUME NEW c \in Clients, NEW j \in Jobs, RemoveRead(c, j) PROVE GivenOnce'
    BY <1>1, <2>27 DEF GivenOnce, RemoveRead, Serve, dbVars, runVars, histVars
  <2>28. ASSUME NEW c \in Clients, RemoveRow(c) PROVE GivenOnce'
    BY <1>1, <2>28 DEF GivenOnce, RemoveRow, SetStatus, Serve, runVars
  <2>29. ASSUME NEW j \in Jobs, CancelQueued(j) PROVE GivenOnce'
    BY <1>1, <2>29 DEF GivenOnce, CancelQueued, SetStatus, runVars
  <2>30. ASSUME NEW j \in Jobs, CancelFallback(j) PROVE GivenOnce'
    BY <1>1, <2>30 DEF GivenOnce, CancelFallback, SetStatus, runVars
  <2>31. ASSUME Reorder PROVE GivenOnce'
    BY <1>1, <2>31 DEF GivenOnce, Reorder, runVars, histVars
  <2>32. ASSUME Crash PROVE GivenOnce'
    BY <1>1, <2>32 DEF TypeOK, InHand, Fresh, Early, RowsHold, Serial, GivenOnce,
       QueuedRows, Rows, Crash, dbVars, Idle
  <2>33. ASSUME NEW j \in Jobs, Reclaim(j) PROVE GivenOnce'
    BY <1>1, <2>33 DEF TypeOK, GivenOnce, Reclaim, SetStatus, histVars
  <2>34. QED
    BY <1>2, <2>1, <2>2, <2>3, <2>4, <2>5, <2>6, <2>7, <2>8, <2>9, <2>10, <2>11,
       <2>12, <2>13, <2>14, <2>15, <2>16, <2>17, <2>18, <2>19, <2>20, <2>21, <2>22,
       <2>23, <2>24, <2>25, <2>26, <2>27, <2>28, <2>29, <2>30, <2>31, <2>32, <2>33
       DEF Next, SubmitStep, DispatchStep, ClientStep, ClientRequest
<1>3. CASE UNCHANGED vars
  BY <1>1, <1>3 DEF GivenOnce, vars
<1>4. QED
  BY <1>1, <1>2, <1>3

-----------------------------------------------------------------------------
(* The theorems.                                                           *)

\* The inductive invariant: the types, who holds which job, and the facts
\* above about jobs before, in and past the queue.
IInv ==
    /\ TypeOK /\ InHand
    /\ Fresh /\ EarlyStatus
    /\ StraightRun /\ Exclusion
    /\ RowsHold /\ Traced

\* No job exists, is held or runs when the process first starts.
LEMMA InitIInv == Init => IInv
<1> USE JobsAssumption
<1>1. Init => TypeOK /\ InHand
  BY DEF Init, TypeOK, InHand, Statuses, SubPCs
<1>2. Init => Fresh /\ EarlyStatus
  BY DEF Init, Fresh, EarlyStatus, Early
<1>3. Init => StraightRun /\ Exclusion
  BY DEF Init, StraightRun, Exclusion, Contending
<1>4. Init => RowsHold /\ Traced
  BY DEF Init, RowsHold, Traced, Rows, Waiting
<1>5. QED
  BY <1>1, <1>2, <1>3, <1>4 DEF IInv

\* Every step of every handler preserves it.
LEMMA IInvStep == IInv /\ [Next]_vars => IInv'
<1>1. SUFFICES ASSUME IInv, [Next]_vars PROVE IInv'
  OBVIOUS
<1>2. TypeOK /\ InHand /\ Fresh /\ EarlyStatus /\ StraightRun /\ Exclusion /\ RowsHold /\ Traced
  BY <1>1 DEF IInv
<1>3. TypeOK' /\ InHand'
  BY <1>1, <1>2, TypeStep, InHandStep
<1>4. Fresh' /\ EarlyStatus'
  BY <1>1, <1>2, FreshStep, EarlyStatusStep
<1>5. StraightRun' /\ Exclusion'
  BY <1>1, <1>2, StraightRunStep, ExclusionStep
<1>6. RowsHold' /\ Traced'
  BY <1>1, <1>2, RowsHoldStep, TracedStep
<1>7. QED
  BY <1>3, <1>4, <1>5, <1>6 DEF IInv

\* The inductive invariant holds in every reachable state.
THEOREM Invariance == Spec => []IInv
BY InitIInv, IInvStep, PTL DEF Spec

\* Every variable keeps its type: no sort order and no count turns negative
\* whatever the dispatchers, requests, cancellations and crashes do.
THEOREM TypeCorrect == Spec => []TypeOK
<1>1. IInv => TypeOK
  BY DEF IInv
<1>2. QED
  BY <1>1, Invariance, PTL

\* However many submissions of one user race, no two of them start past the
\* queue and are alive together, unless one was cancelled while it started.
THEOREM DirectStartsExclude == Spec => []DirectStartExclusion
<1>1. IInv => DirectStartExclusion
  BY DEF IInv, Exclusion, Contending, DirectStartExclusion, StartedDirectly
<1>2. QED
  BY <1>1, Invariance, PTL

\* A queue row stands for a job that was never started, for any number of
\* dispatchers, which may even pick the same row.
THEOREM RowsMeanWaiting == Spec => []RowMeansWaiting
<1>1. IInv => RowMeansWaiting
  BY DEF IInv, RowsHold, RowMeansWaiting
<1>2. QED
  BY <1>1, Invariance, PTL

\* A job that waits has its row or a dispatcher that holds it, unless it ran,
\* was cancelled or was caught by a crash.
THEOREM NoneStranded == Spec => []NoJobStranded
<1>1. IInv => NoJobStranded
  <2>1. SUFFICES ASSUME IInv, NEW j \in Jobs \ (cancelled \union interrupted),
                        status[j] \in Waiting, starts[j] = 0
                 PROVE  j \in Rows \/ Held(j)
    BY DEF NoJobStranded
  <2>2. Found(j)
    BY <2>1 DEF IInv, Traced
  <2>3. QED
    BY <2>1, <2>2 DEF Found
<1>2. QED
  BY <1>1, Invariance, PTL

\* As long as dispatcher tasks of the user do not overlap, a job is handed to a
\* runner once, whatever is paused, resumed, removed or cancelled meanwhile.
THEOREM StartsOnce == Spec /\ []Serial => []StartedOnce
<1>1. Init => GivenOnce
  BY JobsAssumption DEF Init, GivenOnce
<1>2. IInv /\ Serial /\ GivenOnce /\ [Next]_vars => GivenOnce'
  BY GivenOnceStep DEF IInv
<1>3. GivenOnce => StartedOnce
  BY DEF GivenOnce, StartedOnce
<1>4. QED
  BY <1>1, <1>2, <1>3, Invariance, PTL DEF Spec

\* With one dispatcher, the instance the run checks, that needs no condition.
THEOREM StartsOnceAlone ==
    ASSUME \A d, e \in Dispatchers : d = e
    PROVE  Spec => []StartedOnce
<1>1. Serial
  BY DEF Serial
<1>2. QED
  BY <1>1, StartsOnce, PTL
=============================================================================
