---------------------------- MODULE JobRunProofs ----------------------------
(***************************************************************************)
(* Theorems of JobRun, for any set of runs of a job, any number of         *)
(* attempts and any number of crashes: the types, the safety invariants    *)
(* about the report and the credits of the job, and its final outcome.     *)
(***************************************************************************)
EXTENDS JobRun, TLAPS

\* Every step keeps the variables in their types: no run makes more than
\* MaxAttempts attempts.
LEMMA TypeStep == TypeOK /\ [Next]_vars => TypeOK'
<1> USE RunsAssumption, LimitsAssumption DEF Active, Terminal, Work, Awaiting
<1>1. SUFFICES ASSUME TypeOK, [Next]_vars PROVE TypeOK'
  OBVIOUS
<1>2. CASE Next
  <2>1. ASSUME NEW r \in Runs, ThreadMerge(r) PROVE TypeOK'
    BY <1>1, <2>1 DEF TypeOK, ThreadMerge, Did, envVars
  <2>2. ASSUME NEW r \in Runs, ThreadLookup(r) PROVE TypeOK'
    BY <1>1, <2>2 DEF TypeOK, ThreadLookup, Did, envVars
  <2>3. ASSUME NEW r \in Runs, ThreadDebit(r) PROVE TypeOK'
    BY <1>1, <2>3 DEF TypeOK, ThreadDebit, Did, envVars
  <2>4. ASSUME NEW r \in Runs, ThreadRaises(r) PROVE TypeOK'
    BY <1>1, <2>4 DEF TypeOK, ThreadRaises, Did, envVars
  <2>5. ASSUME NEW r \in Runs, ThreadInit(r) PROVE TypeOK'
    BY <1>1, <2>5 DEF TypeOK, ThreadInit, Did, envVars
  <2>6. ASSUME NEW r \in Runs, ThreadSave(r) PROVE TypeOK'
    BY <1>1, <2>6 DEF TypeOK, ThreadSave, Did, envVars
  <2>7. ASSUME NEW r \in Runs, ThreadRecord(r) PROVE TypeOK'
    BY <1>1, <2>7 DEF TypeOK, ThreadRecord, Did, MarkReport, envVars
  <2>8. ASSUME NEW r \in Runs, Merged(r) PROVE TypeOK'
    BY <1>1, <2>8 DEF TypeOK, Merged, Move, envVars
  <2>9. ASSUME NEW r \in Runs, Reserved(r) PROVE TypeOK'
    BY <1>1, <2>9 DEF TypeOK, Reserved, Move, envVars
  <2>10. ASSUME NEW r \in Runs, Refused(r) PROVE TypeOK'
    BY <1>1, <2>10 DEF TypeOK, Refused, Move, envVars
  <2>11. ASSUME NEW r \in Runs, Started(r) PROVE TypeOK'
    BY <1>1, <2>11 DEF TypeOK, Started, Move, envVars
  <2>12. ASSUME NEW r \in Runs, SetupRaises(r) PROVE TypeOK'
    BY <1>1, <2>12 DEF TypeOK, SetupRaises, StartUp, Move, envVars
  <2>13. ASSUME NEW r \in Runs, AttemptYields(r) PROVE TypeOK'
    BY <1>1, <2>13 DEF TypeOK, AttemptYields, Move, envVars
  <2>14. ASSUME NEW r \in Runs, AttemptFails(r) PROVE TypeOK'
    BY <1>1, <2>14 DEF TypeOK, AttemptFails, GiveUp, envVars, Move
  <2>15. ASSUME NEW r \in Runs, Returns(r) PROVE TypeOK'
    BY <1>1, <2>15 DEF TypeOK, Returns, Concludes, Outcome, Move, MarkReport, envVars
  <2>16. ASSUME NEW r \in Runs, AttemptsAgain(r) PROVE TypeOK'
    BY <1>1, <2>16 DEF TypeOK, AttemptsAgain, Concludes, Outcome, Move, MarkReport, envVars
  <2>17. ASSUME NEW r \in Runs, Exhausts(r) PROVE TypeOK'
    BY <1>1, <2>17 DEF TypeOK, Exhausts, Concludes, GiveUp, Outcome, Move, MarkReport,
       envVars
  <2>18. ASSUME NEW r \in Runs, Recorded(r) PROVE TypeOK'
    BY <1>1, <2>18 DEF TypeOK, Recorded, Move, envVars
  <2>19. ASSUME NEW r \in Runs, Leaves(r) PROVE TypeOK'
    <3>1. inner' \in [Runs -> Awaiting \union {"unused", "leave", "unwind", "trip", "done", "cancelled", "tripped", "lost"}]
      BY <1>1, <2>19 DEF TypeOK, Leaves
    <3>2. leased' \in BOOLEAN
      BY <2>19 DEF Leaves
    <3>3. UNCHANGED <<envVars, status, report, ledger, flag, outer, thread, attempt, erred, inners, timedout, unbooked>>
      BY <2>19 DEF Leaves
    <3>4. QED
      BY <1>1, <3>1, <3>2, <3>3 DEF TypeOK, envVars
  <2>20. ASSUME NEW r \in Runs, Finish(r) PROVE TypeOK'
    BY <1>1, <2>20 DEF TypeOK, Finish, MarkReport, Settle, Ends, envVars
  <2>21. ASSUME NEW r \in Runs, Timeout(r) PROVE TypeOK'
    BY <1>1, <2>21 DEF TypeOK, Timeout, InnerLive, MarkReport, Settle, Ends, Unnoted,
       envVars
  <2>22. ASSUME NEW r \in Runs, FirstStart(r) PROVE TypeOK'
    BY <1>1, <2>22 DEF TypeOK, FirstStart, Launch, Move
  <2>23. ASSUME NEW r \in Runs, ResumeByUser(r) PROVE TypeOK'
    BY <1>1, <2>23 DEF TypeOK, ResumeByUser, Claim, Launch, Move
  <2>24. ASSUME CancelInner PROVE TypeOK'
    BY <1>1, <2>24 DEF TypeOK, CancelInner, StartUp, Awaiting, Unnoted, envVars
  <2>25. ASSUME CancelFallback PROVE TypeOK'
    BY <1>1, <2>25 DEF TypeOK, CancelFallback, envVars, runVars
  <2>26. ASSUME Crash PROVE TypeOK'
    <3>1. outer' \in [Runs -> {"unused", "waiting", "done", "lost"}]
      BY <1>1, <2>26 DEF TypeOK, Crash
    <3>2. inner' \in [Runs -> Awaiting \union {"unused", "leave", "unwind", "trip", "done", "cancelled", "tripped", "lost"}]
      BY <1>1, <2>26 DEF TypeOK, Crash
    <3>3. thread' \in [Runs -> Work \union {"none", "raised", "refused", "unsaved"}]
      BY <1>1, <2>26 DEF TypeOK, Crash
    <3>4. flag' \in BOOLEAN /\ first' \in BOOLEAN
      BY <1>1, <2>26, Zenon DEF TypeOK, Crash
    <3>5. /\ up' = "down" /\ crashes' = crashes + 1 /\ inners' = NoRun
         /\ UNCHANGED <<query, status, leased, report, ledger, attempt, erred, timedout, unbooked, overlap>>
      BY <2>26 DEF Crash
    <3>6. QED
      BY <1>1, <3>1, <3>2, <3>3, <3>4, <3>5 DEF TypeOK
  <2>27. ASSUME Boot PROVE TypeOK'
    BY <1>1, <2>27 DEF TypeOK, Boot, runVars
  <2>28. ASSUME Reconcile PROVE TypeOK'
    <3>1. CASE status \in Active /\ ~leased
      <4>1. PICK r \in Runs : Claim(r)
        BY <3>1, <2>28 DEF Reconcile
      <4>2. QED
        BY <1>1, <4>1, <2>28 DEF TypeOK, Reconcile, Claim, Launch, Move
    <3>2. CASE ~(status \in Active /\ ~leased)
      BY <1>1, <3>2, <2>28 DEF TypeOK, Reconcile
    <3>3. QED
      BY <3>1, <3>2
  <2>29. ASSUME LeaseLapse PROVE TypeOK'
    <3>1. leased' \in BOOLEAN /\ UNCHANGED <<envVars, status, report, ledger, flag, runVars, timedout, unbooked>>
      BY <2>29 DEF LeaseLapse
    <3>2. QED
      BY <1>1, <3>1 DEF TypeOK, envVars, runVars
  <2>30. QED
    BY <1>2, <2>1, <2>2, <2>3, <2>4, <2>5, <2>6, <2>7, <2>8, <2>9, <2>10, <2>11, <2>12,
       <2>13, <2>14, <2>15, <2>16, <2>17, <2>18, <2>19, <2>20, <2>21, <2>22, <2>23,
       <2>24, <2>25, <2>26, <2>27, <2>28, <2>29 DEF Next, ThreadStep, InnerStep
<1>3. CASE UNCHANGED vars
  BY <1>1, <1>3 DEF TypeOK, vars
<1>4. QED
  BY <1>1, <1>2, <1>3

\* A run is busy until both its tasks are over and no thread works for it.
Busy(r) == outer[r] = "waiting" \/ InnerLive(r) \/ thread[r] \in Work

\* Unless runs overlapped, one run at a time is busy, and none before the
\* job was first started, when it cannot have completed.
OneAtATime ==
    ~overlap => /\ \A r, s \in Runs : Busy(r) /\ Busy(s) => r = s
                /\ first => status # "completed" /\ \A r \in Runs : ~Busy(r)

\* A launch that is not noted as an overlap finds every other run over, and makes
\* no run busy but the one it starts.
LEMMA LaunchExcludes ==
    ASSUME TypeOK, NEW r \in Runs, Launch(r)
    PROVE  /\ ~overlap' => ~overlap /\ ~first' /\ \A s \in Runs : ~Busy(s)
           /\ \A s \in Runs : Busy(s)' => s = r \/ Busy(s)
<1>1. /\ overlap' = (overlap \/ ~Quiet \/ first')
      /\ outer' = [outer EXCEPT ![r] = "waiting"] /\ inner' = [inner EXCEPT ![r] = "merge"]
      /\ thread' = [thread EXCEPT ![r] = "merge"]
  BY DEF Launch, Move
<1>2. ~overlap' => ~overlap /\ ~first' /\ \A s \in Runs : ~Busy(s)
  BY <1>1, Zenon DEF Quiet, Busy
<1>3. \A s \in Runs : Busy(s)' => s = r \/ Busy(s)
  BY <1>1 DEF TypeOK, Busy, InnerLive
<1>4. QED
  BY <1>2, <1>3

\* Only a launch makes a run busy, and it takes note of one that is busy already.
LEMMA OneAtATimeStep == TypeOK /\ OneAtATime /\ [Next]_vars => OneAtATime'
<1>1. SUFFICES ASSUME TypeOK, OneAtATime, [Next]_vars PROVE OneAtATime'
  OBVIOUS
<1>2. CASE Next
  <2>1. ASSUME NEW r \in Runs, ThreadMerge(r) PROVE OneAtATime'
    BY <1>1, <2>1 DEF TypeOK, OneAtATime, Busy, InnerLive, Awaiting, Work, ThreadMerge,
       Did, envVars
  <2>2. ASSUME NEW r \in Runs, ThreadLookup(r) PROVE OneAtATime'
    BY <1>1, <2>2 DEF TypeOK, OneAtATime, Busy, InnerLive, Awaiting, Work, ThreadLookup,
       Did, envVars
  <2>3. ASSUME NEW r \in Runs, ThreadDebit(r) PROVE OneAtATime'
    BY <1>1, <2>3 DEF TypeOK, OneAtATime, Busy, InnerLive, Awaiting, Work, ThreadDebit,
       Did, envVars
  <2>4. ASSUME NEW r \in Runs, ThreadRaises(r) PROVE OneAtATime'
    BY <1>1, <2>4 DEF TypeOK, OneAtATime, Busy, InnerLive, Awaiting, Work, ThreadRaises,
       Did, envVars
  <2>5. ASSUME NEW r \in Runs, ThreadInit(r) PROVE OneAtATime'
    BY <1>1, <2>5 DEF TypeOK, OneAtATime, Busy, InnerLive, Awaiting, Work, ThreadInit,
       Did, envVars
  <2>6. ASSUME NEW r \in Runs, ThreadSave(r) PROVE OneAtATime'
    BY <1>1, <2>6 DEF TypeOK, OneAtATime, Busy, InnerLive, Awaiting, Work, ThreadSave,
       Did, envVars
  <2>7. ASSUME NEW r \in Runs, ThreadRecord(r) PROVE OneAtATime'
    BY <1>1, <2>7 DEF TypeOK, OneAtATime, Busy, InnerLive, Awaiting, Work, ThreadRecord,
       Did, MarkReport, envVars
  <2>8. ASSUME NEW r \in Runs, Merged(r) PROVE OneAtATime'
    BY <1>1, <2>8 DEF TypeOK, OneAtATime, Busy, InnerLive, Awaiting, Work, Merged, Move,
       envVars
  <2>9. ASSUME NEW r \in Runs, Reserved(r) PROVE OneAtATime'
    BY <1>1, <2>9 DEF TypeOK, OneAtATime, Busy, InnerLive, Awaiting, Work, Reserved,
       Move, envVars
  <2>10. ASSUME NEW r \in Runs, Refused(r) PROVE OneAtATime'
    BY <1>1, <2>10 DEF TypeOK, OneAtATime, Busy, InnerLive, Awaiting, Work, Refused,
       Move, envVars
  <2>11. ASSUME NEW r \in Runs, Started(r) PROVE OneAtATime'
    BY <1>1, <2>11 DEF TypeOK, OneAtATime, Busy, InnerLive, Awaiting, Work, Started,
       Move, envVars
  <2>12. ASSUME NEW r \in Runs, SetupRaises(r) PROVE OneAtATime'
    BY <1>1, <2>12 DEF TypeOK, OneAtATime, Busy, InnerLive, Awaiting, Work, SetupRaises, StartUp,
       Move, envVars
  <2>13. ASSUME NEW r \in Runs, AttemptYields(r) PROVE OneAtATime'
    BY <1>1, <2>13 DEF TypeOK, OneAtATime, Busy, InnerLive, Awaiting, Work,
       AttemptYields, Move, envVars
  <2>14. ASSUME NEW r \in Runs, AttemptFails(r) PROVE OneAtATime'
    BY <1>1, <2>14 DEF TypeOK, OneAtATime, Busy, InnerLive, Awaiting, Work,
       AttemptFails, GiveUp, envVars, Move
  <2>15. ASSUME NEW r \in Runs, Returns(r) PROVE OneAtATime'
    BY <1>1, <2>15 DEF TypeOK, OneAtATime, Busy, InnerLive, Awaiting, Work, Returns,
       Concludes, Outcome, Move, MarkReport, envVars
  <2>16. ASSUME NEW r \in Runs, AttemptsAgain(r) PROVE OneAtATime'
    BY <1>1, <2>16 DEF TypeOK, OneAtATime, Busy, InnerLive, Awaiting, Work,
       AttemptsAgain, Concludes, Outcome, Move, MarkReport, envVars
  <2>17. ASSUME NEW r \in Runs, Exhausts(r) PROVE OneAtATime'
    BY <1>1, <2>17 DEF TypeOK, OneAtATime, Busy, InnerLive, Awaiting, Work, Exhausts,
       Concludes, GiveUp, Outcome, Move, MarkReport, envVars
  <2>18. ASSUME NEW r \in Runs, Recorded(r) PROVE OneAtATime'
    BY <1>1, <2>18 DEF TypeOK, OneAtATime, Busy, InnerLive, Awaiting, Work, Recorded,
       Move, envVars
  <2>19. ASSUME NEW r \in Runs, Leaves(r) PROVE OneAtATime'
    BY <1>1, <2>19 DEF TypeOK, OneAtATime, Busy, InnerLive, Awaiting, Work, Leaves, envVars
  <2>20. ASSUME NEW r \in Runs, Finish(r) PROVE OneAtATime'
    BY <1>1, <2>20 DEF TypeOK, OneAtATime, Busy, InnerLive, Awaiting, Work, Finish,
       MarkReport, Settle, Ends, envVars
  <2>21. ASSUME NEW r \in Runs, Timeout(r) PROVE OneAtATime'
    BY <1>1, <2>21 DEF TypeOK, OneAtATime, Busy, InnerLive, Awaiting, Work, Timeout,
       MarkReport, Settle, Ends, Unnoted, envVars
  <2>22. ASSUME NEW r \in Runs, FirstStart(r) PROVE OneAtATime'
    BY <1>1, <2>22, LaunchExcludes DEF FirstStart, OneAtATime
  <2>23. ASSUME NEW r \in Runs, ResumeByUser(r) PROVE OneAtATime'
    BY <1>1, <2>23, LaunchExcludes DEF ResumeByUser, Claim, OneAtATime
  <2>24. ASSUME CancelInner PROVE OneAtATime'
    BY <1>1, <2>24 DEF TypeOK, OneAtATime, Busy, InnerLive, Awaiting, Work, CancelInner, StartUp,
       Unnoted, envVars
  <2>25. ASSUME CancelFallback PROVE OneAtATime'
    BY <1>1, <2>25 DEF TypeOK, OneAtATime, Busy, InnerLive, Awaiting, Work,
       CancelFallback, envVars, runVars
  <2>26. ASSUME Crash PROVE OneAtATime'
    BY <1>1, <2>26 DEF TypeOK, OneAtATime, Busy, InnerLive, Awaiting, Work, Crash
  <2>27. ASSUME Boot PROVE OneAtATime'
    BY <1>1, <2>27 DEF TypeOK, OneAtATime, Busy, InnerLive, Awaiting, Work, Boot, runVars
  <2>28. ASSUME Reconcile PROVE OneAtATime'
    <3>1. CASE status \in Active /\ ~leased
      <4>1. PICK r \in Runs : Claim(r)
        BY <3>1, <2>28 DEF Reconcile
      <4>2. QED
        BY <1>1, <4>1, LaunchExcludes DEF Claim, OneAtATime
    <3>2. CASE ~(status \in Active /\ ~leased)
      BY <1>1, <3>2, <2>28 DEF TypeOK, OneAtATime, Busy, InnerLive, Awaiting, Work,
         Reconcile
    <3>3. QED
      BY <3>1, <3>2
  <2>29. ASSUME LeaseLapse PROVE OneAtATime'
    BY <1>1, <2>29 DEF TypeOK, OneAtATime, Busy, InnerLive, Awaiting, Work, LeaseLapse,
       envVars, runVars
  <2>30. QED
    BY <1>2, <2>1, <2>2, <2>3, <2>4, <2>5, <2>6, <2>7, <2>8, <2>9, <2>10, <2>11, <2>12,
       <2>13, <2>14, <2>15, <2>16, <2>17, <2>18, <2>19, <2>20, <2>21, <2>22, <2>23,
       <2>24, <2>25, <2>26, <2>27, <2>28, <2>29 DEF Next, ThreadStep, InnerStep
<1>3. CASE UNCHANGED vars
  BY <1>1, <1>3 DEF TypeOK, OneAtATime, Busy, InnerLive, Awaiting, Work, vars
<1>4. QED
  BY <1>1, <1>2, <1>3

\* The thread that is about to debit found no reservation, and there is none yet.
CleanDebit ==
    ~overlap => /\ ledger.reserve <= 1
                /\ \A r \in Runs : thread[r] = "debit" => ledger.reserve = 0

\* No other run can debit between the look-up and the debit of a run.
LEMMA CleanDebitStep == TypeOK /\ OneAtATime /\ CleanDebit /\ [Next]_vars => CleanDebit'
<1>1. SUFFICES ASSUME TypeOK, OneAtATime, CleanDebit, [Next]_vars PROVE CleanDebit'
  OBVIOUS
<1>2. CASE Next
  <2>1. ASSUME NEW r \in Runs, ThreadMerge(r) PROVE CleanDebit'
    BY <1>1, <2>1 DEF TypeOK, OneAtATime, CleanDebit, Busy, Work, ThreadMerge, Did, envVars
  <2>2. ASSUME NEW r \in Runs, ThreadLookup(r) PROVE CleanDebit'
    BY <1>1, <2>2 DEF TypeOK, OneAtATime, CleanDebit, Busy, Work, ThreadLookup, Did, envVars
  <2>3. ASSUME NEW r \in Runs, ThreadDebit(r) PROVE CleanDebit'
    BY <1>1, <2>3 DEF TypeOK, OneAtATime, CleanDebit, Busy, Work, ThreadDebit, Did, envVars
  <2>4. ASSUME NEW r \in Runs, ThreadRaises(r) PROVE CleanDebit'
    BY <1>1, <2>4 DEF TypeOK, OneAtATime, CleanDebit, Busy, Work, ThreadRaises, Did, envVars
  <2>5. ASSUME NEW r \in Runs, ThreadInit(r) PROVE CleanDebit'
    BY <1>1, <2>5 DEF TypeOK, OneAtATime, CleanDebit, Busy, Work, ThreadInit, Did, envVars
  <2>6. ASSUME NEW r \in Runs, ThreadSave(r) PROVE CleanDebit'
    BY <1>1, <2>6 DEF TypeOK, OneAtATime, CleanDebit, Busy, Work, ThreadSave, Did, envVars
  <2>7. ASSUME NEW r \in Runs, ThreadRecord(r) PROVE CleanDebit'
    BY <1>1, <2>7 DEF TypeOK, OneAtATime, CleanDebit, Busy, Work, ThreadRecord, Did,
       MarkReport, envVars
  <2>8. ASSUME NEW r \in Runs, Merged(r) PROVE CleanDebit'
    BY <1>1, <2>8 DEF TypeOK, OneAtATime, CleanDebit, Busy, Work, Merged, Move, envVars
  <2>9. ASSUME NEW r \in Runs, Reserved(r) PROVE CleanDebit'
    BY <1>1, <2>9 DEF TypeOK, OneAtATime, CleanDebit, Busy, Work, Reserved, Move, envVars
  <2>10. ASSUME NEW r \in Runs, Refused(r) PROVE CleanDebit'
    BY <1>1, <2>10 DEF TypeOK, OneAtATime, CleanDebit, Busy, Work, Refused, Move, envVars
  <2>11. ASSUME NEW r \in Runs, Started(r) PROVE CleanDebit'
    BY <1>1, <2>11 DEF TypeOK, OneAtATime, CleanDebit, Busy, Work, Started, Move, envVars
  <2>12. ASSUME NEW r \in Runs, SetupRaises(r) PROVE CleanDebit'
    BY <1>1, <2>12 DEF TypeOK, OneAtATime, CleanDebit, Busy, Work, SetupRaises, StartUp, Move,
       envVars
  <2>13. ASSUME NEW r \in Runs, AttemptYields(r) PROVE CleanDebit'
    BY <1>1, <2>13 DEF TypeOK, OneAtATime, CleanDebit, Busy, Work, AttemptYields, Move,
       envVars
  <2>14. ASSUME NEW r \in Runs, AttemptFails(r) PROVE CleanDebit'
    BY <1>1, <2>14 DEF TypeOK, OneAtATime, CleanDebit, Busy, Work, AttemptFails, GiveUp,
       envVars, Move
  <2>15. ASSUME NEW r \in Runs, Returns(r) PROVE CleanDebit'
    BY <1>1, <2>15 DEF TypeOK, OneAtATime, CleanDebit, Busy, Work, Returns, Concludes,
       Outcome, Move, MarkReport, envVars
  <2>16. ASSUME NEW r \in Runs, AttemptsAgain(r) PROVE CleanDebit'
    BY <1>1, <2>16 DEF TypeOK, OneAtATime, CleanDebit, Busy, Work, AttemptsAgain,
       Concludes, Outcome, Move, MarkReport, envVars
  <2>17. ASSUME NEW r \in Runs, Exhausts(r) PROVE CleanDebit'
    BY <1>1, <2>17 DEF TypeOK, OneAtATime, CleanDebit, Busy, Work, Exhausts, Concludes,
       GiveUp, Outcome, Move, MarkReport, envVars
  <2>18. ASSUME NEW r \in Runs, Recorded(r) PROVE CleanDebit'
    BY <1>1, <2>18 DEF TypeOK, OneAtATime, CleanDebit, Busy, Work, Recorded, Move, envVars
  <2>19. ASSUME NEW r \in Runs, Leaves(r) PROVE CleanDebit'
    BY <1>1, <2>19 DEF TypeOK, OneAtATime, CleanDebit, Busy, Work, Leaves, envVars
  <2>20. ASSUME NEW r \in Runs, Finish(r) PROVE CleanDebit'
    BY <1>1, <2>20 DEF TypeOK, OneAtATime, CleanDebit, Busy, Work, Finish, MarkReport,
       Settle, Ends, envVars
  <2>21. ASSUME NEW r \in Runs, Timeout(r) PROVE CleanDebit'
    BY <1>1, <2>21 DEF TypeOK, OneAtATime, CleanDebit, Busy, Work, Timeout, MarkReport,
       Settle, Ends, Unnoted, envVars
  <2>22. ASSUME NEW r \in Runs, FirstStart(r) PROVE CleanDebit'
    BY <1>1, <2>22 DEF TypeOK, OneAtATime, CleanDebit, Busy, Work, FirstStart, Launch, Move
  <2>23. ASSUME NEW r \in Runs, ResumeByUser(r) PROVE CleanDebit'
    BY <1>1, <2>23 DEF TypeOK, OneAtATime, CleanDebit, Busy, Work, ResumeByUser, Claim,
       Launch, Move
  <2>24. ASSUME CancelInner PROVE CleanDebit'
    BY <1>1, <2>24 DEF TypeOK, OneAtATime, CleanDebit, Busy, Work, CancelInner, StartUp,
       Awaiting, Unnoted, envVars
  <2>25. ASSUME CancelFallback PROVE CleanDebit'
    BY <1>1, <2>25 DEF TypeOK, OneAtATime, CleanDebit, Busy, Work, CancelFallback,
       envVars, runVars
  <2>26. ASSUME Crash PROVE CleanDebit'
    BY <1>1, <2>26 DEF TypeOK, OneAtATime, CleanDebit, Busy, Work, Crash
  <2>27. ASSUME Boot PROVE CleanDebit'
    BY <1>1, <2>27 DEF TypeOK, OneAtATime, CleanDebit, Busy, Work, Boot, runVars
  <2>28. ASSUME Reconcile PROVE CleanDebit'
    BY <1>1, <2>28 DEF TypeOK, OneAtATime, CleanDebit, Busy, Work, Reconcile, Claim,
       Launch, Move
  <2>29. ASSUME LeaseLapse PROVE CleanDebit'
    BY <1>1, <2>29 DEF TypeOK, OneAtATime, CleanDebit, Busy, Work, LeaseLapse, envVars,
       runVars
  <2>30. QED
    BY <1>2, <2>1, <2>2, <2>3, <2>4, <2>5, <2>6, <2>7, <2>8, <2>9, <2>10, <2>11, <2>12,
       <2>13, <2>14, <2>15, <2>16, <2>17, <2>18, <2>19, <2>20, <2>21, <2>22, <2>23,
       <2>24, <2>25, <2>26, <2>27, <2>28, <2>29 DEF Next, ThreadStep, InnerStep
<1>3. CASE UNCHANGED vars
  BY <1>1, <1>3 DEF TypeOK, OneAtATime, CleanDebit, Busy, Work, vars
<1>4. QED
  BY <1>1, <1>2, <1>3

\* While a run has yet to begin its analysis, or records a failure, the job is
\* not completed; a thread that saved its result left the report completed.
ReportKept ==
    Orderly =>
        /\ status = "completed" => report = "completed"
        /\ \A r \in Runs :
              /\ \/ inner[r] \in {"merge", "reserve", "init"}
                 \/ thread[r] \in Work \ {"save"}
                 => status # "completed"
              /\ inner[r] = "save" => thread[r] \in {"save", "none", "unsaved"}
              /\ inner[r] = "save" /\ thread[r] = "none" => report = "completed"

\* Whatever touches the report of a completed job is the one busy run, or overlaps.
LEMMA ReportKeptStep == TypeOK /\ OneAtATime /\ ReportKept /\ [Next]_vars => ReportKept'
<1>1. SUFFICES ASSUME TypeOK, OneAtATime, ReportKept, [Next]_vars PROVE ReportKept'
  OBVIOUS
<1>2. CASE Next
  <2>1. ASSUME NEW r \in Runs, ThreadMerge(r) PROVE ReportKept'
    BY <1>1, <2>1 DEF TypeOK, OneAtATime, ReportKept, Orderly, Busy, InnerLive,
       Awaiting, Work, ThreadMerge, Did, envVars
  <2>2. ASSUME NEW r \in Runs, ThreadLookup(r) PROVE ReportKept'
    BY <1>1, <2>2 DEF TypeOK, OneAtATime, ReportKept, Orderly, Busy, InnerLive,
       Awaiting, Work, ThreadLookup, Did, envVars
  <2>3. ASSUME NEW r \in Runs, ThreadDebit(r) PROVE ReportKept'
    BY <1>1, <2>3 DEF TypeOK, OneAtATime, ReportKept, Orderly, Busy, InnerLive,
       Awaiting, Work, ThreadDebit, Did, envVars
  <2>4. ASSUME NEW r \in Runs, ThreadRaises(r) PROVE ReportKept'
    BY <1>1, <2>4 DEF TypeOK, OneAtATime, ReportKept, Orderly, Busy, InnerLive,
       Awaiting, Work, ThreadRaises, Did, envVars
  <2>5. ASSUME NEW r \in Runs, ThreadInit(r) PROVE ReportKept'
    BY <1>1, <2>5 DEF TypeOK, OneAtATime, ReportKept, Orderly, Busy, InnerLive,
       Awaiting, Work, ThreadInit, Did, envVars
  <2>6. ASSUME NEW r \in Runs, ThreadSave(r) PROVE ReportKept'
    BY <1>1, <2>6 DEF TypeOK, OneAtATime, ReportKept, Orderly, Busy, InnerLive,
       Awaiting, Work, ThreadSave, Did, envVars
  <2>7. ASSUME NEW r \in Runs, ThreadRecord(r) PROVE ReportKept'
    BY <1>1, <2>7 DEF TypeOK, OneAtATime, ReportKept, Orderly, Busy, InnerLive,
       Awaiting, Work, ThreadRecord, Did, MarkReport, envVars
  <2>8. ASSUME NEW r \in Runs, Merged(r) PROVE ReportKept'
    BY <1>1, <2>8 DEF TypeOK, OneAtATime, ReportKept, Orderly, Busy, InnerLive,
       Awaiting, Work, Merged, Move, envVars
  <2>9. ASSUME NEW r \in Runs, Reserved(r) PROVE ReportKept'
    BY <1>1, <2>9 DEF TypeOK, OneAtATime, ReportKept, Orderly, Busy, InnerLive,
       Awaiting, Work, Reserved, Move, envVars
  <2>10. ASSUME NEW r \in Runs, Refused(r) PROVE ReportKept'
    BY <1>1, <2>10 DEF TypeOK, OneAtATime, ReportKept, Orderly, Busy, InnerLive,
       Awaiting, Work, Refused, Move, envVars
  <2>11. ASSUME NEW r \in Runs, Started(r) PROVE ReportKept'
    BY <1>1, <2>11 DEF TypeOK, OneAtATime, ReportKept, Orderly, Busy, InnerLive,
       Awaiting, Work, Started, Move, envVars
  <2>12. ASSUME NEW r \in Runs, SetupRaises(r) PROVE ReportKept'
    BY <1>1, <2>12 DEF TypeOK, OneAtATime, ReportKept, Orderly, Busy, InnerLive,
       Awaiting, Work, SetupRaises, StartUp, Move, envVars
  <2>13. ASSUME NEW r \in Runs, AttemptYields(r) PROVE ReportKept'
    BY <1>1, <2>13 DEF TypeOK, OneAtATime, ReportKept, Orderly, Busy, InnerLive,
       Awaiting, Work, AttemptYields, Move, envVars
  <2>14. ASSUME NEW r \in Runs, AttemptFails(r) PROVE ReportKept'
    BY <1>1, <2>14 DEF TypeOK, OneAtATime, ReportKept, Orderly, Busy, InnerLive,
       Awaiting, Work, AttemptFails, GiveUp, envVars, Move
  <2>15. ASSUME NEW r \in Runs, Returns(r) PROVE ReportKept'
    BY <1>1, <2>15 DEF TypeOK, OneAtATime, ReportKept, Orderly, Busy, InnerLive,
       Awaiting, Work, Returns, Concludes, Outcome, Move, MarkReport, envVars
  <2>16. ASSUME NEW r \in Runs, AttemptsAgain(r) PROVE ReportKept'
    BY <1>1, <2>16 DEF TypeOK, OneAtATime, ReportKept, Orderly, Busy, InnerLive,
       Awaiting, Work, AttemptsAgain, Concludes, Outcome, Move, MarkReport, envVars
  <2>17. ASSUME NEW r \in Runs, Exhausts(r) PROVE ReportKept'
    BY <1>1, <2>17 DEF TypeOK, OneAtATime, ReportKept, Orderly, Busy, InnerLive,
       Awaiting, Work, Exhausts, Concludes, GiveUp, Outcome, Move, MarkReport, envVars
  <2>18. ASSUME NEW r \in Runs, Recorded(r) PROVE ReportKept'
    BY <1>1, <2>18 DEF TypeOK, OneAtATime, ReportKept, Orderly, Busy, InnerLive,
       Awaiting, Work, Recorded, Move, envVars
  <2>19. ASSUME NEW r \in Runs, Leaves(r) PROVE ReportKept'
    BY <1>1, <2>19 DEF TypeOK, OneAtATime, ReportKept, Orderly, Busy, InnerLive,
       Awaiting, Work, Leaves, envVars
  <2>20. ASSUME NEW r \in Runs, Finish(r) PROVE ReportKept'
    BY <1>1, <2>20 DEF TypeOK, OneAtATime, ReportKept, Orderly, Busy, InnerLive,
       Awaiting, Work, Finish, MarkReport, Settle, Ends, envVars
  <2>21. ASSUME NEW r \in Runs, Timeout(r) PROVE ReportKept'
    BY <1>1, <2>21 DEF TypeOK, OneAtATime, ReportKept, Orderly, Busy, InnerLive,
       Awaiting, Work, Timeout, MarkReport, Settle, Ends, Unnoted
  <2>22. ASSUME NEW r \in Runs, FirstStart(r) PROVE ReportKept'
    BY <1>1, <2>22 DEF TypeOK, OneAtATime, ReportKept, Orderly, Busy, InnerLive,
       Awaiting, Work, FirstStart, Launch, Move
  <2>23. ASSUME NEW r \in Runs, ResumeByUser(r) PROVE ReportKept'
    BY <1>1, <2>23 DEF TypeOK, OneAtATime, ReportKept, Orderly, Busy, InnerLive,
       Awaiting, Work, ResumeByUser, Claim, Launch, Move
  <2>24. ASSUME CancelInner PROVE ReportKept'
    BY <1>1, <2>24 DEF TypeOK, OneAtATime, ReportKept, Orderly, Busy, InnerLive,
       Awaiting, Work, CancelInner, StartUp, Unnoted, envVars
  <2>25. ASSUME CancelFallback PROVE ReportKept'
    BY <1>1, <2>25 DEF TypeOK, OneAtATime, ReportKept, Orderly, Busy, InnerLive,
       Awaiting, Work, CancelFallback, envVars, runVars
  <2>26. ASSUME Crash PROVE ReportKept'
    BY <1>1, <2>26 DEF TypeOK, OneAtATime, ReportKept, Orderly, Busy, InnerLive,
       Awaiting, Work, Crash
  <2>27. ASSUME Boot PROVE ReportKept'
    BY <1>1, <2>27 DEF TypeOK, OneAtATime, ReportKept, Orderly, Busy, InnerLive,
       Awaiting, Work, Boot, runVars
  <2>28. ASSUME Reconcile PROVE ReportKept'
    BY <1>1, <2>28 DEF TypeOK, OneAtATime, ReportKept, Orderly, Busy, InnerLive,
       Awaiting, Work, Reconcile, Claim, Launch, Move
  <2>29. ASSUME LeaseLapse PROVE ReportKept'
    BY <1>1, <2>29 DEF TypeOK, OneAtATime, ReportKept, Orderly, Busy, InnerLive,
       Awaiting, Work, LeaseLapse, envVars, runVars
  <2>30. QED
    BY <1>2, <2>1, <2>2, <2>3, <2>4, <2>5, <2>6, <2>7, <2>8, <2>9, <2>10, <2>11, <2>12,
       <2>13, <2>14, <2>15, <2>16, <2>17, <2>18, <2>19, <2>20, <2>21, <2>22, <2>23,
       <2>24, <2>25, <2>26, <2>27, <2>28, <2>29 DEF Next, ThreadStep, InnerStep
<1>3. CASE UNCHANGED vars
  BY <1>1, <1>3 DEF TypeOK, OneAtATime, ReportKept, Orderly, Busy, InnerLive, Awaiting,
     Work, vars
<1>4. QED
  BY <1>1, <1>2, <1>3

\* A reservation noted in the JobStore, or about to be, is in the ledger.
Noted ==
    /\ flag => ledger.reserve > 0
    /\ \A r \in Runs :
          /\ inner[r] = "merge" => thread[r] \in {"merge", "none", "raised"}
          /\ inner[r] = "reserve" => thread[r] \in {"lookup", "debit", "none", "raised", "refused"}
          /\ inner[r] = "reserve" /\ thread[r] = "none" => ledger.reserve > 0

\* Reservations stay in the ledger, and only their debit or an earlier one lets
\* the inner task go on.
LEMMA NotedStep == TypeOK /\ Noted /\ [Next]_vars => Noted'
<1>1. SUFFICES ASSUME TypeOK, Noted, [Next]_vars PROVE Noted'
  OBVIOUS
<1>2. CASE Next
  <2>1. ASSUME NEW r \in Runs, ThreadMerge(r) PROVE Noted'
    BY <1>1, <2>1 DEF TypeOK, Noted, Work, ThreadMerge, Did
  <2>2. ASSUME NEW r \in Runs, ThreadLookup(r) PROVE Noted'
    BY <1>1, <2>2 DEF TypeOK, Noted, Work, ThreadLookup, Did
  <2>3. ASSUME NEW r \in Runs, ThreadDebit(r) PROVE Noted'
    BY <1>1, <2>3 DEF TypeOK, Noted, Work, ThreadDebit, Did
  <2>4. ASSUME NEW r \in Runs, ThreadRaises(r) PROVE Noted'
    BY <1>1, <2>4 DEF TypeOK, Noted, Work, ThreadRaises, Did
  <2>5. ASSUME NEW r \in Runs, ThreadInit(r) PROVE Noted'
    BY <1>1, <2>5 DEF TypeOK, Noted, Work, ThreadInit, Did
  <2>6. ASSUME NEW r \in Runs, ThreadSave(r) PROVE Noted'
    BY <1>1, <2>6 DEF TypeOK, Noted, Work, ThreadSave, Did
  <2>7. ASSUME NEW r \in Runs, ThreadRecord(r) PROVE Noted'
    BY <1>1, <2>7 DEF TypeOK, Noted, Work, ThreadRecord, Did, MarkReport
  <2>8. ASSUME NEW r \in Runs, Merged(r) PROVE Noted'
    BY <1>1, <2>8 DEF TypeOK, Noted, Work, Merged, Move
  <2>9. ASSUME NEW r \in Runs, Reserved(r) PROVE Noted'
    BY <1>1, <2>9 DEF TypeOK, Noted, Work, Reserved, Move
  <2>10. ASSUME NEW r \in Runs, Refused(r) PROVE Noted'
    BY <1>1, <2>10 DEF TypeOK, Noted, Work, Refused, Move
  <2>11. ASSUME NEW r \in Runs, Started(r) PROVE Noted'
    BY <1>1, <2>11 DEF TypeOK, Noted, Work, Started, Move
  <2>12. ASSUME NEW r \in Runs, SetupRaises(r) PROVE Noted'
    BY <1>1, <2>12 DEF TypeOK, Noted, Work, SetupRaises, StartUp, Move
  <2>13. ASSUME NEW r \in Runs, AttemptYields(r) PROVE Noted'
    BY <1>1, <2>13 DEF TypeOK, Noted, Work, AttemptYields, Move
  <2>14. ASSUME NEW r \in Runs, AttemptFails(r) PROVE Noted'
    BY <1>1, <2>14 DEF TypeOK, Noted, Work, AttemptFails, GiveUp, envVars, Move
  <2>15. ASSUME NEW r \in Runs, Returns(r) PROVE Noted'
    BY <1>1, <2>15 DEF TypeOK, Noted, Work, Returns, Concludes, Outcome, Move, MarkReport
  <2>16. ASSUME NEW r \in Runs, AttemptsAgain(r) PROVE Noted'
    BY <1>1, <2>16 DEF TypeOK, Noted, Work, AttemptsAgain, Concludes, Outcome, Move,
       MarkReport
  <2>17. ASSUME NEW r \in Runs, Exhausts(r) PROVE Noted'
    BY <1>1, <2>17 DEF TypeOK, Noted, Work, Exhausts, Concludes, GiveUp, Outcome, Move,
       MarkReport
  <2>18. ASSUME NEW r \in Runs, Recorded(r) PROVE Noted'
    BY <1>1, <2>18 DEF TypeOK, Noted, Work, Recorded, Move
  <2>19. ASSUME NEW r \in Runs, Leaves(r) PROVE Noted'
    BY <1>1, <2>19 DEF TypeOK, Noted, Work, Leaves
  <2>20. ASSUME NEW r \in Runs, Finish(r) PROVE Noted'
    BY <1>1, <2>20 DEF TypeOK, Noted, Work, Finish, MarkReport, Settle, Ends
  <2>21. ASSUME NEW r \in Runs, Timeout(r) PROVE Noted'
    BY <1>1, <2>21 DEF TypeOK, Noted, Work, Timeout, MarkReport, Settle, Ends, Unnoted
  <2>22. ASSUME NEW r \in Runs, FirstStart(r) PROVE Noted'
    BY <1>1, <2>22 DEF TypeOK, Noted, Work, FirstStart, Launch, Move
  <2>23. ASSUME NEW r \in Runs, ResumeByUser(r) PROVE Noted'
    BY <1>1, <2>23 DEF TypeOK, Noted, Work, ResumeByUser, Claim, Launch, Move
  <2>24. ASSUME CancelInner PROVE Noted'
    BY <1>1, <2>24 DEF TypeOK, Noted, Work, CancelInner, StartUp, Unnoted
  <2>25. ASSUME CancelFallback PROVE Noted'
    BY <1>1, <2>25 DEF TypeOK, Noted, Work, CancelFallback, envVars, runVars
  <2>26. ASSUME Crash PROVE Noted'
    <3>1. flag' => flag
      BY <1>1, <2>26, Zenon DEF TypeOK, Crash
    <3>2. ledger' = ledger /\ \A r \in Runs : inner'[r] \notin Awaiting
      BY <1>1, <2>26 DEF TypeOK, Crash, InnerLive, Awaiting
    <3>3. QED
      BY <1>1, <3>1, <3>2 DEF Noted, Awaiting
  <2>27. ASSUME Boot PROVE Noted'
    BY <1>1, <2>27 DEF TypeOK, Noted, Work, Boot, runVars
  <2>28. ASSUME Reconcile PROVE Noted'
    BY <1>1, <2>28 DEF TypeOK, Noted, Work, Reconcile, Claim, Launch, Move
  <2>29. ASSUME LeaseLapse PROVE Noted'
    BY <1>1, <2>29 DEF TypeOK, Noted, Work, LeaseLapse, envVars, runVars
  <2>30. QED
    BY <1>2, <2>1, <2>2, <2>3, <2>4, <2>5, <2>6, <2>7, <2>8, <2>9, <2>10, <2>11, <2>12,
       <2>13, <2>14, <2>15, <2>16, <2>17, <2>18, <2>19, <2>20, <2>21, <2>22, <2>23,
       <2>24, <2>25, <2>26, <2>27, <2>28, <2>29 DEF Next, ThreadStep, InnerStep
<1>3. CASE UNCHANGED vars
  BY <1>1, <1>3 DEF TypeOK, Noted, Work, vars
<1>4. QED
  BY <1>1, <1>2, <1>3

\* The inner task is before or at its reservation, and the outer one waits for it.
Reserving(r) == outer[r] = "waiting" /\ inner[r] \in {"merge", "reserve"}

\* Unless the process crashed or a run was left before it noted its reservation,
\* a reservation is settled, or some outer task is there to settle it.
Pursued ==
    crashes = 0 /\ ~unbooked =>
        /\ \A r \in Runs :
              inner[r] = "merge" \/ thread[r] \in {"lookup", "debit"} => Reserving(r) \/ flag
        /\ ledger.reserve > 0 =>
              \/ ledger.commit + ledger.refund > 0
              \/ flag /\ \E r \in Runs : outer[r] = "waiting"
              \/ \E r \in Runs : Reserving(r) /\ inner[r] = "reserve" /\ thread[r] = "none"

\* An outer task settles what was noted before it ends, and what was not makes the
\* run one that was left too early.
LEMMA PursuedStep == TypeOK /\ Noted /\ Pursued /\ [Next]_vars => Pursued'
<1>1. SUFFICES ASSUME TypeOK, Noted, Pursued, [Next]_vars PROVE Pursued'
  OBVIOUS
<1>2. CASE Next
  <2>1. ASSUME NEW r \in Runs, ThreadMerge(r) PROVE Pursued'
    BY <1>1, <2>1 DEF TypeOK, Noted, Pursued, Reserving, ThreadMerge, Did, envVars
  <2>2. ASSUME NEW r \in Runs, ThreadLookup(r) PROVE Pursued'
    BY <1>1, <2>2 DEF TypeOK, Noted, Pursued, Reserving, ThreadLookup, Did, envVars
  <2>3. ASSUME NEW r \in Runs, ThreadDebit(r) PROVE Pursued'
    BY <1>1, <2>3 DEF TypeOK, Noted, Pursued, Reserving, ThreadDebit, Did, envVars
  <2>4. ASSUME NEW r \in Runs, ThreadRaises(r) PROVE Pursued'
    BY <1>1, <2>4 DEF TypeOK, Noted, Pursued, Reserving, ThreadRaises, Did, envVars
  <2>5. ASSUME NEW r \in Runs, ThreadInit(r) PROVE Pursued'
    BY <1>1, <2>5 DEF TypeOK, Noted, Pursued, Reserving, ThreadInit, Did, envVars
  <2>6. ASSUME NEW r \in Runs, ThreadSave(r) PROVE Pursued'
    BY <1>1, <2>6 DEF TypeOK, Noted, Pursued, Reserving, ThreadSave, Did, envVars
  <2>7. ASSUME NEW r \in Runs, ThreadRecord(r) PROVE Pursued'
    BY <1>1, <2>7 DEF TypeOK, Noted, Pursued, Reserving, ThreadRecord, Did, MarkReport,
       envVars
  <2>8. ASSUME NEW r \in Runs, Merged(r) PROVE Pursued'
    BY <1>1, <2>8 DEF TypeOK, Noted, Pursued, Reserving, Merged, Move, envVars
  <2>9. ASSUME NEW r \in Runs, Reserved(r) PROVE Pursued'
    BY <1>1, <2>9 DEF TypeOK, Noted, Pursued, Reserving, Reserved, Move, envVars
  <2>10. ASSUME NEW r \in Runs, Refused(r) PROVE Pursued'
    BY <1>1, <2>10 DEF TypeOK, Noted, Pursued, Reserving, Refused, Move, envVars
  <2>11. ASSUME NEW r \in Runs, Started(r) PROVE Pursued'
    BY <1>1, <2>11 DEF TypeOK, Noted, Pursued, Reserving, Started, Move, envVars
  <2>12. ASSUME NEW r \in Runs, SetupRaises(r) PROVE Pursued'
    BY <1>1, <2>12 DEF TypeOK, Noted, Pursued, Reserving, SetupRaises, StartUp, Move, envVars
  <2>13. ASSUME NEW r \in Runs, AttemptYields(r) PROVE Pursued'
    BY <1>1, <2>13 DEF TypeOK, Noted, Pursued, Reserving, AttemptYields, Move, envVars
  <2>14. ASSUME NEW r \in Runs, AttemptFails(r) PROVE Pursued'
    BY <1>1, <2>14 DEF TypeOK, Noted, Pursued, Reserving, AttemptFails, GiveUp, envVars,
       Move
  <2>15. ASSUME NEW r \in Runs, Returns(r) PROVE Pursued'
    BY <1>1, <2>15 DEF TypeOK, Noted, Pursued, Reserving, Returns, Concludes, Outcome,
       Move, MarkReport, envVars
  <2>16. ASSUME NEW r \in Runs, AttemptsAgain(r) PROVE Pursued'
    BY <1>1, <2>16 DEF TypeOK, Noted, Pursued, Reserving, AttemptsAgain, Concludes,
       Outcome, Move, MarkReport, envVars
  <2>17. ASSUME NEW r \in Runs, Exhausts(r) PROVE Pursued'
    BY <1>1, <2>17 DEF TypeOK, Noted, Pursued, Reserving, Exhausts, Concludes, GiveUp,
       Outcome, Move, MarkReport, envVars
  <2>18. ASSUME NEW r \in Runs, Recorded(r) PROVE Pursued'
    BY <1>1, <2>18 DEF TypeOK, Noted, Pursued, Reserving, Recorded, Move, envVars
  <2>19. ASSUME NEW r \in Runs, Leaves(r) PROVE Pursued'
    BY <1>1, <2>19 DEF TypeOK, Noted, Pursued, Reserving, Leaves, envVars
  <2>20. ASSUME NEW r \in Runs, Finish(r) PROVE Pursued'
    <3>1. /\ outer[r] = "waiting" /\ inner[r] \in {"done", "cancelled", "tripped"} /\ outer' = [outer EXCEPT ![r] = "done"]
         /\ UNCHANGED <<inner, thread, flag, crashes, unbooked>>
      BY <2>20 DEF Finish, Ends, envVars
    <3>2. \E st \in {"failed", status} : Settle(st)
      BY <2>20 DEF Finish
    <3>3. /\ ledger'.reserve = ledger.reserve
          /\ ledger'.commit + ledger'.refund > 0 \/ ~flag \/ ledger.reserve = 0
          /\ ~flag => ledger' = ledger
      BY <1>1, <3>2 DEF Settle, TypeOK
    <3>4. QED
      BY <1>1, <3>1, <3>3 DEF TypeOK, Noted, Pursued, Reserving
  <2>21. ASSUME NEW r \in Runs, Timeout(r) PROVE Pursued'
    <3>1. /\ outer[r] = "waiting" /\ outer' = [outer EXCEPT ![r] = "done"]
         /\ UNCHANGED <<inner, thread, flag, crashes>>
      BY <2>21 DEF Timeout, Ends, envVars
    <3>2. Settle("failed")
      BY <2>21 DEF Timeout
    <3>3. /\ ledger'.reserve = ledger.reserve
          /\ ledger'.commit + ledger'.refund > 0 \/ ~flag \/ ledger.reserve = 0
          /\ ~flag => ledger' = ledger
      BY <1>1, <3>2 DEF Settle, TypeOK
    <3>4. ~unbooked' => ~unbooked /\ (flag \/ inner[r] \notin {"merge", "reserve"})
      BY <2>21 DEF Timeout, Unnoted
    <3>5. QED
      BY <1>1, <3>1, <3>3, <3>4 DEF TypeOK, Noted, Pursued, Reserving
  <2>22. ASSUME NEW r \in Runs, FirstStart(r) PROVE Pursued'
    BY <1>1, <2>22 DEF TypeOK, Noted, Pursued, Reserving, FirstStart, Launch, Move,
       Quiet, InnerLive, Work
  <2>23. ASSUME NEW r \in Runs, ResumeByUser(r) PROVE Pursued'
    BY <1>1, <2>23 DEF TypeOK, Noted, Pursued, Reserving, ResumeByUser, Claim, Launch,
       Move, Quiet, InnerLive, Work
  <2>24. ASSUME CancelInner PROVE Pursued'
    BY <1>1, <2>24 DEF TypeOK, Noted, Pursued, Reserving, CancelInner, StartUp, Awaiting,
       Unnoted, envVars
  <2>25. ASSUME CancelFallback PROVE Pursued'
    BY <1>1, <2>25 DEF TypeOK, Noted, Pursued, Reserving, CancelFallback, envVars, runVars
  <2>26. ASSUME Crash PROVE Pursued'
    BY <1>1, <2>26 DEF TypeOK, Noted, Pursued, Reserving, Crash, InnerLive
  <2>27. ASSUME Boot PROVE Pursued'
    BY <1>1, <2>27 DEF TypeOK, Noted, Pursued, Reserving, Boot, runVars
  <2>28. ASSUME Reconcile PROVE Pursued'
    BY <1>1, <2>28 DEF TypeOK, Noted, Pursued, Reserving, Reconcile, Claim, Launch,
       Move, Quiet, InnerLive, Work
  <2>29. ASSUME LeaseLapse PROVE Pursued'
    BY <1>1, <2>29 DEF TypeOK, Noted, Pursued, Reserving, LeaseLapse, InnerLive,
       envVars, runVars
  <2>30. QED
    BY <1>2, <2>1, <2>2, <2>3, <2>4, <2>5, <2>6, <2>7, <2>8, <2>9, <2>10, <2>11, <2>12,
       <2>13, <2>14, <2>15, <2>16, <2>17, <2>18, <2>19, <2>20, <2>21, <2>22, <2>23,
       <2>24, <2>25, <2>26, <2>27, <2>28, <2>29 DEF Next, ThreadStep, InnerStep
<1>3. CASE UNCHANGED vars
  BY <1>1, <1>3 DEF TypeOK, Noted, Pursued, Reserving, vars
<1>4. QED
  BY <1>1, <1>2, <1>3

\* A run that was not started has no task, and one that is starting up has made no
\* attempt.
Staged ==
    \A r \in Runs :
        /\ outer[r] = "unused" => inner[r] = "unused"
        /\ inner[r] \in StartUp \union {"unused", "trip", "tripped"} => attempt[r] = 0

\* The attempts are counted once the start-up is over.
LEMMA StagedStep == TypeOK /\ Staged /\ [Next]_vars => Staged'
<1>1. SUFFICES ASSUME TypeOK, Staged, [Next]_vars PROVE Staged'
  OBVIOUS
<1>2. CASE Next
  <2>1. ASSUME NEW r \in Runs, ThreadMerge(r) PROVE Staged'
    BY <1>1, <2>1 DEF TypeOK, Staged, StartUp, ThreadMerge, Did, envVars
  <2>2. ASSUME NEW r \in Runs, ThreadLookup(r) PROVE Staged'
    BY <1>1, <2>2 DEF TypeOK, Staged, StartUp, ThreadLookup, Did, envVars
  <2>3. ASSUME NEW r \in Runs, ThreadDebit(r) PROVE Staged'
    BY <1>1, <2>3 DEF TypeOK, Staged, StartUp, ThreadDebit, Did, envVars
  <2>4. ASSUME NEW r \in Runs, ThreadRaises(r) PROVE Staged'
    BY <1>1, <2>4 DEF TypeOK, Staged, StartUp, ThreadRaises, Did, envVars
  <2>5. ASSUME NEW r \in Runs, ThreadInit(r) PROVE Staged'
    BY <1>1, <2>5 DEF TypeOK, Staged, StartUp, ThreadInit, Did, envVars
  <2>6. ASSUME NEW r \in Runs, ThreadSave(r) PROVE Staged'
    BY <1>1, <2>6 DEF TypeOK, Staged, StartUp, ThreadSave, Did, envVars
  <2>7. ASSUME NEW r \in Runs, ThreadRecord(r) PROVE Staged'
    BY <1>1, <2>7 DEF TypeOK, Staged, StartUp, ThreadRecord, Did, MarkReport, envVars
  <2>8. ASSUME NEW r \in Runs, Merged(r) PROVE Staged'
    BY <1>1, <2>8 DEF TypeOK, Staged, StartUp, Merged, Move, envVars
  <2>9. ASSUME NEW r \in Runs, Reserved(r) PROVE Staged'
    BY <1>1, <2>9 DEF TypeOK, Staged, StartUp, Reserved, Move, envVars
  <2>10. ASSUME NEW r \in Runs, Refused(r) PROVE Staged'
    BY <1>1, <2>10 DEF TypeOK, Staged, StartUp, Refused, Move, envVars
  <2>11. ASSUME NEW r \in Runs, Started(r) PROVE Staged'
    BY <1>1, <2>11 DEF TypeOK, Staged, StartUp, Started, Move, envVars
  <2>12. ASSUME NEW r \in Runs, SetupRaises(r) PROVE Staged'
    BY <1>1, <2>12 DEF TypeOK, Staged, StartUp, SetupRaises, Move, envVars
  <2>13. ASSUME NEW r \in Runs, AttemptYields(r) PROVE Staged'
    BY <1>1, <2>13 DEF TypeOK, Staged, StartUp, AttemptYields, Move, envVars
  <2>14. ASSUME NEW r \in Runs, AttemptFails(r) PROVE Staged'
    BY <1>1, <2>14 DEF TypeOK, Staged, StartUp, AttemptFails, GiveUp, Move, envVars
  <2>15. ASSUME NEW r \in Runs, Returns(r) PROVE Staged'
    BY <1>1, <2>15 DEF TypeOK, Staged, StartUp, Returns, Concludes, Outcome, Move,
       envVars
  <2>16. ASSUME NEW r \in Runs, AttemptsAgain(r) PROVE Staged'
    BY <1>1, <2>16 DEF TypeOK, Staged, StartUp, AttemptsAgain, Concludes, Outcome,
       Move, envVars
  <2>17. ASSUME NEW r \in Runs, Exhausts(r) PROVE Staged'
    BY <1>1, <2>17 DEF TypeOK, Staged, StartUp, Exhausts, Concludes, GiveUp, Outcome,
       Move, envVars
  <2>18. ASSUME NEW r \in Runs, Recorded(r) PROVE Staged'
    BY <1>1, <2>18 DEF TypeOK, Staged, StartUp, Recorded, Move, envVars
  <2>19. ASSUME NEW r \in Runs, Leaves(r) PROVE Staged'
    BY <1>1, <2>19 DEF TypeOK, Staged, StartUp, Leaves, envVars
  <2>20. ASSUME NEW r \in Runs, Finish(r) PROVE Staged'
    BY <1>1, <2>20 DEF TypeOK, Staged, StartUp, Finish, Settle, Ends, envVars
  <2>21. ASSUME NEW r \in Runs, Timeout(r) PROVE Staged'
    BY <1>1, <2>21 DEF TypeOK, Staged, StartUp, Timeout, Settle, Ends, envVars
  <2>22. ASSUME NEW r \in Runs, FirstStart(r) PROVE Staged'
    BY <1>1, <2>22 DEF TypeOK, Staged, StartUp, FirstStart, Launch, Move
  <2>23. ASSUME NEW r \in Runs, ResumeByUser(r) PROVE Staged'
    BY <1>1, <2>23 DEF TypeOK, Staged, StartUp, ResumeByUser, Claim, Launch, Move
  <2>24. ASSUME CancelInner PROVE Staged'
    BY <1>1, <2>24 DEF TypeOK, Staged, StartUp, CancelInner, Unnoted, envVars,
       Awaiting
  <2>25. ASSUME CancelFallback PROVE Staged'
    BY <1>1, <2>25 DEF TypeOK, Staged, StartUp, CancelFallback, envVars, runVars
  <2>26. ASSUME Crash PROVE Staged'
    BY <1>1, <2>26 DEF TypeOK, Staged, StartUp, Crash, InnerLive, Awaiting
  <2>27. ASSUME Boot PROVE Staged'
    BY <1>1, <2>27 DEF TypeOK, Staged, StartUp, Boot, runVars
  <2>28. ASSUME Reconcile PROVE Staged'
    BY <1>1, <2>28 DEF TypeOK, Staged, StartUp, Reconcile, Claim, Launch, Move
  <2>29. ASSUME LeaseLapse PROVE Staged'
    BY <1>1, <2>29 DEF TypeOK, Staged, StartUp, LeaseLapse, envVars, runVars
  <2>30. QED
    BY <1>2, <2>1, <2>2, <2>3, <2>4, <2>5, <2>6, <2>7, <2>8, <2>9, <2>10, <2>11,
       <2>12, <2>13, <2>14, <2>15, <2>16, <2>17, <2>18, <2>19, <2>20, <2>21, <2>22,
       <2>23, <2>24, <2>25, <2>26, <2>27, <2>28, <2>29 DEF Next, ThreadStep, InnerStep
<1>3. CASE UNCHANGED vars
  BY <1>1, <1>3 DEF TypeOK, Staged, StartUp, vars
<1>4. QED
  BY <1>1, <1>2, <1>3

\* The outer task of a live inner one waits for it, and the job's cancellation finds
\* it; before the first start there is no run.
Attended ==
    Orderly => \A r \in Runs :
        /\ InnerLive(r) => outer[r] = "waiting" /\ inners = r
        /\ first => outer[r] = "unused"

\* Only a timeout or an overlap separates the two tasks of a run.
LEMMA AttendedStep == TypeOK /\ OneAtATime /\ Staged /\ Attended /\ [Next]_vars => Attended'
<1>1. SUFFICES ASSUME TypeOK, OneAtATime, Staged, Attended, [Next]_vars PROVE Attended'
  OBVIOUS
<1>2. CASE Next
  <2>1. ASSUME NEW r \in Runs, ThreadMerge(r) PROVE Attended'
    BY <1>1, <2>1 DEF TypeOK, OneAtATime, Staged, Attended, Orderly, Busy, InnerLive,
       Awaiting, ThreadMerge, Did, envVars
  <2>2. ASSUME NEW r \in Runs, ThreadLookup(r) PROVE Attended'
    BY <1>1, <2>2 DEF TypeOK, OneAtATime, Staged, Attended, Orderly, Busy, InnerLive,
       Awaiting, ThreadLookup, Did, envVars
  <2>3. ASSUME NEW r \in Runs, ThreadDebit(r) PROVE Attended'
    BY <1>1, <2>3 DEF TypeOK, OneAtATime, Staged, Attended, Orderly, Busy, InnerLive,
       Awaiting, ThreadDebit, Did, envVars
  <2>4. ASSUME NEW r \in Runs, ThreadRaises(r) PROVE Attended'
    BY <1>1, <2>4 DEF TypeOK, OneAtATime, Staged, Attended, Orderly, Busy, InnerLive,
       Awaiting, ThreadRaises, Did, envVars
  <2>5. ASSUME NEW r \in Runs, ThreadInit(r) PROVE Attended'
    BY <1>1, <2>5 DEF TypeOK, OneAtATime, Staged, Attended, Orderly, Busy, InnerLive,
       Awaiting, ThreadInit, Did, envVars
  <2>6. ASSUME NEW r \in Runs, ThreadSave(r) PROVE Attended'
    BY <1>1, <2>6 DEF TypeOK, OneAtATime, Staged, Attended, Orderly, Busy, InnerLive,
       Awaiting, ThreadSave, Did, envVars
  <2>7. ASSUME NEW r \in Runs, ThreadRecord(r) PROVE Attended'
    BY <1>1, <2>7 DEF TypeOK, OneAtATime, Staged, Attended, Orderly, Busy, InnerLive,
       Awaiting, ThreadRecord, Did, MarkReport, envVars
  <2>8. ASSUME NEW r \in Runs, Merged(r) PROVE Attended'
    BY <1>1, <2>8 DEF TypeOK, OneAtATime, Staged, Attended, Orderly, Busy, InnerLive,
       Awaiting, Merged, Move, envVars
  <2>9. ASSUME NEW r \in Runs, Reserved(r) PROVE Attended'
    BY <1>1, <2>9 DEF TypeOK, OneAtATime, Staged, Attended, Orderly, Busy, InnerLive,
       Awaiting, Reserved, Move, envVars
  <2>10. ASSUME NEW r \in Runs, Refused(r) PROVE Attended'
    BY <1>1, <2>10 DEF TypeOK, OneAtATime, Staged, Attended, Orderly, Busy, InnerLive,
       Awaiting, Refused, Move, envVars
  <2>11. ASSUME NEW r \in Runs, Started(r) PROVE Attended'
    BY <1>1, <2>11 DEF TypeOK, OneAtATime, Staged, Attended, Orderly, Busy, InnerLive,
       Awaiting, Started, Move, envVars
  <2>12. ASSUME NEW r \in Runs, SetupRaises(r) PROVE Attended'
    BY <1>1, <2>12 DEF TypeOK, OneAtATime, Staged, Attended, Orderly, Busy, InnerLive,
       Awaiting, SetupRaises, Move, envVars, StartUp
  <2>13. ASSUME NEW r \in Runs, AttemptYields(r) PROVE Attended'
    BY <1>1, <2>13 DEF TypeOK, OneAtATime, Staged, Attended, Orderly, Busy, InnerLive,
       Awaiting, AttemptYields, Move, envVars
  <2>14. ASSUME NEW r \in Runs, AttemptFails(r) PROVE Attended'
    BY <1>1, <2>14 DEF TypeOK, OneAtATime, Staged, Attended, Orderly, Busy, InnerLive,
       Awaiting, AttemptFails, GiveUp, Move, envVars
  <2>15. ASSUME NEW r \in Runs, Returns(r) PROVE Attended'
    BY <1>1, <2>15 DEF TypeOK, OneAtATime, Staged, Attended, Orderly, Busy, InnerLive,
       Awaiting, Returns, Concludes, Outcome, Move, envVars
  <2>16. ASSUME NEW r \in Runs, AttemptsAgain(r) PROVE Attended'
    BY <1>1, <2>16 DEF TypeOK, OneAtATime, Staged, Attended, Orderly, Busy, InnerLive,
       Awaiting, AttemptsAgain, Concludes, Outcome, Move, envVars
  <2>17. ASSUME NEW r \in Runs, Exhausts(r) PROVE Attended'
    BY <1>1, <2>17 DEF TypeOK, OneAtATime, Staged, Attended, Orderly, Busy, InnerLive,
       Awaiting, Exhausts, Concludes, GiveUp, Outcome, Move, envVars
  <2>18. ASSUME NEW r \in Runs, Recorded(r) PROVE Attended'
    BY <1>1, <2>18 DEF TypeOK, OneAtATime, Staged, Attended, Orderly, Busy, InnerLive,
       Awaiting, Recorded, Move, envVars
  <2>19. ASSUME NEW r \in Runs, Leaves(r) PROVE Attended'
    BY <1>1, <2>19 DEF TypeOK, OneAtATime, Staged, Attended, Orderly, Busy, InnerLive,
       Awaiting, Leaves, envVars
  <2>20. ASSUME NEW r \in Runs, Finish(r) PROVE Attended'
    BY <1>1, <2>20 DEF TypeOK, OneAtATime, Staged, Attended, Orderly, Busy, InnerLive,
       Awaiting, Finish, Settle, Ends, envVars
  <2>21. ASSUME NEW r \in Runs, Timeout(r) PROVE Attended'
    BY <1>1, <2>21 DEF TypeOK, OneAtATime, Staged, Attended, Orderly, Busy, InnerLive,
       Awaiting, Timeout, Settle, Ends, envVars
  <2>22. ASSUME NEW r \in Runs, FirstStart(r) PROVE Attended'
    <3>1. /\ Launch(r) /\ timedout' = timedout /\ (first' => first)
      BY <2>22 DEF FirstStart
    <3>2. /\ outer' = [outer EXCEPT ![r] = "waiting"] /\ inner' = [inner EXCEPT ![r] = "merge"] /\ inners' = r
      BY <3>1 DEF Launch, Move
    <3>3. /\ ~overlap' => ~overlap /\ ~first' /\ \A s \in Runs : ~Busy(s)
          /\ \A s \in Runs : Busy(s)' => s = r \/ Busy(s)
      BY <1>1, <3>1, LaunchExcludes
    <3>4. ASSUME NEW s \in Runs, Orderly', InnerLive(s)' PROVE s = r
      BY <3>3, <3>4 DEF Orderly, Busy
    <3>5. outer'[r] = "waiting"
      BY <1>1, <3>2 DEF TypeOK
    <3> QED
      BY <3>2, <3>3, <3>4, <3>5 DEF Attended, Orderly
  <2>23. ASSUME NEW r \in Runs, ResumeByUser(r) PROVE Attended'
    <3>1. /\ Launch(r) /\ timedout' = timedout /\ (first' => first)
      BY <2>23 DEF ResumeByUser, Claim
    <3>2. /\ outer' = [outer EXCEPT ![r] = "waiting"] /\ inner' = [inner EXCEPT ![r] = "merge"] /\ inners' = r
      BY <3>1 DEF Launch, Move
    <3>3. /\ ~overlap' => ~overlap /\ ~first' /\ \A s \in Runs : ~Busy(s)
          /\ \A s \in Runs : Busy(s)' => s = r \/ Busy(s)
      BY <1>1, <3>1, LaunchExcludes
    <3>4. ASSUME NEW s \in Runs, Orderly', InnerLive(s)' PROVE s = r
      BY <3>3, <3>4 DEF Orderly, Busy
    <3>5. outer'[r] = "waiting"
      BY <1>1, <3>2 DEF TypeOK
    <3> QED
      BY <3>2, <3>3, <3>4, <3>5 DEF Attended, Orderly
  <2>24. ASSUME CancelInner PROVE Attended'
    BY <1>1, <2>24 DEF TypeOK, OneAtATime, Staged, Attended, Orderly, Busy, InnerLive,
       Awaiting, CancelInner, Unnoted, envVars
  <2>25. ASSUME CancelFallback PROVE Attended'
    BY <1>1, <2>25 DEF TypeOK, OneAtATime, Staged, Attended, Orderly, Busy, InnerLive,
       Awaiting, CancelFallback, envVars, runVars
  <2>26. ASSUME Crash PROVE Attended'
    BY <1>1, <2>26 DEF TypeOK, OneAtATime, Staged, Attended, Orderly, Busy, InnerLive,
       Awaiting, Crash
  <2>27. ASSUME Boot PROVE Attended'
    BY <1>1, <2>27 DEF TypeOK, OneAtATime, Staged, Attended, Orderly, Busy, InnerLive,
       Awaiting, Boot, runVars
  <2>28. ASSUME Reconcile PROVE Attended'
    BY <1>1, <2>28, LaunchExcludes DEF TypeOK, OneAtATime, Staged, Attended, Orderly,
       Busy, InnerLive, Awaiting, Reconcile, Claim, Launch, Move
  <2>29. ASSUME LeaseLapse PROVE Attended'
    BY <1>1, <2>29 DEF TypeOK, OneAtATime, Staged, Attended, Orderly, Busy, InnerLive,
       Awaiting, LeaseLapse, envVars, runVars
  <2>30. QED
    BY <1>2, <2>1, <2>2, <2>3, <2>4, <2>5, <2>6, <2>7, <2>8, <2>9, <2>10, <2>11,
       <2>12, <2>13, <2>14, <2>15, <2>16, <2>17, <2>18, <2>19, <2>20, <2>21, <2>22,
       <2>23, <2>24, <2>25, <2>26, <2>27, <2>28, <2>29 DEF Next, ThreadStep, InnerStep
<1>3. CASE UNCHANGED vars
  BY <1>1, <1>3 DEF TypeOK, OneAtATime, Staged, Attended, Orderly, Busy, InnerLive,
     Awaiting, vars
<1>4. QED
  BY <1>1, <1>2, <1>3

\* A run whose analysis began, and whose inner task is at its end, has the final
\* status.
Decided ==
    Orderly => \A r \in Runs :
        outer[r] = "waiting" /\ inner[r] \in {"record", "leave", "done"} /\ attempt[r] > 0
            => status \in Terminal

\* The status is written before the inner task leaves, and no claim follows.
LEMMA DecidedStep == TypeOK /\ OneAtATime /\ Staged /\ Attended /\ Decided /\ [Next]_vars => Decided'
<1>1. SUFFICES ASSUME TypeOK, OneAtATime, Staged, Attended, Decided, [Next]_vars PROVE Decided'
  OBVIOUS
<1>2. CASE Next
  <2>1. ASSUME NEW r \in Runs, ThreadMerge(r) PROVE Decided'
    BY <1>1, <2>1 DEF TypeOK, OneAtATime, Staged, Attended, Decided, Orderly, Busy,
       InnerLive, Awaiting, StartUp, Terminal, Active, ThreadMerge, Did, envVars
  <2>2. ASSUME NEW r \in Runs, ThreadLookup(r) PROVE Decided'
    BY <1>1, <2>2 DEF TypeOK, OneAtATime, Staged, Attended, Decided, Orderly, Busy,
       InnerLive, Awaiting, StartUp, Terminal, Active, ThreadLookup, Did, envVars
  <2>3. ASSUME NEW r \in Runs, ThreadDebit(r) PROVE Decided'
    BY <1>1, <2>3 DEF TypeOK, OneAtATime, Staged, Attended, Decided, Orderly, Busy,
       InnerLive, Awaiting, StartUp, Terminal, Active, ThreadDebit, Did, envVars
  <2>4. ASSUME NEW r \in Runs, ThreadRaises(r) PROVE Decided'
    BY <1>1, <2>4 DEF TypeOK, OneAtATime, Staged, Attended, Decided, Orderly, Busy,
       InnerLive, Awaiting, StartUp, Terminal, Active, ThreadRaises, Did, envVars
  <2>5. ASSUME NEW r \in Runs, ThreadInit(r) PROVE Decided'
    BY <1>1, <2>5 DEF TypeOK, OneAtATime, Staged, Attended, Decided, Orderly, Busy,
       InnerLive, Awaiting, StartUp, Terminal, Active, ThreadInit, Did, envVars
  <2>6. ASSUME NEW r \in Runs, ThreadSave(r) PROVE Decided'
    BY <1>1, <2>6 DEF TypeOK, OneAtATime, Staged, Attended, Decided, Orderly, Busy,
       InnerLive, Awaiting, StartUp, Terminal, Active, ThreadSave, Did, envVars
  <2>7. ASSUME NEW r \in Runs, ThreadRecord(r) PROVE Decided'
    BY <1>1, <2>7 DEF TypeOK, OneAtATime, Staged, Attended, Decided, Orderly, Busy,
       InnerLive, Awaiting, StartUp, Terminal, Active, ThreadRecord, Did, MarkReport,
       envVars
  <2>8. ASSUME NEW r \in Runs, Merged(r) PROVE Decided'
    BY <1>1, <2>8 DEF TypeOK, OneAtATime, Staged, Attended, Decided, Orderly, Busy,
       InnerLive, Awaiting, StartUp, Terminal, Active, Merged, Move, envVars
  <2>9. ASSUME NEW r \in Runs, Reserved(r) PROVE Decided'
    BY <1>1, <2>9 DEF TypeOK, OneAtATime, Staged, Attended, Decided, Orderly, Busy,
       InnerLive, Awaiting, StartUp, Terminal, Active, Reserved, Move, envVars
  <2>10. ASSUME NEW r \in Runs, Refused(r) PROVE Decided'
    BY <1>1, <2>10 DEF TypeOK, OneAtATime, Staged, Attended, Decided, Orderly, Busy,
       InnerLive, Awaiting, StartUp, Terminal, Active, Refused, Move, envVars
  <2>11. ASSUME NEW r \in Runs, Started(r) PROVE Decided'
    BY <1>1, <2>11 DEF TypeOK, OneAtATime, Staged, Attended, Decided, Orderly, Busy,
       InnerLive, Awaiting, StartUp, Terminal, Active, Started, Move, envVars
  <2>12. ASSUME NEW r \in Runs, SetupRaises(r) PROVE Decided'
    BY <1>1, <2>12 DEF TypeOK, OneAtATime, Staged, Attended, Decided, Orderly, Busy,
       InnerLive, Awaiting, StartUp, Terminal, Active, SetupRaises, Move, envVars
  <2>13. ASSUME NEW r \in Runs, AttemptYields(r) PROVE Decided'
    BY <1>1, <2>13 DEF TypeOK, OneAtATime, Staged, Attended, Decided, Orderly, Busy,
       InnerLive, Awaiting, StartUp, Terminal, Active, AttemptYields, Move, envVars
  <2>14. ASSUME NEW r \in Runs, AttemptFails(r) PROVE Decided'
    BY <1>1, <2>14 DEF TypeOK, OneAtATime, Staged, Attended, Decided, Orderly, Busy,
       InnerLive, Awaiting, StartUp, Terminal, Active, AttemptFails, GiveUp, Move,
       envVars
  <2>15. ASSUME NEW r \in Runs, Returns(r) PROVE Decided'
    BY <1>1, <2>15 DEF TypeOK, OneAtATime, Staged, Attended, Decided, Orderly, Busy,
       InnerLive, Awaiting, StartUp, Terminal, Active, Returns, Concludes, Outcome,
       Move, envVars
  <2>16. ASSUME NEW r \in Runs, AttemptsAgain(r) PROVE Decided'
    BY <1>1, <2>16 DEF TypeOK, OneAtATime, Staged, Attended, Decided, Orderly, Busy,
       InnerLive, Awaiting, StartUp, Terminal, Active, AttemptsAgain, Concludes,
       Outcome, Move, envVars
  <2>17. ASSUME NEW r \in Runs, Exhausts(r) PROVE Decided'
    BY <1>1, <2>17 DEF TypeOK, OneAtATime, Staged, Attended, Decided, Orderly, Busy,
       InnerLive, Awaiting, StartUp, Terminal, Active, Exhausts, Concludes, GiveUp,
       Outcome, Move, envVars
  <2>18. ASSUME NEW r \in Runs, Recorded(r) PROVE Decided'
    BY <1>1, <2>18 DEF TypeOK, OneAtATime, Staged, Attended, Decided, Orderly, Busy,
       InnerLive, Awaiting, StartUp, Terminal, Active, Recorded, Move, envVars
  <2>19. ASSUME NEW r \in Runs, Leaves(r) PROVE Decided'
    BY <1>1, <2>19 DEF TypeOK, OneAtATime, Staged, Attended, Decided, Orderly, Busy,
       InnerLive, Awaiting, StartUp, Terminal, Active, Leaves, envVars
  <2>20. ASSUME NEW r \in Runs, Finish(r) PROVE Decided'
    BY <1>1, <2>20 DEF TypeOK, OneAtATime, Staged, Attended, Decided, Orderly, Busy,
       InnerLive, Awaiting, StartUp, Terminal, Active, Finish, Settle, Ends, envVars
  <2>21. ASSUME NEW r \in Runs, Timeout(r) PROVE Decided'
    BY <1>1, <2>21 DEF TypeOK, OneAtATime, Staged, Attended, Decided, Orderly, Busy,
       InnerLive, Awaiting, StartUp, Terminal, Active, Timeout, Settle, Ends, envVars
  <2>22. ASSUME NEW r \in Runs, FirstStart(r) PROVE Decided'
    BY <1>1, <2>22, LaunchExcludes DEF TypeOK, OneAtATime, Staged, Attended, Decided,
       Orderly, Busy, InnerLive, Awaiting, StartUp, Terminal, Active, FirstStart,
       Launch, Move
  <2>23. ASSUME NEW r \in Runs, ResumeByUser(r) PROVE Decided'
    BY <1>1, <2>23, LaunchExcludes DEF TypeOK, OneAtATime, Staged, Attended, Decided,
       Orderly, Busy, InnerLive, Awaiting, StartUp, Terminal, Active, ResumeByUser,
       Claim, Launch, Move
  <2>24. ASSUME CancelInner PROVE Decided'
    BY <1>1, <2>24 DEF TypeOK, OneAtATime, Staged, Attended, Decided, Orderly, Busy,
       InnerLive, Awaiting, StartUp, Terminal, Active, CancelInner, Unnoted, envVars
  <2>25. ASSUME CancelFallback PROVE Decided'
    BY <1>1, <2>25 DEF TypeOK, OneAtATime, Staged, Attended, Decided, Orderly, Busy,
       InnerLive, Awaiting, StartUp, Terminal, Active, CancelFallback, envVars,
       runVars
  <2>26. ASSUME Crash PROVE Decided'
    BY <1>1, <2>26 DEF TypeOK, OneAtATime, Staged, Attended, Decided, Orderly, Busy,
       InnerLive, Awaiting, StartUp, Terminal, Active, Crash
  <2>27. ASSUME Boot PROVE Decided'
    BY <1>1, <2>27 DEF TypeOK, OneAtATime, Staged, Attended, Decided, Orderly, Busy,
       InnerLive, Awaiting, StartUp, Terminal, Active, Boot, runVars
  <2>28. ASSUME Reconcile PROVE Decided'
    BY <1>1, <2>28, LaunchExcludes DEF TypeOK, OneAtATime, Staged, Attended, Decided,
       Orderly, Busy, InnerLive, Awaiting, StartUp, Terminal, Active, Reconcile,
       Claim, Launch, Move
  <2>29. ASSUME LeaseLapse PROVE Decided'
    BY <1>1, <2>29 DEF TypeOK, OneAtATime, Staged, Attended, Decided, Orderly, Busy,
       InnerLive, Awaiting, StartUp, Terminal, Active, LeaseLapse, envVars, runVars
  <2>30. QED
    BY <1>2, <2>1, <2>2, <2>3, <2>4, <2>5, <2>6, <2>7, <2>8, <2>9, <2>10, <2>11,
       <2>12, <2>13, <2>14, <2>15, <2>16, <2>17, <2>18, <2>19, <2>20, <2>21, <2>22,
       <2>23, <2>24, <2>25, <2>26, <2>27, <2>28, <2>29 DEF Next, ThreadStep, InnerStep
<1>3. CASE UNCHANGED vars
  BY <1>1, <1>3 DEF TypeOK, OneAtATime, Staged, Attended, Decided, Orderly, Busy,
     InnerLive, Awaiting, StartUp, Terminal, Active, vars
<1>4. QED
  BY <1>1, <1>2, <1>3

\* While a job with a query is analysed, and while a resumed one starts up, its
\* status is not final; a run that was cancelled has not completed.
Open ==
    query /\ Orderly => \A r \in Runs :
        /\ inner[r] \in StartUp /\ (\E s \in Runs : attempt[s] > 0) => status \in Active
        /\ inner[r] \in {"analyse", "save"} => status \in Active
        /\ inner[r] = "unwind" \/ (outer[r] = "waiting" /\ inner[r] = "cancelled")
              => status # "completed"

\* A cancellation that finds a live inner task leaves the status to it.
LEMMA OpenStep == TypeOK /\ OneAtATime /\ ReportKept /\ Staged /\ Attended /\ Open /\ [Next]_vars => Open'
<1>1. SUFFICES ASSUME TypeOK, OneAtATime, ReportKept, Staged, Attended, Open, [Next]_vars PROVE Open'
  OBVIOUS
<1>2. CASE Next
  <2>1. ASSUME NEW r \in Runs, ThreadMerge(r) PROVE Open'
    BY <1>1, <2>1 DEF TypeOK, OneAtATime, ReportKept, Staged, Attended, Open, Orderly,
       Busy, InnerLive, Awaiting, Work, StartUp, Terminal, Active, ThreadMerge, Did,
       envVars
  <2>2. ASSUME NEW r \in Runs, ThreadLookup(r) PROVE Open'
    BY <1>1, <2>2 DEF TypeOK, OneAtATime, ReportKept, Staged, Attended, Open, Orderly,
       Busy, InnerLive, Awaiting, Work, StartUp, Terminal, Active, ThreadLookup, Did,
       envVars
  <2>3. ASSUME NEW r \in Runs, ThreadDebit(r) PROVE Open'
    BY <1>1, <2>3 DEF TypeOK, OneAtATime, ReportKept, Staged, Attended, Open, Orderly,
       Busy, InnerLive, Awaiting, Work, StartUp, Terminal, Active, ThreadDebit, Did,
       envVars
  <2>4. ASSUME NEW r \in Runs, ThreadRaises(r) PROVE Open'
    BY <1>1, <2>4 DEF TypeOK, OneAtATime, ReportKept, Staged, Attended, Open, Orderly,
       Busy, InnerLive, Awaiting, Work, StartUp, Terminal, Active, ThreadRaises, Did,
       envVars
  <2>5. ASSUME NEW r \in Runs, ThreadInit(r) PROVE Open'
    BY <1>1, <2>5 DEF TypeOK, OneAtATime, ReportKept, Staged, Attended, Open, Orderly,
       Busy, InnerLive, Awaiting, Work, StartUp, Terminal, Active, ThreadInit, Did,
       envVars
  <2>6. ASSUME NEW r \in Runs, ThreadSave(r) PROVE Open'
    BY <1>1, <2>6 DEF TypeOK, OneAtATime, ReportKept, Staged, Attended, Open, Orderly,
       Busy, InnerLive, Awaiting, Work, StartUp, Terminal, Active, ThreadSave, Did,
       envVars
  <2>7. ASSUME NEW r \in Runs, ThreadRecord(r) PROVE Open'
    BY <1>1, <2>7 DEF TypeOK, OneAtATime, ReportKept, Staged, Attended, Open, Orderly,
       Busy, InnerLive, Awaiting, Work, StartUp, Terminal, Active, ThreadRecord, Did,
       MarkReport, envVars
  <2>8. ASSUME NEW r \in Runs, Merged(r) PROVE Open'
    BY <1>1, <2>8 DEF TypeOK, OneAtATime, ReportKept, Staged, Attended, Open, Orderly,
       Busy, InnerLive, Awaiting, Work, StartUp, Terminal, Active, Merged, Move,
       envVars
  <2>9. ASSUME NEW r \in Runs, Reserved(r) PROVE Open'
    BY <1>1, <2>9 DEF TypeOK, OneAtATime, ReportKept, Staged, Attended, Open, Orderly,
       Busy, InnerLive, Awaiting, Work, StartUp, Terminal, Active, Reserved, Move,
       envVars
  <2>10. ASSUME NEW r \in Runs, Refused(r) PROVE Open'
    BY <1>1, <2>10 DEF TypeOK, OneAtATime, ReportKept, Staged, Attended, Open,
       Orderly, Busy, InnerLive, Awaiting, Work, StartUp, Terminal, Active, Refused,
       Move, envVars
  <2>11. ASSUME NEW r \in Runs, Started(r) PROVE Open'
    BY <1>1, <2>11 DEF TypeOK, OneAtATime, ReportKept, Staged, Attended, Open,
       Orderly, Busy, InnerLive, Awaiting, Work, StartUp, Terminal, Active, Started,
       Move, envVars
  <2>12. ASSUME NEW r \in Runs, SetupRaises(r) PROVE Open'
    BY <1>1, <2>12 DEF TypeOK, OneAtATime, ReportKept, Staged, Attended, Open,
       Orderly, Busy, InnerLive, Awaiting, Work, StartUp, Terminal, Active,
       SetupRaises, Move, envVars
  <2>13. ASSUME NEW r \in Runs, AttemptYields(r) PROVE Open'
    BY <1>1, <2>13 DEF TypeOK, OneAtATime, ReportKept, Staged, Attended, Open,
       Orderly, Busy, InnerLive, Awaiting, Work, StartUp, Terminal, Active,
       AttemptYields, Move, envVars
  <2>14. ASSUME NEW r \in Runs, AttemptFails(r) PROVE Open'
    BY <1>1, <2>14 DEF TypeOK, OneAtATime, ReportKept, Staged, Attended, Open,
       Orderly, Busy, InnerLive, Awaiting, Work, StartUp, Terminal, Active,
       AttemptFails, GiveUp, Move, envVars
  <2>15. ASSUME NEW r \in Runs, Returns(r) PROVE Open'
    BY <1>1, <2>15 DEF TypeOK, OneAtATime, ReportKept, Staged, Attended, Open,
       Orderly, Busy, InnerLive, Awaiting, Work, StartUp, Terminal, Active, Returns,
       Concludes, Outcome, Move, envVars
  <2>16. ASSUME NEW r \in Runs, AttemptsAgain(r) PROVE Open'
    BY <1>1, <2>16 DEF TypeOK, OneAtATime, ReportKept, Staged, Attended, Open,
       Orderly, Busy, InnerLive, Awaiting, Work, StartUp, Terminal, Active,
       AttemptsAgain, Concludes, Outcome, Move, envVars
  <2>17. ASSUME NEW r \in Runs, Exhausts(r) PROVE Open'
    BY <1>1, <2>17 DEF TypeOK, OneAtATime, ReportKept, Staged, Attended, Open,
       Orderly, Busy, InnerLive, Awaiting, Work, StartUp, Terminal, Active, Exhausts,
       Concludes, GiveUp, Outcome, Move, envVars
  <2>18. ASSUME NEW r \in Runs, Recorded(r) PROVE Open'
    BY <1>1, <2>18 DEF TypeOK, OneAtATime, ReportKept, Staged, Attended, Open,
       Orderly, Busy, InnerLive, Awaiting, Work, StartUp, Terminal, Active, Recorded,
       Move, envVars
  <2>19. ASSUME NEW r \in Runs, Leaves(r) PROVE Open'
    BY <1>1, <2>19 DEF TypeOK, OneAtATime, ReportKept, Staged, Attended, Open,
       Orderly, Busy, InnerLive, Awaiting, Work, StartUp, Terminal, Active, Leaves,
       envVars
  <2>20. ASSUME NEW r \in Runs, Finish(r) PROVE Open'
    BY <1>1, <2>20 DEF TypeOK, OneAtATime, ReportKept, Staged, Attended, Open,
       Orderly, Busy, InnerLive, Awaiting, Work, StartUp, Terminal, Active, Finish,
       Settle, Ends, envVars
  <2>21. ASSUME NEW r \in Runs, Timeout(r) PROVE Open'
    BY <1>1, <2>21 DEF TypeOK, OneAtATime, ReportKept, Staged, Attended, Open,
       Orderly, Busy, InnerLive, Awaiting, Work, StartUp, Terminal, Active, Timeout,
       Settle, Ends, envVars
  <2>22. ASSUME NEW r \in Runs, FirstStart(r) PROVE Open'
    BY <1>1, <2>22, LaunchExcludes DEF TypeOK, OneAtATime, ReportKept, Staged,
       Attended, Open, Orderly, Busy, InnerLive, Awaiting, Work, StartUp, Terminal,
       Active, FirstStart, Launch, Move
  <2>23. ASSUME NEW r \in Runs, ResumeByUser(r) PROVE Open'
    BY <1>1, <2>23, LaunchExcludes DEF TypeOK, OneAtATime, ReportKept, Staged,
       Attended, Open, Orderly, Busy, InnerLive, Awaiting, Work, StartUp, Terminal,
       Active, ResumeByUser, Claim, Launch, Move
  <2>24. ASSUME CancelInner PROVE Open'
    BY <1>1, <2>24 DEF TypeOK, OneAtATime, ReportKept, Staged, Attended, Open,
       Orderly, Busy, InnerLive, Awaiting, Work, StartUp, Terminal, Active,
       CancelInner, Unnoted, envVars
  <2>25. ASSUME CancelFallback PROVE Open'
    BY <1>1, <2>25, RunsAssumption DEF TypeOK, OneAtATime, ReportKept, Staged,
       Attended, Open, Orderly, Busy, InnerLive, Awaiting, Work, StartUp, Terminal,
       Active, CancelFallback, envVars, runVars
  <2>26. ASSUME Crash PROVE Open'
    BY <1>1, <2>26 DEF TypeOK, OneAtATime, ReportKept, Staged, Attended, Open,
       Orderly, Busy, InnerLive, Awaiting, Work, StartUp, Terminal, Active, Crash
  <2>27. ASSUME Boot PROVE Open'
    BY <1>1, <2>27 DEF TypeOK, OneAtATime, ReportKept, Staged, Attended, Open,
       Orderly, Busy, InnerLive, Awaiting, Work, StartUp, Terminal, Active, Boot,
       runVars
  <2>28. ASSUME Reconcile PROVE Open'
    BY <1>1, <2>28, LaunchExcludes DEF TypeOK, OneAtATime, ReportKept, Staged,
       Attended, Open, Orderly, Busy, InnerLive, Awaiting, Work, StartUp, Terminal,
       Active, Reconcile, Claim, Launch, Move
  <2>29. ASSUME LeaseLapse PROVE Open'
    BY <1>1, <2>29 DEF TypeOK, OneAtATime, ReportKept, Staged, Attended, Open,
       Orderly, Busy, InnerLive, Awaiting, Work, StartUp, Terminal, Active,
       LeaseLapse, envVars, runVars
  <2>30. QED
    BY <1>2, <2>1, <2>2, <2>3, <2>4, <2>5, <2>6, <2>7, <2>8, <2>9, <2>10, <2>11,
       <2>12, <2>13, <2>14, <2>15, <2>16, <2>17, <2>18, <2>19, <2>20, <2>21, <2>22,
       <2>23, <2>24, <2>25, <2>26, <2>27, <2>28, <2>29 DEF Next, ThreadStep, InnerStep
<1>3. CASE UNCHANGED vars
  BY <1>1, <1>3 DEF TypeOK, OneAtATime, ReportKept, Staged, Attended, Open, Orderly,
     Busy, InnerLive, Awaiting, Work, StartUp, Terminal, Active, vars
<1>4. QED
  BY <1>1, <1>2, <1>3

\* Until a run is over nothing is settled; afterwards the settlement is the one the
\* final status asks for, and no other run is under way.
Booked ==
    Orderly /\ crashes = 0 /\ Begun =>
        IF \E r \in Runs : outer[r] = "done"
        THEN /\ status \in Terminal
             /\ \A r \in Runs : outer[r] # "waiting"
             /\ ledger.commit > 0 => status = "completed" /\ ledger.commit = 1 /\ ledger.refund = 0
             /\ ledger.refund > 0 => status = "failed" /\ ledger.refund = 1 /\ ledger.commit = 0
        ELSE ledger.commit = 0 /\ ledger.refund = 0

\* A run settles once, with the final status, which no claim follows.
LEMMA BookedStep == TypeOK /\ OneAtATime /\ Staged /\ Attended /\ Decided /\ Booked /\ [Next]_vars => Booked'
<1>1. SUFFICES ASSUME TypeOK, OneAtATime, Staged, Attended, Decided, Booked, [Next]_vars PROVE Booked'
  OBVIOUS
<1>2. CASE Next
  <2>1. ASSUME NEW r \in Runs, ThreadMerge(r) PROVE Booked'
    BY <1>1, <2>1 DEF TypeOK, OneAtATime, Staged, Attended, Decided, Booked, Begun,
       Orderly, Busy, InnerLive, Awaiting, StartUp, Terminal, Active, ThreadMerge,
       Did, envVars
  <2>2. ASSUME NEW r \in Runs, ThreadLookup(r) PROVE Booked'
    BY <1>1, <2>2 DEF TypeOK, OneAtATime, Staged, Attended, Decided, Booked, Begun,
       Orderly, Busy, InnerLive, Awaiting, StartUp, Terminal, Active, ThreadLookup,
       Did, envVars
  <2>3. ASSUME NEW r \in Runs, ThreadDebit(r) PROVE Booked'
    BY <1>1, <2>3 DEF TypeOK, OneAtATime, Staged, Attended, Decided, Booked, Begun,
       Orderly, Busy, InnerLive, Awaiting, StartUp, Terminal, Active, ThreadDebit,
       Did, envVars
  <2>4. ASSUME NEW r \in Runs, ThreadRaises(r) PROVE Booked'
    BY <1>1, <2>4 DEF TypeOK, OneAtATime, Staged, Attended, Decided, Booked, Begun,
       Orderly, Busy, InnerLive, Awaiting, StartUp, Terminal, Active, ThreadRaises,
       Did, envVars
  <2>5. ASSUME NEW r \in Runs, ThreadInit(r) PROVE Booked'
    BY <1>1, <2>5 DEF TypeOK, OneAtATime, Staged, Attended, Decided, Booked, Begun,
       Orderly, Busy, InnerLive, Awaiting, StartUp, Terminal, Active, ThreadInit, Did,
       envVars
  <2>6. ASSUME NEW r \in Runs, ThreadSave(r) PROVE Booked'
    BY <1>1, <2>6 DEF TypeOK, OneAtATime, Staged, Attended, Decided, Booked, Begun,
       Orderly, Busy, InnerLive, Awaiting, StartUp, Terminal, Active, ThreadSave, Did,
       envVars
  <2>7. ASSUME NEW r \in Runs, ThreadRecord(r) PROVE Booked'
    BY <1>1, <2>7 DEF TypeOK, OneAtATime, Staged, Attended, Decided, Booked, Begun,
       Orderly, Busy, InnerLive, Awaiting, StartUp, Terminal, Active, ThreadRecord,
       Did, MarkReport, envVars
  <2>8. ASSUME NEW r \in Runs, Merged(r) PROVE Booked'
    BY <1>1, <2>8 DEF TypeOK, OneAtATime, Staged, Attended, Decided, Booked, Begun,
       Orderly, Busy, InnerLive, Awaiting, StartUp, Terminal, Active, Merged, Move,
       envVars
  <2>9. ASSUME NEW r \in Runs, Reserved(r) PROVE Booked'
    BY <1>1, <2>9 DEF TypeOK, OneAtATime, Staged, Attended, Decided, Booked, Begun,
       Orderly, Busy, InnerLive, Awaiting, StartUp, Terminal, Active, Reserved, Move,
       envVars
  <2>10. ASSUME NEW r \in Runs, Refused(r) PROVE Booked'
    BY <1>1, <2>10 DEF TypeOK, OneAtATime, Staged, Attended, Decided, Booked, Begun,
       Orderly, Busy, InnerLive, Awaiting, StartUp, Terminal, Active, Refused, Move,
       envVars
  <2>11. ASSUME NEW r \in Runs, Started(r) PROVE Booked'
    BY <1>1, <2>11 DEF TypeOK, OneAtATime, Staged, Attended, Decided, Booked, Begun,
       Orderly, Busy, InnerLive, Awaiting, StartUp, Terminal, Active, Started, Move,
       envVars
  <2>12. ASSUME NEW r \in Runs, SetupRaises(r) PROVE Booked'
    BY <1>1, <2>12 DEF TypeOK, OneAtATime, Staged, Attended, Decided, Booked, Begun,
       Orderly, Busy, InnerLive, Awaiting, StartUp, Terminal, Active, SetupRaises,
       Move, envVars
  <2>13. ASSUME NEW r \in Runs, AttemptYields(r) PROVE Booked'
    BY <1>1, <2>13 DEF TypeOK, OneAtATime, Staged, Attended, Decided, Booked, Begun,
       Orderly, Busy, InnerLive, Awaiting, StartUp, Terminal, Active, AttemptYields,
       Move, envVars
  <2>14. ASSUME NEW r \in Runs, AttemptFails(r) PROVE Booked'
    BY <1>1, <2>14 DEF TypeOK, OneAtATime, Staged, Attended, Decided, Booked, Begun,
       Orderly, Busy, InnerLive, Awaiting, StartUp, Terminal, Active, AttemptFails,
       GiveUp, Move, envVars
  <2>15. ASSUME NEW r \in Runs, Returns(r) PROVE Booked'
    BY <1>1, <2>15 DEF TypeOK, OneAtATime, Staged, Attended, Decided, Booked, Begun,
       Orderly, Busy, InnerLive, Awaiting, StartUp, Terminal, Active, Returns,
       Concludes, Outcome, Move, envVars
  <2>16. ASSUME NEW r \in Runs, AttemptsAgain(r) PROVE Booked'
    BY <1>1, <2>16 DEF TypeOK, OneAtATime, Staged, Attended, Decided, Booked, Begun,
       Orderly, Busy, InnerLive, Awaiting, StartUp, Terminal, Active, AttemptsAgain,
       Concludes, Outcome, Move, envVars
  <2>17. ASSUME NEW r \in Runs, Exhausts(r) PROVE Booked'
    BY <1>1, <2>17 DEF TypeOK, OneAtATime, Staged, Attended, Decided, Booked, Begun,
       Orderly, Busy, InnerLive, Awaiting, StartUp, Terminal, Active, Exhausts,
       Concludes, GiveUp, Outcome, Move, envVars
  <2>18. ASSUME NEW r \in Runs, Recorded(r) PROVE Booked'
    BY <1>1, <2>18 DEF TypeOK, OneAtATime, Staged, Attended, Decided, Booked, Begun,
       Orderly, Busy, InnerLive, Awaiting, StartUp, Terminal, Active, Recorded, Move,
       envVars
  <2>19. ASSUME NEW r \in Runs, Leaves(r) PROVE Booked'
    BY <1>1, <2>19 DEF TypeOK, OneAtATime, Staged, Attended, Decided, Booked, Begun,
       Orderly, Busy, InnerLive, Awaiting, StartUp, Terminal, Active, Leaves, envVars
  <2>20. ASSUME NEW r \in Runs, Finish(r) PROVE Booked'
    BY <1>1, <2>20 DEF TypeOK, OneAtATime, Staged, Attended, Decided, Booked, Begun,
       Orderly, Busy, InnerLive, Awaiting, StartUp, Terminal, Active, Finish, Settle,
       Ends, envVars
  <2>21. ASSUME NEW r \in Runs, Timeout(r) PROVE Booked'
    BY <1>1, <2>21 DEF TypeOK, OneAtATime, Staged, Attended, Decided, Booked, Begun,
       Orderly, Busy, InnerLive, Awaiting, StartUp, Terminal, Active, Timeout, Settle,
       Ends, envVars
  <2>22. ASSUME NEW r \in Runs, FirstStart(r) PROVE Booked'
    BY <1>1, <2>22, LaunchExcludes DEF TypeOK, OneAtATime, Staged, Attended, Decided,
       Booked, Begun, Orderly, Busy, InnerLive, Awaiting, StartUp, Terminal, Active,
       FirstStart, Launch, Move
  <2>23. ASSUME NEW r \in Runs, ResumeByUser(r) PROVE Booked'
    BY <1>1, <2>23, LaunchExcludes DEF TypeOK, OneAtATime, Staged, Attended, Decided,
       Booked, Begun, Orderly, Busy, InnerLive, Awaiting, StartUp, Terminal, Active,
       ResumeByUser, Claim, Launch, Move
  <2>24. ASSUME CancelInner PROVE Booked'
    BY <1>1, <2>24 DEF TypeOK, OneAtATime, Staged, Attended, Decided, Booked, Begun,
       Orderly, Busy, InnerLive, Awaiting, StartUp, Terminal, Active, CancelInner,
       Unnoted, envVars
  <2>25. ASSUME CancelFallback PROVE Booked'
    BY <1>1, <2>25 DEF TypeOK, OneAtATime, Staged, Attended, Decided, Booked, Begun,
       Orderly, Busy, InnerLive, Awaiting, StartUp, Terminal, Active, CancelFallback,
       envVars, runVars
  <2>26. ASSUME Crash PROVE Booked'
    BY <1>1, <2>26 DEF TypeOK, OneAtATime, Staged, Attended, Decided, Booked, Begun,
       Orderly, Busy, InnerLive, Awaiting, StartUp, Terminal, Active, Crash
  <2>27. ASSUME Boot PROVE Booked'
    BY <1>1, <2>27 DEF TypeOK, OneAtATime, Staged, Attended, Decided, Booked, Begun,
       Orderly, Busy, InnerLive, Awaiting, StartUp, Terminal, Active, Boot, runVars
  <2>28. ASSUME Reconcile PROVE Booked'
    BY <1>1, <2>28, LaunchExcludes DEF TypeOK, OneAtATime, Staged, Attended, Decided,
       Booked, Begun, Orderly, Busy, InnerLive, Awaiting, StartUp, Terminal, Active,
       Reconcile, Claim, Launch, Move
  <2>29. ASSUME LeaseLapse PROVE Booked'
    BY <1>1, <2>29 DEF TypeOK, OneAtATime, Staged, Attended, Decided, Booked, Begun,
       Orderly, Busy, InnerLive, Awaiting, StartUp, Terminal, Active, LeaseLapse,
       envVars, runVars
  <2>30. QED
    BY <1>2, <2>1, <2>2, <2>3, <2>4, <2>5, <2>6, <2>7, <2>8, <2>9, <2>10, <2>11,
       <2>12, <2>13, <2>14, <2>15, <2>16, <2>17, <2>18, <2>19, <2>20, <2>21, <2>22,
       <2>23, <2>24, <2>25, <2>26, <2>27, <2>28, <2>29 DEF Next, ThreadStep, InnerStep
<1>3. CASE UNCHANGED vars
  BY <1>1, <1>3 DEF TypeOK, OneAtATime, Staged, Attended, Decided, Booked, Begun,
     Orderly, Busy, InnerLive, Awaiting, StartUp, Terminal, Active, vars
<1>4. QED
  BY <1>1, <1>2, <1>3


-----------------------------------------------------------------------------
(* The theorems.                                                           *)

\* The inductive invariant: the types, who is busy, and the facts above about
\* the debit, the report, the settlement and the outcome.
IInv ==
    /\ TypeOK /\ OneAtATime
    /\ CleanDebit /\ ReportKept
    /\ Noted /\ Pursued
    /\ Staged /\ Attended /\ Decided /\ Open /\ Booked

\* A job starts out pending, without run, report or transaction.
LEMMA InitIInv == Init => IInv
<1>1. Init => TypeOK
  <2>1. SUFFICES ASSUME Init PROVE TypeOK
    OBVIOUS
  <2>2. /\ ledger \in [reserve: Nat, commit: Nat, refund: Nat]
        /\ attempt \in [Runs -> 0 .. MaxAttempts]
    BY <2>1, LimitsAssumption DEF Init
  <2>3. /\ query \in BOOLEAN /\ leased \in BOOLEAN /\ flag \in BOOLEAN
        /\ first \in BOOLEAN /\ unbooked \in BOOLEAN /\ overlap \in BOOLEAN
    BY <2>1, Zenon DEF Init
  <2>4. QED
    BY <2>1, <2>2, <2>3 DEF Init, TypeOK, Awaiting, Active, Terminal
<1>5. Init => OneAtATime
  BY DEF Init, OneAtATime, Busy, InnerLive, Awaiting, Work
<1>2. Init => CleanDebit /\ ReportKept
  BY DEF Init, CleanDebit, ReportKept, Orderly, Work
<1>3. Init => Noted /\ Pursued
  BY DEF Init, Noted, Pursued
<1>6. Init => Staged /\ Attended /\ Decided /\ Open /\ Booked
  BY DEF Init, Staged, Attended, Decided, Open, Booked, Orderly, InnerLive, Awaiting, StartUp
<1>4. QED
  BY <1>1, <1>5, <1>2, <1>3, <1>6 DEF IInv

\* Every step of every task, thread and request preserves it.
LEMMA IInvStep == IInv /\ [Next]_vars => IInv'
<1>1. SUFFICES ASSUME IInv, [Next]_vars PROVE IInv'
  OBVIOUS
<1>2. /\ TypeOK /\ OneAtATime /\ CleanDebit /\ ReportKept /\ Noted /\ Pursued
      /\ Staged /\ Attended /\ Decided /\ Open /\ Booked
  BY <1>1 DEF IInv
<1>3. TypeOK' /\ OneAtATime'
  BY <1>1, <1>2, TypeStep, OneAtATimeStep
<1>4. CleanDebit' /\ ReportKept'
  BY <1>1, <1>2, CleanDebitStep, ReportKeptStep
<1>5. Noted' /\ Pursued'
  BY <1>1, <1>2, NotedStep, PursuedStep
<1>6. Staged' /\ Attended' /\ Decided'
  BY <1>1, <1>2, StagedStep, AttendedStep, DecidedStep
<1>7. Open' /\ Booked'
  BY <1>1, <1>2, OpenStep, BookedStep
<1>8. QED
  BY <1>3, <1>4, <1>5, <1>6, <1>7 DEF IInv

\* The inductive invariant holds in every reachable state.
THEOREM Invariance == Spec => []IInv
BY InitIInv, IInvStep, PTL DEF Spec

\* Every variable keeps its type, whatever is cancelled, resumed or crashes: in
\* particular no run makes more than MaxAttempts attempts.
THEOREM TypeCorrect == Spec => []TypeOK
<1>1. IInv => TypeOK
  BY DEF IInv
<1>2. QED
  BY <1>1, Invariance, PTL

\* The credits of a job are debited once, however often it is resumed, as long
\* as its runs do not overlap.
THEOREM DebitsOnce == Spec => []DebitedOnce
<1>1. IInv => DebitedOnce
  BY DEF IInv, CleanDebit, DebitedOnce
<1>2. QED
  BY <1>1, Invariance, PTL

\* A completed job has its report, whatever thread a cancellation left behind.
THEOREM CompletedReported == Spec => []CompletedHasReport
<1>1. IInv => CompletedHasReport
  BY DEF IInv, ReportKept, CompletedHasReport
<1>2. QED
  BY <1>1, Invariance, PTL

\* Without a crash no reservation that was noted is forgotten, even when runs
\* time out or overlap.
THEOREM NoneIsForgotten == Spec => []NoneForgotten
<1>1. IInv => NoneForgotten
  BY DEF IInv, Pursued, Reserving, NoneForgotten, Settled, Quiet
<1>2. QED
  BY <1>1, Invariance, PTL

\* When nothing is under way any more, a job that reserved credits was charged once
\* if it completed and refunded once otherwise, under the conditions the invariant
\* names.
THEOREM ChargesMatch == Spec => []ChargeMatchesOutcome
<1>1. IInv => NoneForgotten
  BY DEF IInv, Pursued, Reserving, NoneForgotten, Settled, Quiet
<1>2. IInv => ChargeMatchesOutcome
  <2>1. SUFFICES ASSUME IInv, Settled, Orderly, Begun
                 PROVE  IF status = "completed" THEN ledger.commit = 1 /\ ledger.refund = 0
                                                ELSE ledger.commit = 0 /\ ledger.refund = 1
    BY DEF ChargeMatchesOutcome
  <2>2. ledger.commit \in Nat /\ ledger.refund \in Nat
    BY <2>1 DEF IInv, TypeOK
  <2>3. ledger.commit + ledger.refund > 0
    BY <2>1, <1>1 DEF NoneForgotten
  <2>4. QED
    BY <2>1, <2>2, <2>3 DEF IInv, Booked, Settled
<1>3. QED
  BY <1>2, Invariance, PTL

\* A final status of a job with a query that was analysed is left alone, as long as
\* no run timed out or overlapped another one.
Final ==
    query /\ Orderly' /\ status \in Terminal /\ (\E r \in Runs : attempt[r] > 0)
        => status' = status

\* Whoever writes a status finds one that is not final, writes the same one, or
\* starts a job that was not analysed.
LEMMA FinalStep == IInv /\ [Next]_vars => Final
<1>1. SUFFICES ASSUME IInv, [Next]_vars PROVE Final
  OBVIOUS
<1>0. TypeOK /\ OneAtATime /\ ReportKept /\ Staged /\ Attended /\ Open
  BY <1>1 DEF IInv
<1>2. CASE Next
  <2>1. ASSUME NEW r \in Runs, ThreadMerge(r) PROVE Final
    BY <1>0, <2>1 DEF Final, ThreadMerge, envVars
  <2>2. ASSUME NEW r \in Runs, ThreadLookup(r) PROVE Final
    BY <1>0, <2>2 DEF Final, ThreadLookup, envVars
  <2>3. ASSUME NEW r \in Runs, ThreadDebit(r) PROVE Final
    BY <1>0, <2>3 DEF Final, ThreadDebit, envVars
  <2>4. ASSUME NEW r \in Runs, ThreadRaises(r) PROVE Final
    BY <1>0, <2>4 DEF Final, ThreadRaises, envVars
  <2>5. ASSUME NEW r \in Runs, ThreadInit(r) PROVE Final
    BY <1>0, <2>5 DEF Final, ThreadInit, envVars
  <2>6. ASSUME NEW r \in Runs, ThreadSave(r) PROVE Final
    BY <1>0, <2>6 DEF Final, ThreadSave, envVars
  <2>7. ASSUME NEW r \in Runs, ThreadRecord(r) PROVE Final
    BY <1>0, <2>7 DEF Final, ThreadRecord, envVars
  <2>8. ASSUME NEW r \in Runs, Merged(r) PROVE Final
    BY <1>0, <2>8 DEF Final, Merged, envVars
  <2>9. ASSUME NEW r \in Runs, Reserved(r) PROVE Final
    BY <1>0, <2>9 DEF Final, Reserved, envVars
  <2>10. ASSUME NEW r \in Runs, Refused(r) PROVE Final
    BY <1>0, <2>10 DEF Final, TypeOK, Open, Attended, ReportKept, Orderly, InnerLive,
       Awaiting, StartUp, Terminal, Active, Refused, Move, envVars
  <2>11. ASSUME NEW r \in Runs, Started(r) PROVE Final
    BY <1>0, <2>11 DEF Final, TypeOK, Open, Attended, ReportKept, Orderly, InnerLive,
       Awaiting, StartUp, Terminal, Active, Started, Move, envVars
  <2>12. ASSUME NEW r \in Runs, SetupRaises(r) PROVE Final
    BY <1>0, <2>12 DEF Final, SetupRaises, envVars
  <2>13. ASSUME NEW r \in Runs, AttemptYields(r) PROVE Final
    BY <1>0, <2>13 DEF Final, AttemptYields, envVars
  <2>14. ASSUME NEW r \in Runs, AttemptFails(r) PROVE Final
    BY <1>0, <2>14 DEF Final, TypeOK, Open, Attended, ReportKept, Orderly, InnerLive,
       Awaiting, StartUp, Terminal, Active, AttemptFails, GiveUp, Move, envVars
  <2>15. ASSUME NEW r \in Runs, Returns(r) PROVE Final
    BY <1>0, <2>15 DEF Final, TypeOK, Open, Attended, ReportKept, Orderly, InnerLive,
       Awaiting, StartUp, Terminal, Active, Returns, Concludes, Outcome, Move, envVars
  <2>16. ASSUME NEW r \in Runs, AttemptsAgain(r) PROVE Final
    BY <1>0, <2>16 DEF Final, TypeOK, Open, Attended, ReportKept, Orderly, InnerLive,
       Awaiting, StartUp, Terminal, Active, AttemptsAgain, Concludes, Outcome, Move,
       envVars
  <2>17. ASSUME NEW r \in Runs, Exhausts(r) PROVE Final
    BY <1>0, <2>17 DEF Final, TypeOK, Open, Attended, ReportKept, Orderly, InnerLive,
       Awaiting, StartUp, Terminal, Active, Exhausts, Concludes, GiveUp, Outcome,
       Move, envVars
  <2>18. ASSUME NEW r \in Runs, Recorded(r) PROVE Final
    BY <1>0, <2>18 DEF Final, Recorded, envVars
  <2>19. ASSUME NEW r \in Runs, Leaves(r) PROVE Final
    BY <1>0, <2>19 DEF Final, Leaves, envVars
  <2>20. ASSUME NEW r \in Runs, Finish(r) PROVE Final
    BY <1>0, <2>20 DEF Final, TypeOK, Open, Attended, ReportKept, Orderly, InnerLive,
       Awaiting, StartUp, Terminal, Active, Finish, Settle, Ends, envVars
  <2>21. ASSUME NEW r \in Runs, Timeout(r) PROVE Final
    BY <1>0, <2>21 DEF TypeOK, Final, Orderly, Timeout, Ends
  <2>22. ASSUME NEW r \in Runs, FirstStart(r) PROVE Final
    BY <1>0, <2>22 DEF Final, FirstStart
  <2>23. ASSUME NEW r \in Runs, ResumeByUser(r) PROVE Final
    BY <1>0, <2>23 DEF Final, Claim, Active, Terminal, ResumeByUser
  <2>24. ASSUME CancelInner PROVE Final
    BY <1>0, <2>24 DEF Final, CancelInner, envVars
  <2>25. ASSUME CancelFallback PROVE Final
    BY <1>0, <2>25 DEF Final, Claim, Active, Terminal, CancelFallback
  <2>26. ASSUME Crash PROVE Final
    BY <1>0, <2>26 DEF Final, Crash, envVars
  <2>27. ASSUME Boot PROVE Final
    BY <1>0, <2>27 DEF Final, Boot, envVars
  <2>28. ASSUME Reconcile PROVE Final
    BY <1>0, <2>28 DEF Final, Claim, Active, Terminal, Reconcile
  <2>29. ASSUME LeaseLapse PROVE Final
    BY <1>0, <2>29 DEF Final, LeaseLapse, envVars
  <2>30. QED
    BY <1>2, <2>1, <2>2, <2>3, <2>4, <2>5, <2>6, <2>7, <2>8, <2>9, <2>10, <2>11,
       <2>12, <2>13, <2>14, <2>15, <2>16, <2>17, <2>18, <2>19, <2>20, <2>21, <2>22,
       <2>23, <2>24, <2>25, <2>26, <2>27, <2>28, <2>29 DEF Next, ThreadStep, InnerStep
<1>3. CASE UNCHANGED vars
  BY <1>1, <1>3 DEF Final, vars
<1>4. QED
  BY <1>1, <1>2, <1>3


\* Once a job with a query has its final status and was analysed, nothing changes
\* that status: no later step of a run or thread, cancellation, crash or restart.
THEOREM OutcomeIsFinal == Spec => OutcomeFinal
<1>1. IInv /\ [Next]_vars => [Final]_vars
  BY FinalStep
<1>2. QED
  BY <1>1, Invariance, PTL DEF Spec, OutcomeFinal, Final
=============================================================================
