----------------------------- MODULE MCServices -----------------------------
(***************************************************************************)
(* The services around a job, checked side by side: the event stream, fast *)
(* runs, the credits ledger, the lease, the shared data pools, the data    *)
(* sources, the QLIB bridge and orders.  They share no variable; a         *)
(* behaviour follows one of them, the others rest.                         *)
(***************************************************************************)
EXTENDS JobEvents, FastRun, Credits, JobLease, JobShared, DataSources, QlibBridge,
        Orders

VARIABLE service

\* The amounts an administrator grants or takes back.
GrantedAmounts == {3, -2}
VendorChain == <<"cn_tushare", "cn_akshare", "cn_stub">>
OneKey == [j \in SharedJobs |-> CHOOSE k \in PoolKeys : TRUE]

Init ==
    /\ service \in {"events", "fast", "credits", "lease", "shared", "sources", "bridge", "orders"}
    /\ EventsInit /\ FastInit /\ CreditsInit /\ LeaseInit /\ SharedInit /\ SourcesInit /\ QlibInit
    /\ OrdersInit
    /\ service # "events" => ~rowLocks /\ ~redis
    /\ service # "lease" => live[CHOOSE p \in Processes : TRUE] = 1
    /\ service # "sources" => scheduledWork = {}

jobVars == <<eventVars, fastVars, creditVars, leaseVars, sharedVars>>
otherVars == <<sourceVars, qlibVars, orderVars>>

Next ==
    /\ UNCHANGED service
    /\ \/ service = "events" /\ EventsNext
          /\ UNCHANGED <<fastVars, creditVars, leaseVars, sharedVars, otherVars>>
       \/ service = "fast" /\ FastNext
          /\ UNCHANGED <<eventVars, creditVars, leaseVars, sharedVars, otherVars>>
       \/ service = "credits" /\ CreditsNext
          /\ UNCHANGED <<eventVars, fastVars, leaseVars, sharedVars, otherVars>>
       \/ service = "lease" /\ LeaseNext
          /\ UNCHANGED <<eventVars, fastVars, creditVars, sharedVars, otherVars>>
       \/ service = "shared" /\ SharedNext
          /\ UNCHANGED <<eventVars, fastVars, creditVars, leaseVars, otherVars>>
       \/ service = "sources" /\ SourcesNext
          /\ UNCHANGED <<jobVars, qlibVars, orderVars>>
       \/ service = "bridge" /\ QlibNext
          /\ UNCHANGED <<jobVars, sourceVars, orderVars>>
       \/ service = "orders" /\ OrdersNext
          /\ UNCHANGED <<jobVars, sourceVars, qlibVars>>

Spec == Init /\ [][Next]_<<service, jobVars, otherVars>>

\* The type of every variable of the eight services.
ServicesTypeOK ==
    /\ EventsTypeOK /\ FastTypeOK /\ CreditsTypeOK /\ LeaseTypeOK
    /\ SharedTypeOK /\ SourcesTypeOK /\ QlibTypeOK /\ OrdersTypeOK
=============================================================================
