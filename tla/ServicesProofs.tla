--------------------------- MODULE ServicesProofs ---------------------------
(***************************************************************************)
(* What the services around a job promise, for any number of jobs,         *)
(* processes, threads, workers and requests: the books of an order agree,  *)
(* a job has one runner, the data pools stay and go with their jobs, the   *)
(* ledger of credits adds up, a fast run tells one story, and what is      *)
(* imported from QLIB is whole.  Each section has the inductive invariant  *)
(* of one service; the last one puts the services side by side.            *)
(***************************************************************************)
EXTENDS MCServices, JobEventsProofs, DataSourcesProofs, FiniteSetTheorems, WellFoundedInduction, TLAPS

-----------------------------------------------------------------------------
(* Orders.                                                                 *)

\* A request between its reading and its commit has read a row that its route
\* allows, and refunds no more than that row has left.
RequestSound(t) ==
    /\ request[t].at # "idle" => request[t].about \in OrderIds
    /\ request[t].at = "read" => request[t].route \in {"confirm", "refund"}
    /\ request[t].at = "commit" =>
           \/ /\ request[t].route = "confirm" /\ request[t].read.status = "pending"
           \/ /\ request[t].route = "refund"
              /\ request[t].read.status \in {"paid", "partially_refunded"}
              /\ request[t].cents \in 1..(OrderAmount - request[t].read.refunded)

Books(row, ev) ==
    /\ ev.refunded = row.refunded
    /\ ev.confirmed = (IF row.status \in {"none", "pending"} THEN 0 ELSE 1)
    /\ row.status = "refunded" <=> row.refunded = OrderAmount
    /\ row.status = "partially_refunded" <=> row.refunded \in 1..(OrderAmount - 1)

OrdersInv ==
    /\ OrdersTypeOK
    /\ \A t \in Requests : RequestSound(t)
    /\ \A o \in OrderIds \ clashed : Books(order[o], events[o])

\* A refund that fits keeps the books.
LEMMA RefundFits ==
    ASSUME NEW row \in OrderRows, NEW ev \in [confirmed : Nat, refunded : Nat], NEW cents \in Nat,
           cents \in 1..(OrderAmount - row.refunded), Books(row, ev),
           row.status \in {"paid", "partially_refunded"}
    PROVE  /\ Refunded(row, cents) \in OrderRows
           /\ Books(Refunded(row, cents), [ev EXCEPT !.refunded = @ + cents])
  BY OrdersAssumption, SMT DEF Refunded, OrderRows, Books

\* A refund that fits is a row.
LEMMA RefundTyped ==
    ASSUME NEW row \in OrderRows, NEW cents \in 1..(OrderAmount - row.refunded)
    PROVE  Refunded(row, cents) \in OrderRows
  BY OrdersAssumption, SMT DEF Refunded, OrderRows

\* An update of a row leaves a row, and the one computed if nobody else wrote it.
LEMMA UpdateWrites ==
    ASSUME NEW row \in OrderRows, NEW read \in OrderRows, NEW new \in OrderRows
    PROVE  Written(row, read, new) \in OrderRows /\ (row = read => Written(row, read, new) = new)
  BY DEF Written, OrderRows

\* At first there is no order, and no request.
LEMMA OrdersInitInv == OrdersInit => OrdersInv
  BY OrdersAssumption DEF OrdersInit, OrdersInv, OrdersTypeOK, OrderRows, NoRequest, RequestSound, Books

\* Every step keeps the books.
LEMMA OrdersStepInv == OrdersInv /\ [OrdersNext]_orderVars => OrdersInv'
<1> SUFFICES ASSUME OrdersInv, [OrdersNext]_orderVars PROVE OrdersInv'
  OBVIOUS
<1> USE OrdersAssumption
<1> DEFINE ReqType == [at : {"idle", "read", "commit", "store"}, route : {"none", "confirm", "refund"},
                       about : OrderIds \cup {"none"}, key : IdempotencyKeys \cup {"none"},
                       cents : 0..OrderAmount, read : OrderRows]
<1>0. /\ order \in [OrderIds -> OrderRows] /\ events \in [OrderIds -> [confirmed : Nat, refunded : Nat]]
      /\ request \in [Requests -> ReqType] /\ begun \in 0..MaxRequests /\ clashed \subseteq OrderIds
      /\ \A t \in Requests : RequestSound(t)
      /\ \A o \in OrderIds \ clashed : Books(order[o], events[o])
  BY DEF OrdersInv, OrdersTypeOK
<1>n. NoRequest \in ReqType
  BY DEF NoRequest, OrderRows
<1>1. ASSUME NEW o \in OrderIds, create_order_placeholder(o) PROVE OrdersInv'
  <2>1. order' = [order EXCEPT ![o].status = "pending"] /\ order[o].status = "none"
        /\ UNCHANGED <<events, request, begun, clashed>>
    BY <1>1 DEF create_order_placeholder
  <2>2. order' \in [OrderIds -> OrderRows]
    BY <1>0, <2>1 DEF OrderRows
  <2>3. \A p \in OrderIds \ clashed : Books(order'[p], events[p])
    BY <1>0, <2>1, SMT DEF Books, OrderRows
  <2> QED
    BY <1>0, <2>1, <2>2, <2>3 DEF OrdersInv, OrdersTypeOK, RequestSound
<1>2. ASSUME NEW t \in Requests, BeginRequest(t) PROVE OrdersInv'
  <2>1. PICK route \in {"confirm", "refund"}, o \in OrderIds, k \in IdempotencyKeys,
             cents \in 0..OrderAmount :
          request' = [request EXCEPT ![t] =
              [NoRequest EXCEPT !.at = "read", !.route = route, !.about = o, !.key = k,
                                !.cents = cents]]
    BY <1>2 DEF BeginRequest
  <2>2. begun' \in 0..MaxRequests /\ UNCHANGED <<order, events, clashed>>
    BY <1>0, <1>2 DEF BeginRequest
  <2>3. [NoRequest EXCEPT !.at = "read", !.route = route, !.about = o, !.key = k, !.cents = cents]
          \in ReqType
    BY <1>n DEF NoRequest
  <2>4. request' \in [Requests -> ReqType]
    BY <1>0, <2>1, <2>3
  <2>5. \A s \in Requests : RequestSound(s)'
    BY <1>0, <2>1 DEF RequestSound, NoRequest
  <2> QED
    BY <1>0, <2>2, <2>4, <2>5 DEF OrdersInv, OrdersTypeOK
<1>3. ASSUME NEW t \in Requests, request' = [request EXCEPT ![t] = NoRequest]
      PROVE  request' \in [Requests -> ReqType] /\ \A s \in Requests : RequestSound(s)'
  BY <1>0, <1>n, <1>3 DEF RequestSound, NoRequest
<1>4. ASSUME NEW t \in Requests, ReadOrder(t) PROVE OrdersInv'
  <2>1. UNCHANGED <<order, events, begun, clashed>> /\ request[t].at = "read"
    BY <1>4 DEF ReadOrder
  <2> DEFINE q == request[t]
             row == order[q.about]
             asked == IF q.cents = 0 THEN OrderAmount - row.refunded ELSE q.cents
  <2>2. row \in OrderRows /\ q \in ReqType /\ q.about \in OrderIds
    BY <1>0, <2>1 DEF RequestSound
  <2>3. \/ /\ q.route = "confirm" /\ row.status = "pending"
           /\ request' = [request EXCEPT ![t].at = "commit", ![t].read = row]
        \/ request' = [request EXCEPT ![t].at = "store"]
        \/ /\ q.route = "refund" /\ row.status \in {"paid", "partially_refunded"}
           /\ asked \in 1..(OrderAmount - row.refunded)
           /\ request' = [request EXCEPT ![t].at = "commit", ![t].read = row, ![t].cents = asked]
        \/ request' = [request EXCEPT ![t] = NoRequest]
    BY <1>4 DEF ReadOrder, EndRequest
  <2>4. asked \in 1..(OrderAmount - row.refunded) => asked \in 0..OrderAmount
    BY <2>2, SMT DEF OrderRows
  <2>5. request' \in [Requests -> ReqType] /\ \A s \in Requests : RequestSound(s)'
    <3>1. CASE q.route = "confirm" /\ row.status = "pending"
               /\ request' = [request EXCEPT ![t].at = "commit", ![t].read = row]
      BY <1>0, <2>1, <2>2, <3>1 DEF RequestSound
    <3>2. CASE request' = [request EXCEPT ![t].at = "store"]
      BY <1>0, <2>1, <2>2, <3>2 DEF RequestSound
    <3>3. CASE q.route = "refund" /\ row.status \in {"paid", "partially_refunded"}
               /\ asked \in 1..(OrderAmount - row.refunded)
               /\ request' = [request EXCEPT ![t].at = "commit", ![t].read = row, ![t].cents = asked]
      <4>1. PICK c \in 1..(OrderAmount - row.refunded) :
              request' = [request EXCEPT ![t].at = "commit", ![t].read = row, ![t].cents = c]
        BY <3>3
      <4>2. c \in 0..OrderAmount
        BY <2>2, SMT DEF OrderRows
      <4> HIDE DEF row
      <4>3. request' \in [Requests -> ReqType]
        BY <1>0, <2>2, <4>1, <4>2
      <4>4. /\ request'[t].about \in OrderIds /\ request'[t].at = "commit"
            /\ request'[t].route = "refund" /\ request'[t].read = row /\ request'[t].cents = c
        BY <1>0, <2>2, <3>3, <4>1
      <4>5. RequestSound(t)'
        BY <3>3, <4>4 DEF RequestSound
      <4>6. \A s \in Requests \ {t} : request'[s] = request[s]
        BY <1>0, <4>1
      <4>7. \A s \in Requests \ {t} : RequestSound(s)'
        BY <1>0, <4>6 DEF RequestSound
      <4> QED
        BY <4>3, <4>5, <4>7
    <3>4. CASE request' = [request EXCEPT ![t] = NoRequest]
      BY <1>3, <3>4
    <3> QED
      BY <2>3, <3>1, <3>2, <3>3, <3>4
  <2> QED
    BY <1>0, <2>1, <2>5 DEF OrdersInv, OrdersTypeOK
<1>5. ASSUME NEW t \in Requests, CommitOrder(t) PROVE OrdersInv'
  <2> DEFINE q == request[t]
  <2>1. /\ q.at = "commit" /\ request' = [request EXCEPT ![t].at = "store"] /\ UNCHANGED begun
        /\ clashed' = IF order[q.about] # q.read THEN clashed \cup {q.about} ELSE clashed
    BY <1>5 DEF CommitOrder
  <2>2. q \in ReqType /\ q.about \in OrderIds /\ RequestSound(t)
    BY <1>0, <2>1 DEF RequestSound
  <2>3. request' \in [Requests -> ReqType] /\ \A s \in Requests : RequestSound(s)'
    BY <1>0, <2>1, <2>2 DEF RequestSound
  <2>4. clashed' \subseteq OrderIds
    BY <1>0, <2>1, <2>2
  <2>5. CASE q.route = "confirm"
    <3>1. order' = [order EXCEPT ![q.about].status = "paid"]
          /\ events' = [events EXCEPT ![q.about].confirmed = @ + 1]
          /\ q.read.status = "pending"
      BY <1>5, <2>1, <2>2, <2>5 DEF CommitOrder, RequestSound
    <3>2. order' \in [OrderIds -> OrderRows] /\ events' \in [OrderIds -> [confirmed : Nat, refunded : Nat]]
      <4>1. order[q.about] \in OrderRows /\ events[q.about] \in [confirmed : Nat, refunded : Nat]
        BY <1>0, <2>2
      <4>2. [order[q.about] EXCEPT !.status = "paid"] \in OrderRows
        BY <4>1 DEF OrderRows
      <4>3. [events[q.about] EXCEPT !.confirmed = @ + 1] \in [confirmed : Nat, refunded : Nat]
        BY <4>1
      <4>4. order' = [order EXCEPT ![q.about] = [order[q.about] EXCEPT !.status = "paid"]]
            /\ events' = [events EXCEPT ![q.about] = [events[q.about] EXCEPT !.confirmed = @ + 1]]
        BY <3>1
      <4> HIDE DEF q
      <4> QED
        BY <1>0, <2>2, <4>2, <4>3, <4>4
    <3>3. \A o \in OrderIds \ clashed' : Books(order'[o], events'[o])
      <4> SUFFICES ASSUME NEW o \in OrderIds \ clashed' PROVE Books(order'[o], events'[o])
        OBVIOUS
      <4>1. o \in OrderIds \ clashed /\ Books(order[o], events[o])
        BY <1>0, <2>1
      <4>2. CASE o # q.about
        BY <1>0, <3>1, <4>1, <4>2
      <4>3. CASE o = q.about
        <5>1. order[o].status = "pending" /\ order[o] \in OrderRows /\ events[o] \in [confirmed : Nat, refunded : Nat]
          BY <1>0, <2>1, <3>1, <4>3
        <5>2. order'[o] = [order[o] EXCEPT !.status = "paid"]
              /\ events'[o] = [events[o] EXCEPT !.confirmed = @ + 1]
          BY <1>0, <3>1, <4>3
        <5> QED
          BY <4>1, <5>1, <5>2, SMT DEF Books, OrderRows
      <4> QED
        BY <4>2, <4>3
    <3> QED
      BY <2>1, <2>3, <2>4, <1>0, <3>2, <3>3 DEF OrdersInv, OrdersTypeOK
  <2>6. CASE q.route # "confirm"
    <3>1. /\ order' = [order EXCEPT ![q.about] = Written(order[q.about], q.read, Refunded(q.read, q.cents))]
          /\ events' = [events EXCEPT ![q.about].refunded = @ + q.cents]
          /\ q.read.status \in {"paid", "partially_refunded"}
          /\ q.cents \in 1..(OrderAmount - q.read.refunded)
      BY <1>5, <2>1, <2>2, <2>6 DEF CommitOrder, RequestSound
    <3>2. q.read \in OrderRows /\ q.cents \in Nat
      BY <2>2, SMT
    <3>3. order' \in [OrderIds -> OrderRows] /\ events' \in [OrderIds -> [confirmed : Nat, refunded : Nat]]
      <4>1. Written(order[q.about], q.read, Refunded(q.read, q.cents)) \in OrderRows
        BY <1>0, <2>2, <3>1, <3>2, RefundTyped, UpdateWrites
      <4> QED
        BY <1>0, <2>2, <3>1, <3>2, <4>1
    <3>4. \A o \in OrderIds \ clashed' : Books(order'[o], events'[o])
      <4> SUFFICES ASSUME NEW o \in OrderIds \ clashed' PROVE Books(order'[o], events'[o])
        OBVIOUS
      <4>1. o \in OrderIds \ clashed /\ Books(order[o], events[o])
        BY <1>0, <2>1
      <4>2. CASE o # q.about
        BY <1>0, <3>1, <4>1, <4>2
      <4>3. CASE o = q.about
        <5>1. order[o] = q.read /\ events[o] \in [confirmed : Nat, refunded : Nat]
          BY <1>0, <2>1, <4>3
        <5>2. order'[o] = Refunded(order[o], q.cents)
              /\ events'[o] = [events[o] EXCEPT !.refunded = @ + q.cents]
          <6>1. order'[o] = Written(order[o], q.read, Refunded(q.read, q.cents))
            BY <1>0, <3>1, <4>3
          <6>2. Written(order[o], q.read, Refunded(q.read, q.cents)) = Refunded(order[o], q.cents)
            BY <3>1, <3>2, <5>1, RefundTyped, UpdateWrites
          <6>3. events'[o] = [events[o] EXCEPT !.refunded = @ + q.cents]
            BY <1>0, <3>1, <4>3
          <6> QED
            BY <6>1, <6>2, <6>3
        <5>3. Books(Refunded(order[o], q.cents), [events[o] EXCEPT !.refunded = @ + q.cents])
          BY <3>1, <3>2, <4>1, <5>1, RefundFits
        <5> QED
          BY <5>2, <5>3
      <4> QED
        BY <4>2, <4>3
    <3> QED
      BY <2>1, <2>3, <2>4, <1>0, <3>3, <3>4 DEF OrdersInv, OrdersTypeOK
  <2> QED
    BY <2>5, <2>6
<1>6. ASSUME NEW t \in Requests, StoreAnswer(t) \/ RequestDies(t) PROVE OrdersInv'
  <2>1. request' = [request EXCEPT ![t] = NoRequest] /\ UNCHANGED <<order, events, begun, clashed>>
    BY <1>6 DEF StoreAnswer, RequestDies, EndRequest
  <2> QED
    BY <1>0, <1>3, <2>1 DEF OrdersInv, OrdersTypeOK
<1>7. CASE UNCHANGED orderVars
  BY <1>0, <1>7 DEF OrdersInv, OrdersTypeOK, RequestSound, orderVars
<1> QED
  BY <1>1, <1>2, <1>4, <1>5, <1>6, <1>7 DEF OrdersNext

\* An order and its payment events tell the same story.
THEOREM OrderBooksAlwaysAgree == OrdersSpec => []OrderBooksAgree
<1>1. OrdersInv => OrderBooksAgree
  BY DEF OrdersInv, OrderBooksAgree, Books
<1> QED
  BY <1>1, OrdersInitInv, OrdersStepInv, PTL DEF OrdersSpec

-----------------------------------------------------------------------------
(* The lease of a job.                                                     *)

LeaseTyped ==
    /\ jobRow \in [status : ClaimStatuses \union {"done"}, valid : BOOLEAN,
                   owner : Processes \union {Nobody}, attempts : Nat]
    /\ live \in [Processes -> Nat] /\ beaten \in BOOLEAN
    /\ claimer \in [Processes -> {"none", "listed", "read", "stale"}]

Claiming(p) == claimer[p] \in {"read", "stale"}

\* A run that lives is alone, its process holds the lease or nobody is named in it,
\* and no claim has read the row.
Alone(p) ==
    /\ live[p] = 1 /\ \A q \in Processes \ {p} : live[q] = 0
    /\ jobRow.valid /\ jobRow.owner \in {Nobody, p}
    /\ \A q \in Processes : ~Claiming(q)

LeaseInv == LeaseTyped /\ (~beaten => \A p \in Processes : live[p] > 0 => Alone(p))

\* It holds when the job is submitted: one process runs it, nobody has claimed it.
LEMMA LeaseInitInv == LeaseInit => LeaseInv
<1> SUFFICES ASSUME LeaseInit PROVE LeaseInv
  OBVIOUS
<1>1. LeaseTyped
  <2>1. jobRow \in [status : ClaimStatuses \union {"done"}, valid : BOOLEAN,
                   owner : Processes \union {Nobody}, attempts : Nat]
    BY DEF LeaseInit, ClaimStatuses
  <2>2. PICK p \in Processes : live = [q \in Processes |-> IF q = p THEN 1 ELSE 0]
    BY DEF LeaseInit
  <2>3. live \in [Processes -> Nat]
    BY <2>2
  <2>4. claimer \in [Processes -> {"none", "listed", "read", "stale"}] /\ beaten \in BOOLEAN
    BY DEF LeaseInit
  <2> QED
    BY <2>1, <2>3, <2>4 DEF LeaseTyped
<1>2. \A p \in Processes : live[p] > 0 => Alone(p)
  BY DEF LeaseInit, Alone, Claiming
<1> QED
  BY <1>1, <1>2 DEF LeaseInv

\* Every step keeps it: a claim of a job that is run is refused, or beaten.
LEMMA LeaseStepInv == LeaseInv /\ [LeaseNext]_leaseVars => LeaseInv'
<1> SUFFICES ASSUME LeaseInv, [LeaseNext]_leaseVars PROVE LeaseInv'
  OBVIOUS
<1>0. LeaseTyped /\ (~beaten => \A p \in Processes : live[p] > 0 => Alone(p))
  BY DEF LeaseInv
<1>1. ASSUME NEW p \in Processes, RenewLease(p) PROVE LeaseInv'
  <2>1. live[p] > 0 /\ jobRow' = [jobRow EXCEPT !.valid = TRUE, !.owner = p]
        /\ UNCHANGED <<live, claimer, beaten>>
    BY <1>1 DEF RenewLease
  <2>2. LeaseTyped'
    BY <1>0, <2>1 DEF LeaseTyped
  <2>3. jobRow'.valid /\ jobRow'.owner = p
    BY <1>0, <2>1 DEF LeaseTyped
  <2>4. ASSUME ~beaten, NEW q \in Processes, live[q] > 0 PROVE Alone(q)'
    <3>1. q = p /\ Alone(p)
      BY <1>0, <2>1, <2>4 DEF Alone
    <3> QED
      BY <2>1, <2>3, <3>1 DEF Alone, Claiming
  <2> QED
    BY <2>1, <2>2, <2>4 DEF LeaseInv
<1>2. CASE LapseLease
  <2>1. /\ \A p \in Processes : ~(live[p] > 0)
        /\ jobRow' = [jobRow EXCEPT !.valid = FALSE] /\ UNCHANGED <<live, claimer, beaten>>
    BY <1>2 DEF LapseLease, LiveRuns
  <2>2. LeaseTyped'
    BY <1>0, <2>1 DEF LeaseTyped
  <2> QED
    BY <2>1, <2>2 DEF LeaseInv
<1>3. ASSUME NEW p \in Processes, SetRunning(p) PROVE LeaseInv'
  <2>1. jobRow' = [jobRow EXCEPT !.status = "running"] /\ UNCHANGED <<live, claimer, beaten>>
    BY <1>3 DEF SetRunning
  <2>2. LeaseTyped' /\ jobRow'.valid = jobRow.valid /\ jobRow'.owner = jobRow.owner
    BY <1>0, <2>1 DEF LeaseTyped, ClaimStatuses
  <2> QED
    BY <1>0, <2>1, <2>2 DEF LeaseInv, Alone, Claiming
<1>4. ASSUME NEW p \in Processes, EndLease(p) PROVE LeaseInv'
  <2>1. /\ live[p] > 0 /\ live' = [live EXCEPT ![p] = @ - 1] /\ UNCHANGED <<claimer, beaten>>
        /\ jobRow' = [jobRow EXCEPT !.status = "done", !.valid = FALSE, !.owner = Nobody]
    BY <1>4 DEF EndLease
  <2>2. LeaseTyped'
    <3>1. live[p] \in Nat /\ live[p] - 1 \in Nat
      BY <1>0, <2>1 DEF LeaseTyped
    <3>2. live' \in [Processes -> Nat]
      BY <1>0, <2>1, <3>1 DEF LeaseTyped
    <3>3. jobRow' \in [status : ClaimStatuses \union {"done"}, valid : BOOLEAN,
                      owner : Processes \union {Nobody}, attempts : Nat]
      BY <1>0, <2>1 DEF LeaseTyped
    <3> QED
      BY <1>0, <2>1, <3>2, <3>3 DEF LeaseTyped
  <2>3. ~beaten => \A q \in Processes : live'[q] = 0
    BY <1>0, <2>1 DEF LeaseTyped, Alone
  <2> QED
    BY <2>1, <2>2, <2>3 DEF LeaseInv
<1>5. ASSUME NEW p \in Processes, Die(p) PROVE LeaseInv'
  <2>1. /\ live' = [live EXCEPT ![p] = 0] /\ claimer' = [claimer EXCEPT ![p] = "none"]
        /\ UNCHANGED <<jobRow, beaten>>
    BY <1>5 DEF Die
  <2>2. LeaseTyped'
    BY <1>0, <2>1 DEF LeaseTyped
  <2>3. ASSUME ~beaten, NEW q \in Processes, live'[q] > 0 PROVE Alone(q)'
    <3>1. q # p /\ live'[q] = live[q]
      BY <1>0, <2>1, <2>3 DEF LeaseTyped
    <3>2. Alone(q)
      BY <1>0, <2>3, <3>1
    <3>3. \A r \in Processes : live'[r] = live[r] \/ live'[r] = 0
      BY <1>0, <2>1 DEF LeaseTyped
    <3>4. \A r \in Processes : claimer'[r] = claimer[r] \/ claimer'[r] = "none"
      BY <1>0, <2>1 DEF LeaseTyped
    <3> QED
      BY <2>1, <3>1, <3>2, <3>3, <3>4 DEF Alone, Claiming
  <2> QED
    BY <2>1, <2>2, <2>3 DEF LeaseInv
\* A process that comes to look at the row has not read it yet.
<1>6. ASSUME NEW p \in Processes, Reconcile(p) \/ AskResume(p) PROVE LeaseInv'
  <2>1. PICK c \in {"none", "listed"} : claimer' = [claimer EXCEPT ![p] = c]
    BY <1>6 DEF Reconcile, AskResume
  <2>2. UNCHANGED <<jobRow, live, beaten>>
    BY <1>6 DEF Reconcile, AskResume
  <2>3. LeaseTyped'
    BY <1>0, <2>1, <2>2 DEF LeaseTyped
  <2>4. \A q \in Processes : Claiming(q)' => Claiming(q)
    BY <1>0, <2>1 DEF LeaseTyped, Claiming
  <2> QED
    BY <1>0, <2>2, <2>3, <2>4 DEF LeaseInv, Alone
<1>7. ASSUME NEW p \in Processes, ReadClaim(p) PROVE LeaseInv'
  <2>1. /\ claimer' = [claimer EXCEPT ![p] =
               IF ~Claimable(p) THEN "none" ELSE IF jobRow.valid THEN "read" ELSE "stale"]
        /\ beaten' = (beaten \/ (Claimable(p) /\ LiveRuns # {} /\ jobRow.owner \in {Nobody, p}))
        /\ UNCHANGED <<jobRow, live>>
    BY <1>7 DEF ReadClaim
  <2>2. LeaseTyped'
    BY <1>0, <2>1 DEF LeaseTyped
  <2>3. ASSUME ~beaten', NEW q \in Processes, live[q] > 0 PROVE Alone(q)'
    <3>1. ~beaten /\ Alone(q) /\ LiveRuns # {}
      BY <1>0, <2>1, <2>3 DEF LiveRuns
    <3>2. ~Claimable(p)
      BY <2>1, <2>3, <3>1 DEF Claimable, Alone
    <3>3. \A r \in Processes : Claiming(r)' => Claiming(r)
      BY <1>0, <2>1, <3>2 DEF LeaseTyped, Claiming
    <3> QED
      BY <2>1, <3>1, <3>3 DEF Alone
  <2> QED
    BY <2>1, <2>2, <2>3 DEF LeaseInv
<1>8. ASSUME NEW p \in Processes, CommitClaim(p) PROVE LeaseInv'
  <2>1. /\ Claiming(p) /\ claimer' = [claimer EXCEPT ![p] = "none"]
        /\ jobRow' = [status |-> "resuming", valid |-> TRUE, owner |-> p, attempts |-> jobRow.attempts + 1]
        /\ live' = [live EXCEPT ![p] = @ + 1]
        /\ beaten' = (beaten \/ \E q \in Processes \ {p} : claimer[q] \in {"read", "stale"})
    BY <1>8 DEF CommitClaim, Claiming
  <2>2. LeaseTyped'
    <3>1. jobRow.attempts + 1 \in Nat
      BY <1>0 DEF LeaseTyped
    <3>2. claimer' \in [Processes -> {"none", "listed", "read", "stale"}] /\ live' \in [Processes -> Nat]
      BY <1>0, <2>1 DEF LeaseTyped
    <3>3. beaten' \in BOOLEAN
      BY <2>1
    <3> QED
      BY <2>1, <3>1, <3>2, <3>3 DEF LeaseTyped, ClaimStatuses
  <2>3. ASSUME ~beaten', NEW q \in Processes, live'[q] > 0 PROVE Alone(q)'
    <3>1. ~beaten /\ \A r \in Processes \ {p} : ~Claiming(r)
      BY <2>1, <2>3 DEF Claiming
    <3>2. \A r \in Processes : live[r] = 0
      BY <1>0, <2>1, <3>1 DEF Alone, LeaseTyped
    <3>3. q = p /\ live'[p] = 1 /\ \A r \in Processes \ {p} : live'[r] = 0
      BY <1>0, <2>1, <2>3, <3>2 DEF LeaseTyped
    <3>4. \A r \in Processes : ~Claiming(r)'
      BY <1>0, <2>1, <3>1 DEF LeaseTyped, Claiming
    <3> QED
      BY <2>1, <3>3, <3>4 DEF Alone
  <2> QED
    BY <2>2, <2>3 DEF LeaseInv
<1>9. CASE UNCHANGED leaseVars
  BY <1>0, <1>9 DEF LeaseInv, LeaseTyped, Alone, Claiming, leaseVars
<1> QED
  BY <1>1, <1>2, <1>3, <1>4, <1>5, <1>6, <1>7, <1>8, <1>9 DEF LeaseNext

\* As long as no claim was beaten, the job is run by one process at a time, whatever
\* the number of processes, their crashes and the claims.
THEOREM OneRunAlways == LeaseSpec => []OneRunAtATime
<1>1. LeaseInv => OneRunAtATime
  BY DEF LeaseInv, LeaseTyped, Alone, OneRunAtATime
<1> QED
  BY <1>1, LeaseInitInv, LeaseStepInv, PTL DEF LeaseSpec

-----------------------------------------------------------------------------
(* The shared data pools.                                                  *)

\* The jobs that count a reference on a key.
Holders(k) == {j \in SharedJobs : KeyOf[j] = k /\ tries[j] > 0 /\ sj[j] # "over"}

\* The count of a key is its holders, unless a job without a reference took one
\* away, or a retried one took two; a thread fetches under the lock of its key; what
\* a job reads, or is about to read, is there; and what is there has a holder.
PoolInv ==
    /\ SharedTypeOK
    /\ \A j \in SharedJobs :
          /\ sj[j] = "new" => tries[j] = 0
          /\ sj[j] \in {"trying", "reading", "failed"} => tries[j] > 0
          /\ fetch[j] = "fetching" => keyLock[KeyOf[j]] = j
          /\ (sj[j] = "reading" \/ (sj[j] = "trying" /\ fetch[j] = "back")) /\ KeyOf[j] \notin stolen
                => pool[KeyOf[j]] # "none"
    /\ \A k \in PoolKeys :
          /\ k \notin stolen => Cardinality(Holders(k)) <= refs[k]
          /\ k \notin leaked => refs[k] <= Cardinality(Holders(k))
          /\ k \notin leaked /\ pool[k] # "none" => Holders(k) # {}

\* The jobs that count a reference on a key are finitely many.
LEMMA HoldersFinite == \A k : IsFiniteSet(Holders(k)) /\ Cardinality(Holders(k)) \in Nat
<1>1. \A k : Holders(k) \subseteq SharedJobs
  BY DEF Holders
<1>2. QED
  BY <1>1, SharedAssumption, FS_Subset, FS_CardinalityType

\* At first nobody holds a pool.
LEMMA PoolInit == SharedInit => PoolInv
<1> SUFFICES ASSUME SharedInit PROVE PoolInv
  OBVIOUS
<1>1. SharedTypeOK
  BY SharedAssumption DEF SharedInit, SharedTypeOK
<1>2. \A k \in PoolKeys : Holders(k) = {} /\ Cardinality(Holders(k)) = 0
  BY FS_EmptySet DEF SharedInit, Holders
<1>3. QED
  BY <1>1, <1>2, SharedAssumption DEF SharedInit, PoolInv

\* A step that leaves the references alone.
LEMMA PoolSameHolders ==
    ASSUME \A j \in SharedJobs : tries'[j] = tries[j] /\ (sj'[j] = "over" <=> sj[j] = "over")
    PROVE  \A k : Holders(k)' = Holders(k)
  BY DEF Holders

\* Every step of a job and of its thread keeps the counts of the pools.
LEMMA PoolStep == PoolInv /\ [SharedNext]_sharedVars => PoolInv'
<1> USE SharedAssumption
<1> SUFFICES ASSUME PoolInv, [SharedNext]_sharedVars PROVE PoolInv'
  OBVIOUS
<1>0. SharedTypeOK
  BY DEF PoolInv
<1>1. ASSUME NEW j \in SharedJobs, EnterJob(j) PROVE PoolInv'
  <2>1. \A k : Holders(k)' = Holders(k)
    BY <1>0, <1>1, PoolSameHolders DEF SharedTypeOK, EnterJob
  <2>2. SharedTypeOK'
    BY <1>0, <1>1 DEF SharedTypeOK, EnterJob
  <2>3. QED
    BY <1>1, <2>1, <2>2 DEF SharedTypeOK, PoolInv, EnterJob
<1>2. ASSUME NEW j \in SharedJobs, LockKey(j) \/ Unlock(j) \/ Return(j) PROVE PoolInv'
  <2>1. \A k : Holders(k)' = Holders(k)
    BY <1>0, <1>2, PoolSameHolders DEF SharedTypeOK, LockKey, Unlock, Return
  <2>2. SharedTypeOK'
    BY <1>0, <1>2 DEF SharedTypeOK, LockKey, Unlock, Return
  <2>3. QED
    BY <1>2, <2>1, <2>2 DEF SharedTypeOK, PoolInv, LockKey, Unlock, Return
<1>3. ASSUME NEW j \in SharedJobs, Store(j) PROVE PoolInv'
  <2>1. \A k : Holders(k)' = Holders(k)
    BY <1>0, <1>3, PoolSameHolders DEF SharedTypeOK, Store
  <2>2. SharedTypeOK'
    BY <1>0, <1>3 DEF SharedTypeOK, Store
  <2>3. Inside(j) => j \in Holders(KeyOf[j])
    BY DEF Inside, Holders, PoolInv
  <2>4. QED
    BY <1>3, <2>1, <2>2, <2>3 DEF SharedTypeOK, PoolInv, Store
<1>4. ASSUME NEW j \in SharedJobs, Collected(j) \/ FailAttempt(j) \/ LeaveJob(j) PROVE PoolInv'
  <2>1. \A k : Holders(k)' = Holders(k)
    BY <1>0, <1>4, PoolSameHolders DEF SharedTypeOK, Collected, FailAttempt, LeaveJob
  <2>2. SharedTypeOK'
    BY <1>0, <1>4 DEF SharedTypeOK, Collected, FailAttempt, LeaveJob
  <2>3. QED
    BY <1>4, <2>1, <2>2 DEF SharedTypeOK, PoolInv, Collected, FailAttempt, LeaveJob
<1>5. ASSUME NEW j \in SharedJobs, Attempt(j) PROVE PoolInv'
  <2> DEFINE k == KeyOf[j]
  <2>1. SharedTypeOK'
    BY <1>0, <1>5 DEF SharedTypeOK, Attempt
  <2>2. \A l : l # k => Holders(l)' = Holders(l)
    BY <1>0, <1>5 DEF SharedTypeOK, Attempt, Holders
  <2>3. Holders(k)' = Holders(k) \union {j}
    BY <1>0, <1>5 DEF SharedTypeOK, Attempt, Holders
  <2>4. tries[j] = 0 <=> j \notin Holders(k)
    BY <1>0, <1>5 DEF SharedTypeOK, Attempt, Holders
  <2>5. Cardinality(Holders(k)') = IF tries[j] = 0 THEN Cardinality(Holders(k)) + 1 ELSE Cardinality(Holders(k))
    BY <2>3, <2>4, HoldersFinite, FS_AddElement
  <2>6. refs'[k] = refs[k] + 1 /\ \A l \in PoolKeys : l # k => refs'[l] = refs[l]
    BY <1>0, <1>5 DEF SharedTypeOK, Attempt
  <2>7. \A l \in PoolKeys :
          /\ l \notin stolen' => Cardinality(Holders(l)') <= refs'[l]
          /\ l \notin leaked' => refs'[l] <= Cardinality(Holders(l)')
          /\ l \notin leaked' /\ pool'[l] # "none" => Holders(l)' # {}
    <3> SUFFICES ASSUME NEW l \in PoolKeys
                 PROVE  /\ l \notin stolen' => Cardinality(Holders(l)') <= refs'[l]
                        /\ l \notin leaked' => refs'[l] <= Cardinality(Holders(l)')
                        /\ l \notin leaked' /\ pool'[l] # "none" => Holders(l)' # {}
      OBVIOUS
    <3>1. CASE l = k
      <4>1. k \notin leaked => refs[k] <= Cardinality(Holders(k))
        BY DEF PoolInv
      <4>2. k \notin stolen => Cardinality(Holders(k)) <= refs[k]
        BY DEF PoolInv
      <4>3. stolen' = stolen /\ leaked \subseteq leaked' /\ (tries[j] > 0 => k \in leaked')
        BY <1>5 DEF Attempt
      <4>4. Cardinality(Holders(k)) \in Nat /\ refs[k] \in Nat /\ tries[j] \in Nat
        BY <1>0, HoldersFinite DEF SharedTypeOK
      <4>5. Holders(k)' # {}
        BY <2>3
      <4> HIDE DEF k
      <4>6. QED
        BY <2>5, <2>6, <3>1, <4>1, <4>2, <4>3, <4>4, <4>5
    <3>2. CASE l # k
      BY <1>5, <2>2, <2>6, <3>2 DEF PoolInv, Attempt
    <3>3. QED
      BY <3>1, <3>2
  <2>8. QED
    BY <1>0, <1>5, <2>1, <2>7 DEF SharedTypeOK, PoolInv, Attempt
<1>6. ASSUME NEW j \in SharedJobs, Finally(j) PROVE PoolInv'
  <2> DEFINE k == KeyOf[j]
  <2>1. SharedTypeOK'
    BY <1>0, <1>6 DEF SharedTypeOK, Finally, Evicted
  <2>2. \A l : l # k => Holders(l)' = Holders(l)
    BY <1>0, <1>6 DEF SharedTypeOK, Finally, Holders
  <2>3. Holders(k)' = Holders(k) \ {j}
    BY <1>0, <1>6 DEF SharedTypeOK, Finally, Holders
  <2>4. j \in Holders(k) <=> tries[j] # 0
    BY <1>0, <1>6 DEF SharedTypeOK, Finally, Holders
  <2>5. Cardinality(Holders(k)') = IF tries[j] = 0 THEN Cardinality(Holders(k)) ELSE Cardinality(Holders(k)) - 1
    BY <2>3, <2>4, HoldersFinite, FS_RemoveElement
  <2>6. refs'[k] = (IF refs[k] > 0 THEN refs[k] - 1 ELSE 0) /\ \A l \in PoolKeys : l # k => refs'[l] = refs[l]
    BY <1>0, <1>6 DEF SharedTypeOK, Finally, Evicted
  <2>7. pool'[k] = (IF refs[k] <= 1 THEN "none" ELSE pool[k]) /\ \A l \in PoolKeys : l # k => pool'[l] = pool[l]
    BY <1>0, <1>6 DEF SharedTypeOK, Finally, Evicted
  <2>8. stolen \subseteq stolen' /\ (tries[j] = 0 => k \in stolen') /\ leaked' = leaked
    BY <1>6 DEF Finally
  <2>c. /\ Cardinality(Holders(k)) \in Nat /\ refs[k] \in Nat /\ Cardinality(Holders(k)') \in Nat
        /\ tries[j] # 0 => Cardinality(Holders(k)) >= 1
    <3>1. tries[j] # 0 => Cardinality(Holders(k)) # 0
      BY <2>4, HoldersFinite, FS_EmptySet
    <3>2. IsFiniteSet(Holders(k)')
      BY <2>3, HoldersFinite, FS_Subset
    <3>3. QED
      BY <1>0, <3>1, <3>2, HoldersFinite, FS_CardinalityType DEF SharedTypeOK
  <2>9. \A l \in PoolKeys :
          /\ l \notin stolen' => Cardinality(Holders(l)') <= refs'[l]
          /\ l \notin leaked' => refs'[l] <= Cardinality(Holders(l)')
          /\ l \notin leaked' /\ pool'[l] # "none" => Holders(l)' # {}
    <3> SUFFICES ASSUME NEW l \in PoolKeys
                 PROVE  /\ l \notin stolen' => Cardinality(Holders(l)') <= refs'[l]
                        /\ l \notin leaked' => refs'[l] <= Cardinality(Holders(l)')
                        /\ l \notin leaked' /\ pool'[l] # "none" => Holders(l)' # {}
      OBVIOUS
    <3>1. CASE l = k
      <4>1. Holders(k)' = {} => Cardinality(Holders(k)') = 0
        BY FS_EmptySet
      <4>2. k \notin leaked => refs[k] <= Cardinality(Holders(k))
        BY DEF PoolInv
      <4>3. k \notin stolen => Cardinality(Holders(k)) <= refs[k]
        BY DEF PoolInv
      <4>4. k \notin leaked /\ pool[k] # "none" => Holders(k) # {}
        BY DEF PoolInv
      <4>5. tries[j] = 0 => Holders(k)' = Holders(k)
        BY <2>3, <2>4
      <4> HIDE DEF k
      <4>6. QED
        BY <2>5, <2>6, <2>7, <2>8, <2>c, <3>1, <4>1, <4>2, <4>3, <4>4, <4>5
    <3>2. CASE l # k
      BY <2>2, <2>6, <2>7, <2>8, <3>2 DEF PoolInv
    <3>3. QED
      BY <3>1, <3>2
  \* Another job that reads the pool is a second holder.
  <2>10. ASSUME NEW i \in SharedJobs, sj'[i] = "reading" \/ (sj'[i] = "trying" /\ fetch'[i] = "back"),
                KeyOf[i] \notin stolen'
         PROVE  pool'[KeyOf[i]] # "none"
    <3>1. i # j /\ sj'[i] = sj[i] /\ fetch'[i] = fetch[i]
      BY <1>0, <1>6, <2>10 DEF SharedTypeOK, Finally
    <3>2. pool[KeyOf[i]] # "none"
      BY <2>8, <2>10, <3>1 DEF PoolInv
    <3>3. CASE KeyOf[i] = k
      <4>1. tries[j] # 0 /\ k \notin stolen
        BY <2>8, <2>10, <3>3
      <4>2. i \in Holders(k)'
        BY <1>0, <1>6, <2>10, <3>1, <3>3 DEF Holders, PoolInv, Finally, SharedTypeOK
      <4>3. Cardinality(Holders(k)') # 0
        BY <2>3, <4>2, HoldersFinite, FS_Subset, FS_EmptySet
      <4>4. refs[k] >= 2
        <5>1. Cardinality(Holders(k)) <= refs[k]
          BY <4>1 DEF PoolInv
        <5> HIDE DEF k
        <5>2. QED
          BY <2>5, <2>c, <4>1, <4>3, <5>1
      <4>5. QED
        BY <2>7, <2>c, <3>2, <3>3, <4>4
    <3>4. CASE KeyOf[i] # k
      BY <2>7, <3>2, <3>4
    <3>5. QED
      BY <3>3, <3>4
  <2>11. ASSUME NEW i \in SharedJobs
         PROVE  /\ sj'[i] = "new" => tries'[i] = 0
                /\ sj'[i] \in {"trying", "reading", "failed"} => tries'[i] > 0
                /\ fetch'[i] = "fetching" => keyLock'[KeyOf[i]] = i
    BY <1>0, <1>6 DEF SharedTypeOK, PoolInv, Finally
  <2>12. QED
    BY <2>1, <2>9, <2>10, <2>11 DEF PoolInv
<1>7. CASE UNCHANGED sharedVars
  <2>1. \A k : Holders(k)' = Holders(k)
    BY <1>7, PoolSameHolders DEF sharedVars
  <2>2. QED
    BY <1>7, <2>1 DEF sharedVars, PoolInv, SharedTypeOK
<1>8. QED
  BY <1>1, <1>2, <1>3, <1>4, <1>5, <1>6, <1>7 DEF SharedNext, FetchStep

\* Every variable of the pools keeps its type.
THEOREM SharedTypeCorrect == SharedSpec => []SharedTypeOK
<1>1. PoolInv => SharedTypeOK
  BY DEF PoolInv
<1>2. QED
  BY <1>1, PoolInit, PoolStep, PTL DEF SharedSpec

\* The data pools serve their jobs, for any jobs, keys and number of attempts: a
\* pool stays while a job reads it, is fetched by one thread at a time, and goes with
\* the last job on its key, whatever is cancelled while its thread fetches.
THEOREM PoolsAlwaysServe == SharedSpec => []PoolsServe
<1>1. PoolInv => PoolsServe
  <2> SUFFICES ASSUME PoolInv PROVE PoolsServe
    OBVIOUS
  <2>1. PoolStays
    BY DEF PoolInv, PoolStays
  <2>2. FetchedOnce
    BY DEF PoolInv, FetchedOnce
  <2>3. PoolsGo
    <3> SUFFICES ASSUME NEW k \in PoolKeys \ leaked,
                        \A j \in SharedJobs : KeyOf[j] = k => sj[j] \in {"new", "over"}
                 PROVE  pool[k] = "none" /\ refs[k] = 0
      BY DEF PoolsGo
    <3>1. Holders(k) = {}
      BY DEF Holders, PoolInv
    <3>2. Cardinality(Holders(k)) = 0
      BY <3>1, FS_EmptySet
    <3>3. QED
      <4>1. refs[k] \in Nat
        BY DEF PoolInv, SharedTypeOK
      <4>2. refs[k] <= Cardinality(Holders(k)) /\ (pool[k] # "none" => Holders(k) # {})
        BY DEF PoolInv
      <4> HIDE DEF PoolInv
      <4>3. QED
        BY <3>1, <3>2, <4>1, <4>2
  <2>4. QED
    BY <2>1, <2>2, <2>3 DEF PoolsServe
<1>2. QED
  BY <1>1, PoolInit, PoolStep, PTL DEF SharedSpec

-----------------------------------------------------------------------------
(* Sums over a finite set.  The fold of the ledger is a recursive function, *)
(* which is shown to be the difference of two numbers of elements.         *)

\* Induction over the subsets of a finite set, of a set of them for a predicate.
LEMMA SubsetInduction ==
    ASSUME NEW S, IsFiniteSet(S), NEW F, {} \in F,
           \A T \in SUBSET S : T # {} /\ (\A x \in T : T \ {x} \in F) => T \in F
    PROVE  SUBSET S \subseteq F
<1> DEFINE Bad == (SUBSET S) \ F
<1>1. SUFFICES ASSUME Bad # {} PROVE FALSE
  OBVIOUS
<1>2. PICK U \in Bad : \A V \in Bad : <<V, U>> \notin StrictSubsetOrdering(S)
  <2>1. IsWellFoundedOn(StrictSubsetOrdering(S), SUBSET S)
    BY FS_StrictSubsetOrderingWellFounded, FS_FiniteSubsetsOfFinite
  <2>2. Bad \subseteq SUBSET S
    OBVIOUS
  <2> HIDE DEF Bad
  <2>3. QED
    BY <1>1, <2>1, <2>2, WFMin
<1>3. ASSUME NEW x \in U PROVE U \ {x} \in F
  <2>1. <<U \ {x}, U>> \in StrictSubsetOrdering(S)
    BY DEF StrictSubsetOrdering
  <2>2. QED
    BY <1>2, <2>1
<1>4. QED
  BY <1>3

\* The units of the amounts of some jobs, each numbered within its job.
Units(a, s) == {u \in s \X Nat : 1 <= u[2] /\ u[2] <= a[u[1]]}

\* The units of one job more are as many more as its amount.
LEMMA UnitsOfOne ==
    ASSUME NEW S, NEW a \in [S -> Nat], NEW s \in SUBSET S, NEW j \in s, IsFiniteSet(Units(a, s \ {j}))
    PROVE  IsFiniteSet(Units(a, s)) /\ Cardinality(Units(a, s)) = Cardinality(Units(a, s \ {j})) + a[j]
<1> DEFINE own == {j} \X (1 .. a[j])
           rest == Units(a, s \ {j})
<1>1. a[j] \in Nat
  OBVIOUS
<1>2. IsFiniteSet(1 .. a[j]) /\ Cardinality(1 .. a[j]) = a[j]
  BY <1>1, FS_Interval
<1>3. IsFiniteSet({j}) /\ Cardinality({j}) = 1
  BY FS_Singleton
<1>4. IsFiniteSet(own) /\ Cardinality(own) = 1 * a[j]
  BY <1>2, <1>3, FS_Product
<1>5. Units(a, s) = rest \cup own
  BY <1>1 DEF Units
<1>6. rest \cap own = {}
  BY DEF Units
<1>7. Cardinality(rest) \in Nat
  BY FS_CardinalityType
<1> HIDE DEF own, rest
<1>8. IsFiniteSet(rest)
  BY DEF rest
<1>9. /\ IsFiniteSet(rest \cup own)
      /\ Cardinality(rest \cup own) = Cardinality(rest) + Cardinality(own) - Cardinality(rest \cap own)
  BY <1>4, <1>8, FS_Union
<1>10. Cardinality(rest \cap own) = 0
  BY <1>6, FS_EmptySet
<1>11. QED
  BY <1>1, <1>4, <1>5, <1>7, <1>9, <1>10 DEF rest

\* The units of finitely many jobs are finitely many.
LEMMA UnitsFinite ==
    ASSUME NEW S, IsFiniteSet(S), NEW a \in [S -> Nat]
    PROVE  \A s \in SUBSET S : IsFiniteSet(Units(a, s)) /\ Cardinality(Units(a, s)) \in Nat
<1> DEFINE F == {s \in SUBSET S : IsFiniteSet(Units(a, s))}
<1>1. {} \in F
  <2>1. Units(a, {}) = {}
    BY DEF Units
  <2>2. QED
    BY <2>1, FS_EmptySet
<1>2. \A T \in SUBSET S : T # {} /\ (\A x \in T : T \ {x} \in F) => T \in F
  BY UnitsOfOne
<1>3. SUBSET S \subseteq F
  <2> HIDE DEF F
  <2> QED BY <1>1, <1>2, SubsetInduction
<1>4. QED
  BY <1>3, FS_CardinalityType

\* What the fold of the ledger adds up to.
LEMMA SumOfDifferences ==
    ASSUME NEW S, IsFiniteSet(S), NEW a \in [S -> Nat], NEW b \in [S -> Nat]
    PROVE  MapThenSumSet(LAMBDA j : a[j] - b[j], S) = Cardinality(Units(a, S)) - Cardinality(Units(b, S))
<1> DEFINE c(s) == CHOOSE x \in s : TRUE
           Rec(g) == [s \in SUBSET S |-> IF s = {} THEN 0 ELSE (a[c(s)] - b[c(s)]) + g[s \ {c(s)}]]
           iter == CHOOSE g : g = Rec(g)
           Diff(s) == Cardinality(Units(a, s)) - Cardinality(Units(b, s))
           sums == [s \in SUBSET S |-> Diff(s)]
<1>1. MapThenSumSet(LAMBDA j : a[j] - b[j], S) = iter[S]
  BY DEF MapThenSumSet, MapThenFoldSet
<1>2. Diff({}) = 0
  <2>1. Units(a, {}) = {} /\ Units(b, {}) = {}
    BY DEF Units
  <2>2. QED
    BY <2>1, FS_EmptySet
<1>3. ASSUME NEW s \in SUBSET S, s # {}
      PROVE  c(s) \in s /\ s \ {c(s)} \in SUBSET S /\ Diff(s) = (a[c(s)] - b[c(s)]) + Diff(s \ {c(s)})
  <2>1. c(s) \in s /\ s \ {c(s)} \in SUBSET S
    BY <1>3
  <2>2. /\ IsFiniteSet(Units(a, s \ {c(s)})) /\ IsFiniteSet(Units(b, s \ {c(s)}))
        /\ Cardinality(Units(a, s \ {c(s)})) \in Nat /\ Cardinality(Units(b, s \ {c(s)})) \in Nat
    <3> HIDE DEF c
    <3> QED BY <2>1, UnitsFinite
  <2>3. a[c(s)] \in Nat /\ b[c(s)] \in Nat
    BY <2>1
  <2> HIDE DEF c
  <2>4. /\ Cardinality(Units(a, s)) = Cardinality(Units(a, s \ {c(s)})) + a[c(s)]
        /\ Cardinality(Units(b, s)) = Cardinality(Units(b, s \ {c(s)})) + b[c(s)]
    BY <2>1, <2>2, UnitsOfOne
  <2>5. QED
    BY <2>1, <2>2, <2>3, <2>4
<1>4. sums = Rec(sums)
  <2> HIDE DEF Diff, c
  <2> QED BY <1>2, <1>3
<1>5. iter = Rec(iter)
  <2> HIDE DEF Rec, sums
  <2>1. \E g : g = Rec(g)
    BY <1>4
  <2>2. QED
    BY <2>1
<1>6. \A s \in SUBSET S : iter[s] = IF s = {} THEN 0 ELSE (a[c(s)] - b[c(s)]) + iter[s \ {c(s)}]
  <2> HIDE DEF iter, c
  <2> QED BY <1>5
<1> DEFINE F == {s \in SUBSET S : iter[s] = Diff(s)}
<1>7. {} \in F
  <2> HIDE DEF iter, Diff
  <2> QED BY <1>2, <1>6
<1>8. \A T \in SUBSET S : T # {} /\ (\A x \in T : T \ {x} \in F) => T \in F
  <2> HIDE DEF iter, Diff, c
  <2> QED BY <1>3, <1>6
<1>9. SUBSET S \subseteq F
  <2> HIDE DEF F
  <2> QED BY <1>7, <1>8, SubsetInduction
<1>10. QED
  <2> HIDE DEF iter
  <2> QED BY <1>1, <1>9

\* One amount grows.
LEMMA UnitsAdd ==
    ASSUME NEW S, IsFiniteSet(S), NEW a \in [S -> Nat], NEW j \in S, NEW n \in Nat
    PROVE  Cardinality(Units([a EXCEPT ![j] = @ + n], S)) = Cardinality(Units(a, S)) + n
<1> DEFINE b == [a EXCEPT ![j] = @ + n]
<1>1. b \in [S -> Nat] /\ b[j] = a[j] + n
  OBVIOUS
<1>2. Units(b, S \ {j}) = Units(a, S \ {j})
  BY DEF Units
<1>3. IsFiniteSet(Units(a, S \ {j})) /\ Cardinality(Units(a, S \ {j})) \in Nat
  BY UnitsFinite
<1>4. Cardinality(Units(a, S)) = Cardinality(Units(a, S \ {j})) + a[j]
  BY <1>3, UnitsOfOne
<1>5. Cardinality(Units(b, S)) = Cardinality(Units(b, S \ {j})) + b[j]
  <2> HIDE DEF b
  <2> QED BY <1>1, <1>2, <1>3, UnitsOfOne
<1>6. a[j] \in Nat
  OBVIOUS
<1> HIDE DEF b
<1>7. QED
  BY <1>1, <1>2, <1>3, <1>4, <1>5, <1>6 DEF b

-----------------------------------------------------------------------------
(* The ledger of credits.                                                  *)

\* What a thread has in hand: nothing, an operation of a job, or a grant.
JobOps == [type : {"reserve", "commit", "refund"}, job : PaidJobs, amount : Prices, read : Int]
GrantOps == [type : {"grant"}, job : {"none"}, amount : Int, read : Int]

OpsTyped ==
    /\ op \in [CreditThreads -> {NoOp} \union JobOps \union GrantOps]
    /\ \A t \in CreditThreads : op[t] \in JobOps => op[t].amount \in priced[op[t].job]

\* The amounts of the jobs, by type.
Debited == [j \in PaidJobs |-> txs[j].reserve]
Repaid == [j \in PaidJobs |-> txs[j].refund]
Total(a) == Cardinality(Units(a, PaidJobs))

\* Until an operation was written while another one was under way: what an operation
\* has read still holds, and a job's rows are amounts that were asked for it.
Undisturbed ==
    /\ balance = OpeningBalance + granted + Total(Repaid) - Total(Debited)
    /\ \A t \in CreditThreads :
         /\ op[t] # NoOp => op[t].read = balance
         /\ op[t].type = "reserve" => txs[op[t].job].reserve = 0
         /\ op[t].type = "refund" => txs[op[t].job].refund = 0 /\ txs[op[t].job].reserve > 0
    /\ \A j \in PaidJobs :
         /\ txs[j].reserve \in {0} \union priced[j]
         /\ txs[j].refund \in {0} \union priced[j]
         /\ txs[j].refund > 0 => txs[j].reserve > 0

CreditInv ==
    /\ CreditsTypeOK
    /\ OpsTyped
    /\ \A j \in PaidJobs : IsFiniteSet(priced[j])
    /\ ~crossed => Undisturbed

\* At first the account is opened and nothing is written.
LEMMA CreditInit == CreditsInit => CreditInv
<1> SUFFICES ASSUME CreditsInit PROVE CreditInv
  OBVIOUS
<1> USE CreditsAssumption
<1>1. CreditsTypeOK
  <2>1. crossed \in BOOLEAN
    BY DEF CreditsInit
  <2>2. txs \in [PaidJobs -> Transactions]
    BY DEF CreditsInit, Transactions
  <2>3. balance \in Int /\ granted \in Int /\ grants \in 0 .. MaxGrants
    BY DEF CreditsInit
  <2>4. priced \in [PaidJobs -> SUBSET Prices]
    BY DEF CreditsInit
  <2>5. \A t \in CreditThreads : op[t].type = "none"
    BY DEF CreditsInit, NoOp
  <2>6. QED
    BY <2>1, <2>2, <2>3, <2>4, <2>5 DEF CreditsTypeOK
<1>2. OpsTyped
  BY DEF CreditsInit, OpsTyped, NoOp, JobOps
<1>3. \A j \in PaidJobs : IsFiniteSet(priced[j])
  BY FS_EmptySet DEF CreditsInit
<1>4. Undisturbed
  <2>1. Debited = [j \in PaidJobs |-> 0] /\ Repaid = [j \in PaidJobs |-> 0]
    BY DEF CreditsInit, Debited, Repaid
  <2>2. Units([j \in PaidJobs |-> 0], PaidJobs) = {}
    BY DEF Units
  <2>3. Total(Debited) = 0 /\ Total(Repaid) = 0
    BY <2>1, <2>2, FS_EmptySet DEF Total
  <2>4. QED
    BY <2>3 DEF CreditsInit, Undisturbed, NoOp
<1>5. QED
  BY <1>1, <1>2, <1>3, <1>4 DEF CreditInv

\* The totals of the ledger are natural numbers.
LEMMA TotalsTyped ==
    ASSUME CreditsTypeOK
    PROVE  /\ Debited \in [PaidJobs -> Nat] /\ Repaid \in [PaidJobs -> Nat]
           /\ Total(Debited) \in Nat /\ Total(Repaid) \in Nat
<1>1. Debited \in [PaidJobs -> Nat] /\ Repaid \in [PaidJobs -> Nat]
  BY DEF CreditsTypeOK, Transactions, Debited, Repaid
<1>2. QED
  BY <1>1, CreditsAssumption, UnitsFinite DEF Total

\* An operation is begun on what holds.
LEMMA BeginStep ==
    ASSUME CreditInv, NEW t \in CreditThreads, NEW j \in PaidJobs, NEW amount \in Prices,
           NEW type \in {"reserve", "commit", "refund"}, Begin(t, type, j, amount),
           type = "reserve" => ~Has(j, "reserve"),
           type = "refund" => ~Has(j, "refund") /\ Has(j, "reserve")
    PROVE  CreditInv'
<1> USE CreditsAssumption
<1> DEFINE o == [type |-> type, job |-> j, amount |-> amount, read |-> balance]
<1>0. CreditsTypeOK /\ OpsTyped /\ op[t] = NoOp
  BY DEF CreditInv, Begin
<1>1. o \in JobOps /\ op' = [op EXCEPT ![t] = o]
  BY <1>0 DEF JobOps, Begin, CreditsTypeOK
<1>2. /\ priced' = [priced EXCEPT ![j] = @ \union {amount}]
      /\ UNCHANGED <<balance, txs, granted, grants, crossed>>
  BY DEF Begin
<1>3. CreditsTypeOK'
  BY <1>0, <1>1, <1>2 DEF CreditsTypeOK, OpsTyped
<1>4. OpsTyped'
  <2>1. op' \in [CreditThreads -> {NoOp} \union JobOps \union GrantOps]
    <3> HIDE DEF o
    <3> QED BY <1>0, <1>1 DEF OpsTyped
  <2>2. ASSUME NEW u \in CreditThreads, op'[u] \in JobOps PROVE op'[u].amount \in priced'[op'[u].job]
    <3>1. priced \in [PaidJobs -> SUBSET Prices]
      BY <1>0 DEF CreditsTypeOK
    <3>2. CASE u = t
      BY <1>0, <1>1, <1>2, <3>1, <3>2 DEF OpsTyped
    <3>3. CASE u # t
      <4>1. op'[u] = op[u] /\ op[u].job \in PaidJobs
        <5> HIDE DEF o
        <5>1. op'[u] = op[u]
          BY <1>0, <1>1, <3>3 DEF OpsTyped
        <5>2. QED
          BY <2>2, <5>1 DEF JobOps
      <4>2. op[u].amount \in priced[op[u].job]
        BY <1>0, <2>2, <4>1 DEF OpsTyped
      <4>3. QED
        BY <1>2, <3>1, <4>1, <4>2
    <3>4. QED
      BY <3>2, <3>3
  <2>3. QED
    BY <2>1, <2>2 DEF OpsTyped
<1>5. ASSUME NEW i \in PaidJobs PROVE IsFiniteSet(priced'[i])
  <2>1. IsFiniteSet(priced[i]) /\ IsFiniteSet(priced[i] \cup {amount})
    BY FS_AddElement DEF CreditInv
  <2>2. QED
    BY <1>0, <1>2, <2>1 DEF CreditsTypeOK
<1>6. ~crossed' => Undisturbed'
  <2> SUFFICES ASSUME ~crossed PROVE Undisturbed'
    BY <1>2
  <2>1. Undisturbed
    BY DEF CreditInv
  <2>2. Debited' = Debited /\ Repaid' = Repaid
    BY <1>2 DEF Debited, Repaid
  <2>3. balance' = OpeningBalance + granted' + Total(Repaid)' - Total(Debited)'
    BY <1>2, <2>1, <2>2 DEF Undisturbed, Total
  <2>4. ASSUME NEW u \in CreditThreads
        PROVE  /\ op'[u] # NoOp => op'[u].read = balance'
               /\ op'[u].type = "reserve" => txs'[op'[u].job].reserve = 0
               /\ op'[u].type = "refund" => txs'[op'[u].job].refund = 0 /\ txs'[op'[u].job].reserve > 0
    <3>1. CASE u = t
      <4>1. op'[u] = o
        BY <1>0, <1>1, <3>1 DEF OpsTyped
      <4>2. txs[j].reserve \in Nat /\ txs[j].refund \in Nat
        BY <1>0 DEF CreditsTypeOK, Transactions
      <4>3. QED
        BY <1>2, <4>1, <4>2 DEF Has
    <3>2. CASE u # t
      <4>1. op'[u] = op[u]
        <5> HIDE DEF o
        <5> QED BY <1>0, <1>1, <3>2 DEF OpsTyped
      <4>2. QED
        BY <1>2, <2>1, <4>1 DEF Undisturbed
    <3>3. QED
      BY <3>1, <3>2
  <2>5. \A i \in PaidJobs : priced[i] \subseteq priced'[i]
    BY <1>0, <1>2 DEF CreditsTypeOK
  <2>6. \A i \in PaidJobs :
         /\ txs'[i].reserve \in {0} \union priced'[i]
         /\ txs'[i].refund \in {0} \union priced'[i]
         /\ txs'[i].refund > 0 => txs'[i].reserve > 0
    BY <1>2, <2>1, <2>5 DEF Undisturbed
  <2>7. QED
    BY <2>3, <2>4, <2>6 DEF Undisturbed
<1>7. QED
  BY <1>3, <1>4, <1>5, <1>6 DEF CreditInv

\* A grant is begun.
LEMMA GrantStep ==
    ASSUME CreditInv, NEW t \in CreditThreads, NEW delta \in Grants, Grant(t, delta)
    PROVE  CreditInv'
<1> USE CreditsAssumption
<1> DEFINE o == [type |-> "grant", job |-> "none", amount |-> delta, read |-> balance]
<1>0. CreditsTypeOK /\ OpsTyped /\ op[t] = NoOp
  BY DEF CreditInv, Grant
<1>1. o \in GrantOps /\ op' = [op EXCEPT ![t] = o]
  BY <1>0 DEF GrantOps, Grant, CreditsTypeOK
<1>2. UNCHANGED <<balance, txs, granted, priced, crossed>> /\ grants' \in 0 .. MaxGrants
  BY <1>0 DEF Grant, CreditsTypeOK
<1>3. \A u \in CreditThreads : u # t => op'[u] = op[u]
  <2> HIDE DEF o
  <2> QED BY <1>0, <1>1 DEF OpsTyped
<1>4. op'[t] = o
  BY <1>0, <1>1 DEF OpsTyped
<1>5. CreditsTypeOK'
  BY <1>0, <1>2, <1>3, <1>4 DEF CreditsTypeOK
<1>6. OpsTyped'
  <2>1. op' \in [CreditThreads -> {NoOp} \union JobOps \union GrantOps]
    <3> HIDE DEF o
    <3> QED BY <1>0, <1>1 DEF OpsTyped
  <2>2. o \notin JobOps
    BY DEF JobOps
  <2>3. QED
    <3> HIDE DEF o
    <3> QED BY <1>0, <1>2, <1>3, <1>4, <2>1, <2>2 DEF OpsTyped
<1>7. ~crossed' => Undisturbed'
  <2> SUFFICES ASSUME ~crossed PROVE Undisturbed'
    BY <1>2
  <2>1. Undisturbed
    BY DEF CreditInv
  <2>2. Debited' = Debited /\ Repaid' = Repaid
    BY <1>2 DEF Debited, Repaid
  <2>3. balance' = OpeningBalance + granted' + Total(Repaid)' - Total(Debited)'
    BY <1>2, <2>1, <2>2 DEF Undisturbed, Total
  <2>4. QED
    BY <1>2, <1>3, <1>4, <2>1, <2>3 DEF Undisturbed
<1>8. QED
  BY <1>2, <1>5, <1>6, <1>7 DEF CreditInv

\* The transactions with n added under a type of a job.
Entered(j, type, n) == [txs EXCEPT ![j][type] = @ + n]

\* A row is added to the ledger of a job.
LEMMA RowStep ==
    ASSUME CreditsTypeOK, NEW j \in PaidJobs, NEW type \in {"reserve", "commit", "refund"},
           NEW n \in Nat, txs' = Entered(j, type, n)
    PROVE  /\ txs' \in [PaidJobs -> Transactions]
           /\ \A i \in PaidJobs : i # j => txs'[i] = txs[i]
           /\ txs'[j].reserve = IF type = "reserve" THEN txs[j].reserve + n ELSE txs[j].reserve
           /\ txs'[j].refund = IF type = "refund" THEN txs[j].refund + n ELSE txs[j].refund
           /\ Total(Debited)' = IF type = "reserve" THEN Total(Debited) + n ELSE Total(Debited)
           /\ Total(Repaid)' = IF type = "refund" THEN Total(Repaid) + n ELSE Total(Repaid)
<1>1. /\ txs' \in [PaidJobs -> Transactions]
      /\ \A i \in PaidJobs : i # j => txs'[i] = txs[i]
      /\ txs'[j].reserve = IF type = "reserve" THEN txs[j].reserve + n ELSE txs[j].reserve
      /\ txs'[j].refund = IF type = "refund" THEN txs[j].refund + n ELSE txs[j].refund
  <2>1. txs \in [PaidJobs -> Transactions] /\ txs' = [txs EXCEPT ![j][type] = @ + n]
    BY DEF CreditsTypeOK, Entered
  <2>2. CASE type = "reserve"
    BY <2>1, <2>2 DEF Transactions
  <2>3. CASE type = "commit"
    BY <2>1, <2>3 DEF Transactions
  <2>4. CASE type = "refund"
    BY <2>1, <2>4 DEF Transactions
  <2>5. QED
    BY <2>2, <2>3, <2>4
<1>2. /\ Debited' = IF type = "reserve" THEN [Debited EXCEPT ![j] = @ + n] ELSE Debited
      /\ Repaid' = IF type = "refund" THEN [Repaid EXCEPT ![j] = @ + n] ELSE Repaid
  <2>1. ASSUME NEW i \in PaidJobs
        PROVE  /\ Debited'[i] = IF type = "reserve" /\ i = j THEN Debited[i] + n ELSE Debited[i]
               /\ Repaid'[i] = IF type = "refund" /\ i = j THEN Repaid[i] + n ELSE Repaid[i]
    BY <1>1 DEF Debited, Repaid
  <2>2. /\ Debited' = [i \in PaidJobs |-> Debited'[i]] /\ Repaid' = [i \in PaidJobs |-> Repaid'[i]]
        /\ Debited = [i \in PaidJobs |-> Debited[i]] /\ Repaid = [i \in PaidJobs |-> Repaid[i]]
    BY DEF Debited, Repaid
  <2>3. QED
    BY <2>1, <2>2
<1>3. /\ Total([Debited EXCEPT ![j] = @ + n]) = Total(Debited) + n
      /\ Total([Repaid EXCEPT ![j] = @ + n]) = Total(Repaid) + n
  <2>1. /\ Debited \in [PaidJobs -> Nat] /\ Repaid \in [PaidJobs -> Nat] /\ IsFiniteSet(PaidJobs)
    BY TotalsTyped, CreditsAssumption
  <2>2. Total([Debited EXCEPT ![j] = @ + n]) = Total(Debited) + n
    BY <2>1, UnitsAdd DEF Total
  <2>3. Total([Repaid EXCEPT ![j] = @ + n]) = Total(Repaid) + n
    BY <2>1, UnitsAdd DEF Total
  <2> QED
    BY <2>2, <2>3
<1>4. QED
  BY <1>1, <1>2, <1>3 DEF Total

\* An operation is written; the next ones see what it wrote.
LEMMA WriteStep ==
    ASSUME CreditInv, NEW t \in CreditThreads, WriteOp(t)
    PROVE  CreditInv'
<1> USE CreditsAssumption
<1> DEFINE o == op[t]
<1>0. CreditsTypeOK /\ OpsTyped /\ o # NoOp
  BY DEF CreditInv, WriteOp
<1>1. op' = [op EXCEPT ![t] = NoOp] /\ op'[t] = NoOp /\ \A u \in CreditThreads : u # t => op'[u] = op[u]
  BY <1>0 DEF WriteOp, OpsTyped
<1>2. UNCHANGED <<grants, priced>> /\ crossed' \in BOOLEAN
  BY <1>0 DEF WriteOp, CreditsTypeOK
<1>3. OpsTyped'
  <2>1. op' \in [CreditThreads -> {NoOp} \union JobOps \union GrantOps]
    BY <1>0, <1>1 DEF OpsTyped
  <2>2. NoOp \notin JobOps
    BY DEF JobOps, NoOp
  <2>3. QED
    BY <1>0, <1>1, <1>2, <2>1, <2>2 DEF OpsTyped
<1>4. \A u \in CreditThreads : op'[u].type \in {"none", "reserve", "commit", "refund", "grant"}
  BY <1>0, <1>1 DEF CreditsTypeOK, NoOp
<1>5. \A i \in PaidJobs : IsFiniteSet(priced'[i])
  BY <1>2 DEF CreditInv
<1>6. ~crossed' => ~crossed /\ \A u \in CreditThreads : op'[u] = NoOp
  <2>1. ASSUME ~crossed' PROVE ~crossed /\ \A u \in CreditThreads \ {t} : op[u] = NoOp
    BY <2>1 DEF WriteOp
  <2>2. QED
    BY <1>1, <2>1
<1>7. ASSUME txs' \in [PaidJobs -> Transactions], balance' \in Int, granted' \in Int,
             ~crossed' => /\ balance' = OpeningBalance + granted' + Total(Repaid)' - Total(Debited)'
                          /\ \A j \in PaidJobs :
                               /\ txs'[j].reserve \in {0} \union priced'[j]
                               /\ txs'[j].refund \in {0} \union priced'[j]
                               /\ txs'[j].refund > 0 => txs'[j].reserve > 0
      PROVE  CreditInv'
  <2>1. CreditsTypeOK'
    BY <1>0, <1>2, <1>4, <1>7 DEF CreditsTypeOK
  <2>2. ASSUME ~crossed'
        PROVE  \A u \in CreditThreads :
                 /\ op'[u] # NoOp => op'[u].read = balance'
                 /\ op'[u].type = "reserve" => txs'[op'[u].job].reserve = 0
                 /\ op'[u].type = "refund" => txs'[op'[u].job].refund = 0 /\ txs'[op'[u].job].reserve > 0
    BY <1>6, <2>2 DEF NoOp
  <2>3. QED
    BY <1>3, <1>5, <1>7, <2>1, <2>2 DEF CreditInv, Undisturbed
<1>8. CASE o \in GrantOps
  <2>1. /\ o.type = "grant" /\ o.amount \in Int /\ o.read \in Int
        /\ balance' = o.read + o.amount /\ granted' = granted + o.amount /\ txs' = txs
    BY <1>8 DEF GrantOps, WriteOp, Delta, Writers
  <2>2. Debited' = Debited /\ Repaid' = Repaid
    BY <2>1 DEF Debited, Repaid
  <2>3. txs' \in [PaidJobs -> Transactions] /\ balance' \in Int /\ granted' \in Int
    BY <1>0, <2>1 DEF CreditsTypeOK
  <2>4. ASSUME ~crossed'
        PROVE  balance' = OpeningBalance + granted' + Total(Repaid)' - Total(Debited)'
    <3>1. Undisturbed /\ o.read = balance
      BY <1>0, <1>6, <2>4 DEF CreditInv, Undisturbed
    <3>2. Total(Debited) \in Nat /\ Total(Repaid) \in Nat /\ granted \in Int
      BY <1>0, TotalsTyped DEF CreditsTypeOK
    <3> HIDE DEF o
    <3>3. QED
      BY <2>1, <2>2, <3>1, <3>2 DEF Undisturbed, Total
  <2>5. ASSUME ~crossed'
        PROVE \A j \in PaidJobs :
                               /\ txs'[j].reserve \in {0} \union priced'[j]
                               /\ txs'[j].refund \in {0} \union priced'[j]
                               /\ txs'[j].refund > 0 => txs'[j].reserve > 0
    BY <1>2, <1>6, <2>1, <2>5 DEF CreditInv, Undisturbed
  <2>6. QED
    BY <1>7, <2>3, <2>4, <2>5
<1>9. CASE o \in JobOps
  <2> DEFINE j == o.job
             n == o.amount
  <2>1. /\ o.type \in {"reserve", "commit", "refund"} /\ j \in PaidJobs /\ n \in Nat \ {0} /\ o.read \in Int
        /\ n \in priced[j]
    BY <1>0, <1>9 DEF JobOps, OpsTyped
  <2>2. /\ txs' = [txs EXCEPT ![j][o.type] = @ + n] /\ granted' = granted
        /\ balance' = IF o.type \in {"reserve", "refund"} THEN o.read + Delta(o) ELSE balance
    <3>1. t \in Writers <=> o.type \in {"reserve", "refund"}
      BY <2>1 DEF Writers
    <3>2. o.type # "grant"
      BY <2>1
    <3>3. balance' = IF t \in Writers THEN o.read + Delta(o) ELSE balance
      BY DEF WriteOp
    <3>4. txs' = [txs EXCEPT ![o.job][o.type] = @ + o.amount] /\ granted' = granted
      BY <3>2 DEF WriteOp
    <3>5. QED
      BY <3>1, <3>3, <3>4
  <2>3. Delta(o) = IF o.type = "reserve" THEN -n ELSE IF o.type = "refund" THEN n ELSE 0
    BY <2>1 DEF Delta
  <2>4. /\ txs' \in [PaidJobs -> Transactions]
        /\ \A i \in PaidJobs : i # j => txs'[i] = txs[i]
        /\ txs'[j].reserve = IF o.type = "reserve" THEN txs[j].reserve + n ELSE txs[j].reserve
        /\ txs'[j].refund = IF o.type = "refund" THEN txs[j].refund + n ELSE txs[j].refund
        /\ Total(Debited)' = IF o.type = "reserve" THEN Total(Debited) + n ELSE Total(Debited)
        /\ Total(Repaid)' = IF o.type = "refund" THEN Total(Repaid) + n ELSE Total(Repaid)
    <3>1. PICK type \in {"reserve", "commit", "refund"} : type = o.type
      BY <2>1
    <3>2. txs' = Entered(j, type, n) /\ j \in PaidJobs /\ n \in Nat
      BY <2>1, <2>2, <3>1 DEF Entered
    <3> HIDE DEF j, n, o
    <3>3. CreditsTypeOK
      BY <1>0
    <3>4. /\ txs' \in [PaidJobs -> Transactions]
          /\ \A i \in PaidJobs : i # j => txs'[i] = txs[i]
          /\ txs'[j].reserve = IF type = "reserve" THEN txs[j].reserve + n ELSE txs[j].reserve
          /\ txs'[j].refund = IF type = "refund" THEN txs[j].refund + n ELSE txs[j].refund
          /\ Total(Debited)' = IF type = "reserve" THEN Total(Debited) + n ELSE Total(Debited)
          /\ Total(Repaid)' = IF type = "refund" THEN Total(Repaid) + n ELSE Total(Repaid)
      BY <3>2, <3>3, RowStep
    <3> QED
      BY <3>1, <3>4
  <2>5. balance' \in Int /\ granted' \in Int
    <3>1. balance \in Int /\ granted \in Int
      BY <1>0 DEF CreditsTypeOK
    <3>2. Delta(o) \in Int
      BY <2>1, <2>3
    <3> HIDE DEF o
    <3>3. QED
      BY <2>1, <2>2, <3>1, <3>2
  <2>6. ASSUME ~crossed'
        PROVE  /\ Undisturbed /\ o.read = balance
               /\ o.type = "reserve" => txs[j].reserve = 0
               /\ o.type = "refund" => txs[j].refund = 0 /\ txs[j].reserve > 0
    BY <1>0, <1>6, <2>6 DEF CreditInv, Undisturbed
  <2>7. ASSUME ~crossed'
        PROVE  balance' = OpeningBalance + granted' + Total(Repaid)' - Total(Debited)'
    <3>1. Undisturbed /\ o.read = balance
      BY <2>6, <2>7
    <3>2. Total(Debited) \in Nat /\ Total(Repaid) \in Nat /\ granted \in Int /\ balance \in Int
      BY <1>0, TotalsTyped DEF CreditsTypeOK
    <3> HIDE DEF o, j, n
    <3>3. QED
      BY <2>1, <2>2, <2>3, <2>4, <3>1, <3>2 DEF Undisturbed
  <2>8. ASSUME ~crossed', NEW i \in PaidJobs
        PROVE  /\ txs'[i].reserve \in {0} \union priced'[i]
               /\ txs'[i].refund \in {0} \union priced'[i]
               /\ txs'[i].refund > 0 => txs'[i].reserve > 0
    <3>1. /\ txs[i].reserve \in {0} \union priced[i] /\ txs[i].refund \in {0} \union priced[i]
          /\ txs[i].refund > 0 => txs[i].reserve > 0
      BY <2>6, <2>8 DEF Undisturbed
    <3>2. txs[i].reserve \in Nat /\ txs[i].refund \in Nat
      BY <1>0 DEF CreditsTypeOK, Transactions
    <3>3. CASE i # j
      BY <1>2, <2>4, <3>1, <3>3
    <3>4. CASE i = j
      <4>1. /\ o.type = "reserve" => txs[j].reserve = 0
            /\ o.type = "refund" => txs[j].refund = 0 /\ txs[j].reserve > 0
        BY <2>6, <2>8
      <4> HIDE DEF o, j, n
      <4>2. QED
        BY <1>2, <2>1, <2>4, <3>1, <3>2, <3>4, <4>1
    <3>5. QED
      BY <3>3, <3>4
  <2>9. QED
    BY <1>7, <2>4, <2>5, <2>7, <2>8
<1>10. QED
  BY <1>0, <1>8, <1>9 DEF OpsTyped

\* Every operation, begun or written, keeps the ledger.
LEMMA CreditStep == CreditInv /\ [CreditsNext]_creditVars => CreditInv'
<1> SUFFICES ASSUME CreditInv, [CreditsNext]_creditVars PROVE CreditInv'
  OBVIOUS
<1>1. ASSUME NEW t \in CreditThreads, NEW j \in PaidJobs, NEW amount \in Prices,
             Reserve(t, j, amount) \/ Charge(t, j, amount) \/ Refund(t, j, amount)
      PROVE  CreditInv'
  <2>1. CASE Reserve(t, j, amount)
    BY <2>1, BeginStep DEF Reserve
  <2>2. CASE Charge(t, j, amount)
    BY <2>2, BeginStep DEF Charge
  <2>3. CASE Refund(t, j, amount)
    BY <2>3, BeginStep DEF Refund
  <2>4. QED
    BY <1>1, <2>1, <2>2, <2>3
<1>2. CASE UNCHANGED creditVars
  <2>1. Debited' = Debited /\ Repaid' = Repaid
    BY <1>2 DEF creditVars, Debited, Repaid
  <2>2. CreditsTypeOK' /\ OpsTyped'
    BY <1>2 DEF creditVars, CreditInv, CreditsTypeOK, OpsTyped
  <2>3. Undisturbed => Undisturbed'
    BY <1>2, <2>1 DEF creditVars, Undisturbed, Total
  <2>4. QED
    BY <1>2, <2>2, <2>3 DEF creditVars, CreditInv
<1>3. QED
  BY <1>1, <1>2, GrantStep, WriteStep DEF CreditsNext

\* Every variable of the ledger keeps its type.
THEOREM CreditsTypeCorrect == CreditsSpec => []CreditsTypeOK
<1>1. CreditInv => CreditsTypeOK
  BY DEF CreditInv
<1>2. QED
  BY <1>1, CreditInit, CreditStep, PTL DEF CreditsSpec

\* The ledger is kept, for any jobs, prices, threads and grants: as long as no
\* operation was written while another one was under way, the balance is what the
\* transactions add up to, and no job pays twice or is given back more than it paid.
THEOREM LedgerAlwaysKept == CreditsSpec => []LedgerKept
<1>1. CreditInv => LedgerKept
  <2> SUFFICES ASSUME CreditInv PROVE LedgerKept
    OBVIOUS
  <2>1. CreditsTypeOK /\ Debited \in [PaidJobs -> Nat] /\ Repaid \in [PaidJobs -> Nat]
    BY TotalsTyped DEF CreditInv
  <2>2. MapThenSumSet(LAMBDA j : Repaid[j] - Debited[j], PaidJobs) = Total(Repaid) - Total(Debited)
    BY <2>1, CreditsAssumption, SumOfDifferences DEF Total
  <2>3. MapThenSumSet(LAMBDA j : txs[j].refund - txs[j].reserve, PaidJobs)
            = MapThenSumSet(LAMBDA j : Repaid[j] - Debited[j], PaidJobs)
    BY DEF MapThenSumSet, MapThenFoldSet, Repaid, Debited
  <2>4. BalanceIsLedger
    BY <2>1, <2>2, <2>3 DEF CreditInv, BalanceIsLedger, Undisturbed
  <2>5. ASSUME NEW j \in PaidJobs, ~crossed, Cardinality(priced[j]) <= 1
        PROVE  txs[j].reserve - txs[j].refund \in {0} \union priced[j]
    <3>1. /\ txs[j].reserve \in {0} \union priced[j] /\ txs[j].refund \in {0} \union priced[j]
          /\ txs[j].refund > 0 => txs[j].reserve > 0
      BY <2>5 DEF CreditInv, Undisturbed
    <3>2. txs[j].reserve \in Nat /\ txs[j].refund \in Nat
      BY <2>1 DEF CreditsTypeOK, Transactions
    <3>3. \A x, y \in priced[j] : x = y
      <4>1. IsFiniteSet(priced[j]) /\ Cardinality(priced[j]) \in Nat
        BY FS_CardinalityType DEF CreditInv
      <4>2. CASE Cardinality(priced[j]) = 0
        BY <4>1, <4>2, FS_EmptySet
      <4>3. CASE Cardinality(priced[j]) = 1
        <5>1. PICK x : priced[j] = {x}
          BY <4>1, <4>3, FS_Singleton
        <5>2. QED
          BY <5>1
      <4>4. QED
        BY <2>5, <4>1, <4>2, <4>3
    <3>4. QED
      BY <3>1, <3>2, <3>3
  <2>6. QED
    BY <2>4, <2>5 DEF LedgerKept, JobPaysOnce
<1>2. QED
  BY <1>1, CreditInit, CreditStep, PTL DEF CreditsSpec

-----------------------------------------------------------------------------
(* The bridge to the QLIB worker.                                          *)

Files == {"csv", "manifest", "status"}
OutFiles == {"metrics", "model_card", "summary", "predictions", "status"}
FileStates == {"no", "none", "torn", "whole", "part", "pending", "processing", "completed", "failed"}

FilesTyped ==
    /\ inbox \in [QlibRuns -> [Files -> FileStates]]
    /\ proc \in [QlibRuns -> [Files -> FileStates]]
    /\ outbox \in [QlibRuns -> [OutFiles -> FileStates]]
    /\ qat \in [QlibWorkers -> {"poll", "copy", "copying", "read", "write", "failed", "clean", "mark"}
                                  \union OutFiles]

\* The panel of a package is whole before its manifest is begun, and a package is
\* begun once.
PackageInOrder ==
    \A r \in QlibRuns :
       /\ inbox[r]["manifest"] \in {"no", "none", "torn", "whole"}
       /\ inbox[r]["csv"] = "no" <=> inbox[r]["manifest"] = "no"
       /\ inbox[r]["csv"] = "no" <=> inbox[r]["status"] = "no"
       /\ inbox[r]["manifest"] \in {"torn", "whole"} => inbox[r]["csv"] = "whole"
       /\ sub[r] \in {"new", "building"} => inbox[r]["csv"] = "no"

\* A worker has a run, that has a package, while it works; two have one run only
\* where this is written down.
HaveRuns ==
    /\ \A w \in QlibWorkers :
         /\ task[w] = 0 <=> qat[w] = "poll"
         /\ task[w] # 0 => inbox[task[w]]["csv"] # "no"
    /\ \A v, w \in QlibWorkers : v # w /\ task[v] = task[w] /\ task[v] # 0 => task[v] \in doubled

\* What a worker copied, read and computed is whole, and so is what it writes.
WorksOnWhole(w) ==
    LET r == task[w] IN
    /\ qat[w] = "copying" /\ proc[r]["manifest"] # "none"
          => proc[r]["csv"] # "none" /\ inbox[r]["csv"] = "whole"
    /\ qat[w] = "read" /\ proc[r]["manifest"] = "whole" => proc[r]["csv"] = "whole"
    /\ qat[w] \in {"write"} \union OutFiles => panel[w] = "whole"

OutOfWhole(r) ==
    /\ \A f \in {"metrics", "model_card", "summary"} : outbox[r][f] \in {"none", "torn", "whole"}
    /\ scored[r] \in {"none", "whole"}
    /\ qrow[r] = "completed" =>
         /\ imported[r] = "whole"
         /\ \A f \in {"model_card", "summary"} : outbox[r][f] \in {"torn", "whole"}

QlibInv ==
    /\ QlibTypeOK /\ FilesTyped
    /\ PackageInOrder
    /\ HaveRuns
    /\ \A w \in QlibWorkers : task[w] \in QlibRuns \ doubled => WorksOnWhole(w)
    /\ \A r \in QlibRuns \ doubled : OutOfWhole(r)

\* The directories as they are made.
LEMMA DirsTyped ==
    /\ NoDir \in [Files -> FileStates] /\ EmptyDir \in [Files -> FileStates]
    /\ NoOutbox \in [OutFiles -> FileStates]
    /\ \A f \in Files : NoDir[f] = "no" /\ EmptyDir[f] = "none"
    /\ \A f \in OutFiles : NoOutbox[f] = "none"
BY DEF NoDir, EmptyDir, NoOutbox, Files, OutFiles, FileStates

\* At first no run has a row or a file.
LEMMA QlibStart == QlibInit => QlibInv
<1> SUFFICES ASSUME QlibInit PROVE QlibInv
  OBVIOUS
<1> USE QlibAssumption, DirsTyped
<1>1. FilesTyped
  BY DEF QlibInit, FilesTyped
<1>2. \A r \in QlibRuns : /\ inbox[r]["csv"] = "no" /\ inbox[r]["manifest"] = "no" /\ inbox[r]["status"] = "no"
                          /\ \A f \in OutFiles : outbox[r][f] = "none"
  BY DEF QlibInit, Files
<1>3. PackageInOrder
  BY <1>2 DEF PackageInOrder
<1>4. HaveRuns
  BY DEF HaveRuns, QlibInit
<1>5. \A w \in QlibWorkers : task[w] \notin QlibRuns
  BY DEF QlibInit
<1>6. ASSUME NEW r \in QlibRuns PROVE OutOfWhole(r)
  <2>1. \A f \in {"metrics", "model_card", "summary"} : outbox[r][f] = "none"
    BY <1>2 DEF OutFiles
  <2>2. scored[r] = "none" /\ qrow[r] = "none"
    BY DEF QlibInit
  <2>3. QED
    BY <2>1, <2>2 DEF OutOfWhole
<1>7. QlibTypeOK
  <2>1. /\ qrow \in [QlibRuns -> RunRows] /\ imported \in [QlibRuns -> MetricsRows]
        /\ scored \in [QlibRuns -> {"none", "part", "whole"}]
        /\ sub \in [QlibRuns -> {"new", "building", "files", "filed", "over"}]
    BY DEF QlibInit, RunRows, MetricsRows
  <2>2. /\ task \in [QlibWorkers -> QlibRuns \cup {0}] /\ openers \subseteq QlibWorkers
        /\ panel \in [QlibWorkers -> {"none", "part", "whole"}] /\ doubled \subseteq QlibRuns
    BY DEF QlibInit
  <2>3. QED
    BY <1>2, <2>1, <2>2 DEF QlibTypeOK, OutFiles
<1>8. QED
  BY <1>1, <1>3, <1>4, <1>5, <1>6, <1>7 DEF QlibInv

\* Every step of the service and of a worker keeps the files in order.
LEMMA QlibStep == QlibInv /\ [QlibNext]_qlibVars => QlibInv'
<1> SUFFICES ASSUME QlibInv, [QlibNext]_qlibVars PROVE QlibInv'
  OBVIOUS
<1> USE QlibAssumption, DirsTyped
<1>1. ASSUME NEW r \in QlibRuns, SubmitRun(r) PROVE QlibInv'
  <2>1. QlibTypeOK'
    BY <1>1 DEF QlibInv, FilesTyped, QlibTypeOK, RunRows, MetricsRows, Files, OutFiles, FileStates, PackageInOrder, OutOfWhole, HaveRuns, SubmitRun, rowVars, fileVars, workerVars
  <2>2. FilesTyped'
    BY <1>1 DEF QlibInv, FilesTyped, QlibTypeOK, Files, OutFiles, FileStates, HaveRuns, SubmitRun, rowVars, fileVars, workerVars
  <2>3. PackageInOrder'
    BY <1>1 DEF QlibInv, FilesTyped, QlibTypeOK, PackageInOrder, Files, HaveRuns, SubmitRun, rowVars, fileVars, workerVars
  <2>4. HaveRuns'
    BY <1>1 DEF QlibInv, FilesTyped, QlibTypeOK, HaveRuns, PackageInOrder, Files, OutFiles, SubmitRun, rowVars, fileVars, workerVars
  <2>5. \A u \in QlibWorkers : task'[u] \in QlibRuns \ doubled' => WorksOnWhole(u)'
    BY <1>1 DEF QlibInv, FilesTyped, QlibTypeOK, WorksOnWhole, HaveRuns, PackageInOrder, Files, OutFiles, SubmitRun, rowVars, fileVars, workerVars
  <2>6. \A s \in QlibRuns \ doubled' : OutOfWhole(s)'
    BY <1>1 DEF QlibInv, FilesTyped, QlibTypeOK, OutOfWhole, WorksOnWhole, HaveRuns, OutFiles, FileStates, SubmitRun, rowVars, fileVars, workerVars
  <2>7. QED
    BY <2>1, <2>2, <2>3, <2>4, <2>5, <2>6 DEF QlibInv
<1>2. ASSUME NEW r \in QlibRuns, MakeInbox(r) PROVE QlibInv'
  <2>1. QlibTypeOK'
    BY <1>2 DEF QlibInv, FilesTyped, QlibTypeOK, RunRows, MetricsRows, Files, OutFiles, FileStates, PackageInOrder, OutOfWhole, HaveRuns, MakeInbox, rowVars, fileVars, workerVars
  <2>2. FilesTyped'
    BY <1>2 DEF QlibInv, FilesTyped, QlibTypeOK, Files, OutFiles, FileStates, HaveRuns, MakeInbox, rowVars, fileVars, workerVars
  <2>3. PackageInOrder'
    BY <1>2 DEF QlibInv, FilesTyped, QlibTypeOK, PackageInOrder, Files, HaveRuns, MakeInbox, rowVars, fileVars, workerVars
  <2>4. HaveRuns'
    BY <1>2 DEF QlibInv, FilesTyped, QlibTypeOK, HaveRuns, PackageInOrder, Files, OutFiles, MakeInbox, rowVars, fileVars, workerVars
  <2>5. \A u \in QlibWorkers : task'[u] \in QlibRuns \ doubled' => WorksOnWhole(u)'
    BY <1>2 DEF QlibInv, FilesTyped, QlibTypeOK, WorksOnWhole, HaveRuns, PackageInOrder, Files, OutFiles, MakeInbox, rowVars, fileVars, workerVars
  <2>6. \A s \in QlibRuns \ doubled' : OutOfWhole(s)'
    BY <1>2 DEF QlibInv, FilesTyped, QlibTypeOK, OutOfWhole, WorksOnWhole, HaveRuns, OutFiles, FileStates, MakeInbox, rowVars, fileVars, workerVars
  <2>7. QED
    BY <2>1, <2>2, <2>3, <2>4, <2>5, <2>6 DEF QlibInv
<1>3. ASSUME NEW r \in QlibRuns, submit_inbox_package(r) PROVE QlibInv'
  <2>1. QlibTypeOK'
    BY <1>3 DEF QlibInv, FilesTyped, QlibTypeOK, RunRows, MetricsRows, Files, OutFiles, FileStates, PackageInOrder, OutOfWhole, HaveRuns, submit_inbox_package, SubmitOrder, OpenFile, CloseFile, rowVars, fileVars, workerVars
  <2>2. FilesTyped'
    BY <1>3 DEF QlibInv, FilesTyped, QlibTypeOK, Files, OutFiles, FileStates, HaveRuns, submit_inbox_package, SubmitOrder, OpenFile, CloseFile, rowVars, fileVars, workerVars
  <2>3. PackageInOrder'
    BY <1>3 DEF QlibInv, FilesTyped, QlibTypeOK, PackageInOrder, Files, HaveRuns, submit_inbox_package, SubmitOrder, OpenFile, CloseFile, rowVars, fileVars, workerVars
  <2>4. HaveRuns'
    BY <1>3 DEF QlibInv, FilesTyped, QlibTypeOK, HaveRuns, PackageInOrder, Files, OutFiles, submit_inbox_package, SubmitOrder, OpenFile, CloseFile, rowVars, fileVars, workerVars
  <2>5. \A u \in QlibWorkers : task'[u] \in QlibRuns \ doubled' => WorksOnWhole(u)'
    <3> SUFFICES ASSUME NEW u \in QlibWorkers, task[u] \in QlibRuns \ doubled
                 PROVE  WorksOnWhole(u)'
      BY <1>3 DEF submit_inbox_package, workerVars
    <3>1. WorksOnWhole(u) /\ task[u] \in QlibRuns
      BY DEF QlibInv
    <3>2. inbox[task[u]]["csv"] = "whole" => inbox'[task[u]]["csv"] = "whole"
      <4>1. PICK n \in 1 .. 3 :
              LET f == SubmitOrder[n] IN
              \/ inbox[r][f] = "none" /\ inbox' = [inbox EXCEPT ![r] = OpenFile(@, f)]
              \/ inbox[r][f] = "torn"
                 /\ inbox' = [inbox EXCEPT ![r] =
                        CloseFile(@, f, IF f = "status" THEN "pending" ELSE "whole")]
        BY <1>3 DEF submit_inbox_package
      <4>2. SubmitOrder[1] = "csv" /\ SubmitOrder[2] = "manifest" /\ SubmitOrder[3] = "status"
        BY DEF SubmitOrder
      <4>3. inbox \in [QlibRuns -> [Files -> FileStates]]
        BY DEF QlibInv, FilesTyped
      <4>4. CASE n = 1
        BY <3>1, <4>1, <4>2, <4>3, <4>4 DEF OpenFile, CloseFile, Files
      <4>5. CASE n # 1
        <5>1. SubmitOrder[n] \in Files /\ SubmitOrder[n] # "csv"
          BY <4>1, <4>2, <4>5 DEF Files
        <5>2. QED
          <6> DEFINE f == SubmitOrder[n]
          <6>1. \E x : inbox' = [inbox EXCEPT ![r][f] = x]
            BY <4>1 DEF OpenFile, CloseFile
          <6> HIDE DEF f
          <6>2. f \in Files /\ f # "csv"
            BY <5>1 DEF f
          <6>3. QED
            BY <3>1, <4>3, <6>1, <6>2 DEF Files
      <4>6. QED
        BY <4>4, <4>5
    <3>3. UNCHANGED <<task, qat, proc, panel>>
      BY <1>3 DEF submit_inbox_package, workerVars
    <3>4. QED
      BY <3>1, <3>2, <3>3 DEF WorksOnWhole
  <2>6. \A s \in QlibRuns \ doubled' : OutOfWhole(s)'
    BY <1>3 DEF QlibInv, FilesTyped, QlibTypeOK, OutOfWhole, WorksOnWhole, HaveRuns, OutFiles, FileStates, submit_inbox_package, SubmitOrder, OpenFile, CloseFile, rowVars, fileVars, workerVars
  <2>7. QED
    BY <2>1, <2>2, <2>3, <2>4, <2>5, <2>6 DEF QlibInv
<1>4. ASSUME NEW r \in QlibRuns, SubmitFiled(r) PROVE QlibInv'
  <2>1. QlibTypeOK'
    BY <1>4 DEF QlibInv, FilesTyped, QlibTypeOK, RunRows, MetricsRows, Files, OutFiles, FileStates, PackageInOrder, OutOfWhole, HaveRuns, SubmitFiled, rowVars, fileVars, workerVars
  <2>2. FilesTyped'
    BY <1>4 DEF QlibInv, FilesTyped, QlibTypeOK, Files, OutFiles, FileStates, HaveRuns, SubmitFiled, rowVars, fileVars, workerVars
  <2>3. PackageInOrder'
    BY <1>4 DEF QlibInv, FilesTyped, QlibTypeOK, PackageInOrder, Files, HaveRuns, SubmitFiled, rowVars, fileVars, workerVars
  <2>4. HaveRuns'
    BY <1>4 DEF QlibInv, FilesTyped, QlibTypeOK, HaveRuns, PackageInOrder, Files, OutFiles, SubmitFiled, rowVars, fileVars, workerVars
  <2>5. \A u \in QlibWorkers : task'[u] \in QlibRuns \ doubled' => WorksOnWhole(u)'
    BY <1>4 DEF QlibInv, FilesTyped, QlibTypeOK, WorksOnWhole, HaveRuns, PackageInOrder, Files, OutFiles, SubmitFiled, rowVars, fileVars, workerVars
  <2>6. \A s \in QlibRuns \ doubled' : OutOfWhole(s)'
    BY <1>4 DEF QlibInv, FilesTyped, QlibTypeOK, OutOfWhole, WorksOnWhole, HaveRuns, OutFiles, FileStates, SubmitFiled, rowVars, fileVars, workerVars
  <2>7. QED
    BY <2>1, <2>2, <2>3, <2>4, <2>5, <2>6 DEF QlibInv
<1>5. ASSUME NEW r \in QlibRuns, SubmitEnds(r) PROVE QlibInv'
  <2>1. QlibTypeOK'
    BY <1>5 DEF QlibInv, FilesTyped, QlibTypeOK, RunRows, MetricsRows, Files, OutFiles, FileStates, PackageInOrder, OutOfWhole, HaveRuns, SubmitEnds, rowVars, fileVars, workerVars
  <2>2. FilesTyped'
    BY <1>5 DEF QlibInv, FilesTyped, QlibTypeOK, Files, OutFiles, FileStates, HaveRuns, SubmitEnds, rowVars, fileVars, workerVars
  <2>3. PackageInOrder'
    BY <1>5 DEF QlibInv, FilesTyped, QlibTypeOK, PackageInOrder, Files, HaveRuns, SubmitEnds, rowVars, fileVars, workerVars
  <2>4. HaveRuns'
    BY <1>5 DEF QlibInv, FilesTyped, QlibTypeOK, HaveRuns, PackageInOrder, Files, OutFiles, SubmitEnds, rowVars, fileVars, workerVars
  <2>5. \A u \in QlibWorkers : task'[u] \in QlibRuns \ doubled' => WorksOnWhole(u)'
    BY <1>5 DEF QlibInv, FilesTyped, QlibTypeOK, WorksOnWhole, HaveRuns, PackageInOrder, Files, OutFiles, SubmitEnds, rowVars, fileVars, workerVars
  <2>6. \A s \in QlibRuns \ doubled' : OutOfWhole(s)'
    BY <1>5 DEF QlibInv, FilesTyped, QlibTypeOK, OutOfWhole, WorksOnWhole, HaveRuns, OutFiles, FileStates, SubmitEnds, rowVars, fileVars, workerVars
  <2>7. QED
    BY <2>1, <2>2, <2>3, <2>4, <2>5, <2>6 DEF QlibInv
<1>6. ASSUME NEW r \in QlibRuns, import_bridge_result(r) PROVE QlibInv'
  <2>1. QlibTypeOK'
    BY <1>6 DEF QlibInv, FilesTyped, QlibTypeOK, RunRows, MetricsRows, Files, OutFiles, FileStates, PackageInOrder, OutOfWhole, HaveRuns, import_bridge_result, validate_outbox, rowVars, fileVars, workerVars
  <2>2. FilesTyped'
    BY <1>6 DEF QlibInv, FilesTyped, QlibTypeOK, Files, OutFiles, FileStates, HaveRuns, import_bridge_result, validate_outbox, rowVars, fileVars, workerVars
  <2>3. PackageInOrder'
    BY <1>6 DEF QlibInv, FilesTyped, QlibTypeOK, PackageInOrder, Files, HaveRuns, import_bridge_result, validate_outbox, rowVars, fileVars, workerVars
  <2>4. HaveRuns'
    BY <1>6 DEF QlibInv, FilesTyped, QlibTypeOK, HaveRuns, PackageInOrder, Files, OutFiles, import_bridge_result, validate_outbox, rowVars, fileVars, workerVars
  <2>5. \A u \in QlibWorkers : task'[u] \in QlibRuns \ doubled' => WorksOnWhole(u)'
    BY <1>6 DEF QlibInv, FilesTyped, QlibTypeOK, WorksOnWhole, HaveRuns, PackageInOrder, Files, OutFiles, import_bridge_result, validate_outbox, rowVars, fileVars, workerVars
  <2>6. \A s \in QlibRuns \ doubled' : OutOfWhole(s)'
    BY <1>6 DEF QlibInv, FilesTyped, QlibTypeOK, OutOfWhole, WorksOnWhole, HaveRuns, OutFiles, FileStates, import_bridge_result, validate_outbox, rowVars, fileVars, workerVars
  <2>7. QED
    BY <2>1, <2>2, <2>3, <2>4, <2>5, <2>6 DEF QlibInv
<1>7. ASSUME NEW w \in QlibWorkers, Poll(w) PROVE QlibInv'
  <2>0. \E r \in QlibRuns : inbox[r]["status"] # "no" /\ qat[w] = "poll" /\ Take(w, r)
    <3> DEFINE first == CHOOSE r \in PendingInbox : \A s \in PendingInbox : r <= s
    <3>1. PendingInbox # {} /\ PendingInbox \subseteq Nat
      BY <1>7 DEF Poll, PendingInbox
    <3>2. \E r \in PendingInbox : \A s \in PendingInbox : r <= s
      BY <3>1, LeastNatural
    <3>3. first \in PendingInbox
      BY <3>2
    <3>4. qat[w] = "poll" /\ Take(w, first)
      BY <1>7 DEF Poll
    <3> HIDE DEF first
    <3>5. QED
      BY <3>3, <3>4 DEF PendingInbox
  <2>1. QlibTypeOK'
    BY <2>0 DEF QlibInv, FilesTyped, QlibTypeOK, RunRows, MetricsRows, Files, OutFiles, FileStates, PackageInOrder, OutOfWhole, HaveRuns, Take, rowVars, fileVars, workerVars
  <2>2. FilesTyped'
    BY <2>0 DEF QlibInv, FilesTyped, QlibTypeOK, Files, OutFiles, FileStates, HaveRuns, Take, rowVars, fileVars, workerVars
  <2>3. PackageInOrder'
    <3>1. UNCHANGED <<inbox, sub>>
      BY <2>0 DEF Take, fileVars
    <3>2. QED
      BY <3>1 DEF QlibInv, PackageInOrder
  <2>4. HaveRuns'
    BY <2>0 DEF QlibInv, FilesTyped, QlibTypeOK, HaveRuns, PackageInOrder, Files, OutFiles, Take, rowVars, fileVars, workerVars
  <2>5. \A u \in QlibWorkers : task'[u] \in QlibRuns \ doubled' => WorksOnWhole(u)'
    BY <2>0 DEF QlibInv, FilesTyped, QlibTypeOK, WorksOnWhole, HaveRuns, PackageInOrder, Files, OutFiles, Take, rowVars, fileVars, workerVars
  <2>6. \A s \in QlibRuns \ doubled' : OutOfWhole(s)'
    BY <2>0 DEF QlibInv, FilesTyped, QlibTypeOK, OutOfWhole, WorksOnWhole, HaveRuns, OutFiles, FileStates, Take, rowVars, fileVars, workerVars
  <2>7. QED
    BY <2>1, <2>2, <2>3, <2>4, <2>5, <2>6 DEF QlibInv
<1>8. ASSUME NEW w \in QlibWorkers, RunById(w) PROVE QlibInv'
  <2>1. QlibTypeOK'
    BY <1>8 DEF QlibInv, FilesTyped, QlibTypeOK, RunRows, MetricsRows, Files, OutFiles, FileStates, PackageInOrder, OutOfWhole, HaveRuns, RunById, Take, rowVars, fileVars, workerVars
  <2>2. FilesTyped'
    BY <1>8 DEF QlibInv, FilesTyped, QlibTypeOK, Files, OutFiles, FileStates, HaveRuns, RunById, Take, rowVars, fileVars, workerVars
  <2>3. PackageInOrder'
    <3>1. UNCHANGED <<inbox, sub>>
      BY <1>8 DEF RunById, Take, fileVars
    <3>2. QED
      BY <3>1 DEF QlibInv, PackageInOrder
  <2>4. HaveRuns'
    BY <1>8 DEF QlibInv, FilesTyped, QlibTypeOK, HaveRuns, PackageInOrder, Files, OutFiles, RunById, Take, rowVars, fileVars, workerVars
  <2>5. \A u \in QlibWorkers : task'[u] \in QlibRuns \ doubled' => WorksOnWhole(u)'
    BY <1>8 DEF QlibInv, FilesTyped, QlibTypeOK, WorksOnWhole, HaveRuns, PackageInOrder, Files, OutFiles, RunById, Take, rowVars, fileVars, workerVars
  <2>6. \A s \in QlibRuns \ doubled' : OutOfWhole(s)'
    BY <1>8 DEF QlibInv, FilesTyped, QlibTypeOK, OutOfWhole, WorksOnWhole, HaveRuns, OutFiles, FileStates, RunById, Take, rowVars, fileVars, workerVars
  <2>7. QED
    BY <2>1, <2>2, <2>3, <2>4, <2>5, <2>6 DEF QlibInv
<1>9. ASSUME NEW w \in QlibWorkers, CopyStarts(w) PROVE QlibInv'
  <2>1. QlibTypeOK'
    BY <1>9 DEF QlibInv, FilesTyped, QlibTypeOK, RunRows, MetricsRows, Files, OutFiles, FileStates, PackageInOrder, OutOfWhole, HaveRuns, CopyStarts, rowVars, fileVars, workerVars
  <2>2. FilesTyped'
    BY <1>9 DEF QlibInv, FilesTyped, QlibTypeOK, Files, OutFiles, FileStates, HaveRuns, CopyStarts, rowVars, fileVars, workerVars
  <2>3. PackageInOrder'
    BY <1>9 DEF QlibInv, FilesTyped, QlibTypeOK, PackageInOrder, Files, HaveRuns, CopyStarts, rowVars, fileVars, workerVars
  <2>4. HaveRuns'
    BY <1>9 DEF QlibInv, FilesTyped, QlibTypeOK, HaveRuns, PackageInOrder, Files, OutFiles, CopyStarts, rowVars, fileVars, workerVars
  <2>5. \A u \in QlibWorkers : task'[u] \in QlibRuns \ doubled' => WorksOnWhole(u)'
    <3> SUFFICES ASSUME NEW u \in QlibWorkers, task[u] \in QlibRuns \ doubled
                 PROVE  WorksOnWhole(u)'
      BY <1>9 DEF CopyStarts
    <3>1. CASE u = w
      <4>1. qat'[u] = "copying"
        BY <1>9, <3>1 DEF CopyStarts, QlibInv, FilesTyped
      <4>2. /\ proc'[task[u]]["manifest"] = IF inbox[task[u]]["manifest"] = "none" THEN "none" ELSE "torn"
            /\ proc'[task[u]]["csv"] = IF inbox[task[u]]["csv"] = "none" THEN "none" ELSE "torn"
        BY <1>9, <3>1 DEF CopyStarts, QlibInv, FilesTyped
      <4>3. inbox[task[u]]["csv"] # "no"
        BY DEF QlibInv, HaveRuns
      <4>4. inbox[task[u]]["manifest"] # "none" => inbox[task[u]]["csv"] = "whole"
        BY <4>3 DEF QlibInv, PackageInOrder
      <4>5. QED
        BY <1>9, <4>1, <4>2, <4>4 DEF WorksOnWhole, CopyStarts, OutFiles
    <3>2. CASE u # w
      <4>1. WorksOnWhole(u) /\ task[u] # task[w]
        BY <3>2 DEF QlibInv, HaveRuns
      <4>2. qat'[u] = qat[u] /\ proc'[task[u]] = proc[task[u]]
        BY <1>9, <3>2, <4>1 DEF CopyStarts, QlibInv, FilesTyped
      <4>3. QED
        BY <1>9, <4>1, <4>2 DEF WorksOnWhole, CopyStarts
    <3>3. QED
      BY <3>1, <3>2
  <2>6. \A s \in QlibRuns \ doubled' : OutOfWhole(s)'
    BY <1>9 DEF QlibInv, FilesTyped, QlibTypeOK, OutOfWhole, WorksOnWhole, HaveRuns, OutFiles, FileStates, CopyStarts, rowVars, fileVars, workerVars
  <2>7. QED
    BY <2>1, <2>2, <2>3, <2>4, <2>5, <2>6 DEF QlibInv
<1>10. ASSUME NEW w \in QlibWorkers, CopyEnds(w) PROVE QlibInv'
  <2>1. QlibTypeOK'
    BY <1>10 DEF QlibInv, FilesTyped, QlibTypeOK, RunRows, MetricsRows, Files, OutFiles, FileStates, PackageInOrder, OutOfWhole, HaveRuns, CopyEnds, rowVars, fileVars, workerVars
  <2>2. FilesTyped'
    BY <1>10 DEF QlibInv, FilesTyped, QlibTypeOK, Files, OutFiles, FileStates, HaveRuns, CopyEnds, rowVars, fileVars, workerVars
  <2>3. PackageInOrder'
    BY <1>10 DEF QlibInv, FilesTyped, QlibTypeOK, PackageInOrder, Files, HaveRuns, CopyEnds, rowVars, fileVars, workerVars
  <2>4. HaveRuns'
    BY <1>10 DEF QlibInv, FilesTyped, QlibTypeOK, HaveRuns, PackageInOrder, Files, OutFiles, CopyEnds, rowVars, fileVars, workerVars
  <2>5. \A u \in QlibWorkers : task'[u] \in QlibRuns \ doubled' => WorksOnWhole(u)'
    BY <1>10 DEF QlibInv, FilesTyped, QlibTypeOK, WorksOnWhole, HaveRuns, PackageInOrder, Files, OutFiles, CopyEnds, rowVars, fileVars, workerVars
  <2>6. \A s \in QlibRuns \ doubled' : OutOfWhole(s)'
    BY <1>10 DEF QlibInv, FilesTyped, QlibTypeOK, OutOfWhole, WorksOnWhole, HaveRuns, OutFiles, FileStates, CopyEnds, rowVars, fileVars, workerVars
  <2>7. QED
    BY <2>1, <2>2, <2>3, <2>4, <2>5, <2>6 DEF QlibInv
<1>11. ASSUME NEW w \in QlibWorkers, Experiment(w) PROVE QlibInv'
  <2>1. QlibTypeOK'
    BY <1>11 DEF QlibInv, FilesTyped, QlibTypeOK, RunRows, MetricsRows, Files, OutFiles, FileStates, PackageInOrder, OutOfWhole, HaveRuns, Experiment, rowVars, fileVars, workerVars
  <2>2. FilesTyped'
    BY <1>11 DEF QlibInv, FilesTyped, QlibTypeOK, Files, OutFiles, FileStates, HaveRuns, Experiment, rowVars, fileVars, workerVars
  <2>3. PackageInOrder'
    BY <1>11 DEF QlibInv, FilesTyped, QlibTypeOK, PackageInOrder, Files, HaveRuns, Experiment, rowVars, fileVars, workerVars
  <2>4. HaveRuns'
    BY <1>11 DEF QlibInv, FilesTyped, QlibTypeOK, HaveRuns, PackageInOrder, Files, OutFiles, Experiment, rowVars, fileVars, workerVars
  <2>5. \A u \in QlibWorkers : task'[u] \in QlibRuns \ doubled' => WorksOnWhole(u)'
    BY <1>11 DEF QlibInv, FilesTyped, QlibTypeOK, WorksOnWhole, HaveRuns, PackageInOrder, Files, OutFiles, Experiment, rowVars, fileVars, workerVars
  <2>6. \A s \in QlibRuns \ doubled' : OutOfWhole(s)'
    BY <1>11 DEF QlibInv, FilesTyped, QlibTypeOK, OutOfWhole, WorksOnWhole, HaveRuns, OutFiles, FileStates, Experiment, rowVars, fileVars, workerVars
  <2>7. QED
    BY <2>1, <2>2, <2>3, <2>4, <2>5, <2>6 DEF QlibInv
<1>12. ASSUME NEW w \in QlibWorkers, WriteOutbox(w) PROVE QlibInv'
  <2>1. QlibTypeOK'
    BY <1>12 DEF QlibInv, FilesTyped, QlibTypeOK, RunRows, MetricsRows, Files, OutFiles, FileStates, PackageInOrder, OutOfWhole, HaveRuns, WriteOutbox, OutOrder, OpenFile, CloseFile, OutContents, rowVars, fileVars, workerVars
  <2>2. FilesTyped'
    BY <1>12 DEF QlibInv, FilesTyped, QlibTypeOK, Files, OutFiles, FileStates, HaveRuns, WriteOutbox, OutOrder, OpenFile, CloseFile, OutContents, rowVars, fileVars, workerVars
  <2>3. PackageInOrder'
    BY <1>12 DEF QlibInv, FilesTyped, QlibTypeOK, PackageInOrder, Files, HaveRuns, WriteOutbox, OutOrder, OpenFile, CloseFile, OutContents, rowVars, fileVars, workerVars
  <2>4. HaveRuns'
    BY <1>12 DEF QlibInv, FilesTyped, QlibTypeOK, HaveRuns, PackageInOrder, Files, OutFiles, WriteOutbox, OutOrder, OpenFile, CloseFile, OutContents, rowVars, fileVars, workerVars
  <2>5. \A u \in QlibWorkers : task'[u] \in QlibRuns \ doubled' => WorksOnWhole(u)'
    BY <1>12 DEF QlibInv, FilesTyped, QlibTypeOK, WorksOnWhole, HaveRuns, PackageInOrder, Files, OutFiles, WriteOutbox, OutOrder, OpenFile, CloseFile, OutContents, rowVars, fileVars, workerVars
  <2>6. \A s \in QlibRuns \ doubled' : OutOfWhole(s)'
    BY <1>12 DEF QlibInv, FilesTyped, QlibTypeOK, OutOfWhole, WorksOnWhole, HaveRuns, OutFiles, FileStates, WriteOutbox, OutOrder, OpenFile, CloseFile, OutContents, rowVars, fileVars, workerVars
  <2>7. QED
    BY <2>1, <2>2, <2>3, <2>4, <2>5, <2>6 DEF QlibInv
<1>13. ASSUME NEW w \in QlibWorkers, MarkCompleted(w) PROVE QlibInv'
  <2>1. QlibTypeOK'
    BY <1>13 DEF QlibInv, FilesTyped, QlibTypeOK, RunRows, MetricsRows, Files, OutFiles, FileStates, PackageInOrder, OutOfWhole, HaveRuns, MarkCompleted, rowVars, fileVars, workerVars
  <2>2. FilesTyped'
    BY <1>13 DEF QlibInv, FilesTyped, QlibTypeOK, Files, OutFiles, FileStates, HaveRuns, MarkCompleted, rowVars, fileVars, workerVars
  <2>3. PackageInOrder'
    BY <1>13 DEF QlibInv, FilesTyped, QlibTypeOK, PackageInOrder, Files, HaveRuns, MarkCompleted, rowVars, fileVars, workerVars
  <2>4. HaveRuns'
    BY <1>13 DEF QlibInv, FilesTyped, QlibTypeOK, HaveRuns, PackageInOrder, Files, OutFiles, MarkCompleted, rowVars, fileVars, workerVars
  <2>5. \A u \in QlibWorkers : task'[u] \in QlibRuns \ doubled' => WorksOnWhole(u)'
    BY <1>13 DEF QlibInv, FilesTyped, QlibTypeOK, WorksOnWhole, HaveRuns, PackageInOrder, Files, OutFiles, MarkCompleted, rowVars, fileVars, workerVars
  <2>6. \A s \in QlibRuns \ doubled' : OutOfWhole(s)'
    BY <1>13 DEF QlibInv, FilesTyped, QlibTypeOK, OutOfWhole, WorksOnWhole, HaveRuns, OutFiles, FileStates, MarkCompleted, rowVars, fileVars, workerVars
  <2>7. QED
    BY <2>1, <2>2, <2>3, <2>4, <2>5, <2>6 DEF QlibInv
<1>14. ASSUME NEW w \in QlibWorkers, RemoveCopy(w) PROVE QlibInv'
  <2>1. QlibTypeOK'
    BY <1>14 DEF QlibInv, FilesTyped, QlibTypeOK, RunRows, MetricsRows, Files, OutFiles, FileStates, PackageInOrder, OutOfWhole, HaveRuns, RemoveCopy, WorkerIdle, rowVars, fileVars, workerVars
  <2>2. FilesTyped'
    BY <1>14 DEF QlibInv, FilesTyped, QlibTypeOK, Files, OutFiles, FileStates, HaveRuns, RemoveCopy, WorkerIdle, rowVars, fileVars, workerVars
  <2>3. PackageInOrder'
    BY <1>14 DEF QlibInv, FilesTyped, QlibTypeOK, PackageInOrder, Files, HaveRuns, RemoveCopy, WorkerIdle, rowVars, fileVars, workerVars
  <2>4. HaveRuns'
    BY <1>14 DEF QlibInv, FilesTyped, QlibTypeOK, HaveRuns, PackageInOrder, Files, OutFiles, RemoveCopy, WorkerIdle, rowVars, fileVars, workerVars
  <2>5. \A u \in QlibWorkers : task'[u] \in QlibRuns \ doubled' => WorksOnWhole(u)'
    BY <1>14 DEF QlibInv, FilesTyped, QlibTypeOK, WorksOnWhole, HaveRuns, PackageInOrder, Files, OutFiles, RemoveCopy, WorkerIdle, rowVars, fileVars, workerVars
  <2>6. \A s \in QlibRuns \ doubled' : OutOfWhole(s)'
    BY <1>14 DEF QlibInv, FilesTyped, QlibTypeOK, OutOfWhole, WorksOnWhole, HaveRuns, OutFiles, FileStates, RemoveCopy, WorkerIdle, rowVars, fileVars, workerVars
  <2>7. QED
    BY <2>1, <2>2, <2>3, <2>4, <2>5, <2>6 DEF QlibInv
<1>15. ASSUME NEW w \in QlibWorkers, FailOutbox(w) PROVE QlibInv'
  <2>1. QlibTypeOK'
    BY <1>15 DEF QlibInv, FilesTyped, QlibTypeOK, RunRows, MetricsRows, Files, OutFiles, FileStates, PackageInOrder, OutOfWhole, HaveRuns, FailOutbox, rowVars, fileVars, workerVars
  <2>2. FilesTyped'
    BY <1>15 DEF QlibInv, FilesTyped, QlibTypeOK, Files, OutFiles, FileStates, HaveRuns, FailOutbox, rowVars, fileVars, workerVars
  <2>3. PackageInOrder'
    BY <1>15 DEF QlibInv, FilesTyped, QlibTypeOK, PackageInOrder, Files, HaveRuns, FailOutbox, rowVars, fileVars, workerVars
  <2>4. HaveRuns'
    BY <1>15 DEF QlibInv, FilesTyped, QlibTypeOK, HaveRuns, PackageInOrder, Files, OutFiles, FailOutbox, rowVars, fileVars, workerVars
  <2>5. \A u \in QlibWorkers : task'[u] \in QlibRuns \ doubled' => WorksOnWhole(u)'
    BY <1>15 DEF QlibInv, FilesTyped, QlibTypeOK, WorksOnWhole, HaveRuns, PackageInOrder, Files, OutFiles, FailOutbox, rowVars, fileVars, workerVars
  <2>6. \A s \in QlibRuns \ doubled' : OutOfWhole(s)'
    BY <1>15 DEF QlibInv, FilesTyped, QlibTypeOK, OutOfWhole, WorksOnWhole, HaveRuns, OutFiles, FileStates, FailOutbox, rowVars, fileVars, workerVars
  <2>7. QED
    BY <2>1, <2>2, <2>3, <2>4, <2>5, <2>6 DEF QlibInv
<1>16. ASSUME NEW w \in QlibWorkers, MarkFailed(w) PROVE QlibInv'
  <2>1. QlibTypeOK'
    BY <1>16 DEF QlibInv, FilesTyped, QlibTypeOK, RunRows, MetricsRows, Files, OutFiles, FileStates, PackageInOrder, OutOfWhole, HaveRuns, MarkFailed, WorkerIdle, rowVars, fileVars, workerVars
  <2>2. FilesTyped'
    BY <1>16 DEF QlibInv, FilesTyped, QlibTypeOK, Files, OutFiles, FileStates, HaveRuns, MarkFailed, WorkerIdle, rowVars, fileVars, workerVars
  <2>3. PackageInOrder'
    BY <1>16 DEF QlibInv, FilesTyped, QlibTypeOK, PackageInOrder, Files, HaveRuns, MarkFailed, WorkerIdle, rowVars, fileVars, workerVars
  <2>4. HaveRuns'
    BY <1>16 DEF QlibInv, FilesTyped, QlibTypeOK, HaveRuns, PackageInOrder, Files, OutFiles, MarkFailed, WorkerIdle, rowVars, fileVars, workerVars
  <2>5. \A u \in QlibWorkers : task'[u] \in QlibRuns \ doubled' => WorksOnWhole(u)'
    BY <1>16 DEF QlibInv, FilesTyped, QlibTypeOK, WorksOnWhole, HaveRuns, PackageInOrder, Files, OutFiles, MarkFailed, WorkerIdle, rowVars, fileVars, workerVars
  <2>6. \A s \in QlibRuns \ doubled' : OutOfWhole(s)'
    BY <1>16 DEF QlibInv, FilesTyped, QlibTypeOK, OutOfWhole, WorksOnWhole, HaveRuns, OutFiles, FileStates, MarkFailed, WorkerIdle, rowVars, fileVars, workerVars
  <2>7. QED
    BY <2>1, <2>2, <2>3, <2>4, <2>5, <2>6 DEF QlibInv
<1>17. ASSUME NEW w \in QlibWorkers, WorkerDies(w) PROVE QlibInv'
  <2>1. QlibTypeOK'
    BY <1>17 DEF QlibInv, FilesTyped, QlibTypeOK, RunRows, MetricsRows, Files, OutFiles, FileStates, PackageInOrder, OutOfWhole, HaveRuns, WorkerDies, WorkerIdle, rowVars, fileVars, workerVars
  <2>2. FilesTyped'
    BY <1>17 DEF QlibInv, FilesTyped, QlibTypeOK, Files, OutFiles, FileStates, HaveRuns, WorkerDies, WorkerIdle, rowVars, fileVars, workerVars
  <2>3. PackageInOrder'
    BY <1>17 DEF QlibInv, FilesTyped, QlibTypeOK, PackageInOrder, Files, HaveRuns, WorkerDies, WorkerIdle, rowVars, fileVars, workerVars
  <2>4. HaveRuns'
    BY <1>17 DEF QlibInv, FilesTyped, QlibTypeOK, HaveRuns, PackageInOrder, Files, OutFiles, WorkerDies, WorkerIdle, rowVars, fileVars, workerVars
  <2>5. \A u \in QlibWorkers : task'[u] \in QlibRuns \ doubled' => WorksOnWhole(u)'
    BY <1>17 DEF QlibInv, FilesTyped, QlibTypeOK, WorksOnWhole, HaveRuns, PackageInOrder, Files, OutFiles, WorkerDies, WorkerIdle, rowVars, fileVars, workerVars
  <2>6. \A s \in QlibRuns \ doubled' : OutOfWhole(s)'
    BY <1>17 DEF QlibInv, FilesTyped, QlibTypeOK, OutOfWhole, WorksOnWhole, HaveRuns, OutFiles, FileStates, WorkerDies, WorkerIdle, rowVars, fileVars, workerVars
  <2>7. QED
    BY <2>1, <2>2, <2>3, <2>4, <2>5, <2>6 DEF QlibInv
<1>18. CASE UNCHANGED qlibVars
  BY <1>18 DEF qlibVars, rowVars, fileVars, workerVars, QlibInv, FilesTyped, QlibTypeOK, PackageInOrder, HaveRuns, WorksOnWhole, OutOfWhole
<1>19. QED
  BY <1>1, <1>2, <1>3, <1>4, <1>5, <1>6, <1>7, <1>8, <1>9, <1>10, <1>11, <1>12, <1>13, <1>14, <1>15, <1>16, <1>17, <1>18 DEF QlibNext

\* Every variable of the bridge keeps its type.
THEOREM QlibTypeCorrect == QlibSpec => []QlibTypeOK
<1>1. QlibInv => QlibTypeOK
  BY DEF QlibInv
<1>2. QED
  BY <1>1, QlibStart, QlibStep, PTL DEF QlibSpec

\* What the service imports was computed from a whole panel and left nothing out, for
\* any number of runs and workers, wherever a worker or the service stops; only a run
\* that two workers had at a time is excepted.
THEOREM ImportedIsWhole == QlibSpec => []CompletedFromWhole
<1>1. QlibInv => CompletedFromWhole
  BY DEF QlibInv, OutOfWhole, CompletedFromWhole
<1>2. QED
  BY <1>1, QlibStart, QlibStep, PTL DEF QlibSpec

-----------------------------------------------------------------------------
(* Fast runs.                                                              *)

Fasts == [job : {"none", "queued", "pending", "running", "completed", "failed"}, row : FastRows,
          report : {"none", "pending", "completed", "failed"},
          ledger : SUBSET {"reserve", "commit", "refund"}]
FastPCs == {"idle", "new", "collecting", "thinking", "over"}
FastStages == {"none", "queued", "rejected", "collecting", "reasoning", "completed", "failed"}
SomeJobs == FastJobs \union {CHOOSE j \in FastJobs : TRUE}

FastTyped ==
    /\ fast \in [FastJobs -> Fasts]
    /\ snap \in [FastJobs -> [stage : FastStages, sources : BOOLEAN]]
    /\ buffer \in [FastJobs -> FastStages]
    /\ frun \in [FastRuns -> [job : SomeJobs, pc : FastPCs]]
    /\ flusher \in [Flushers -> [pc : {"free", "copied", "writing"}, job : SomeJobs,
                                 stage : FastStages, sources : BOOLEAN]]

InsidePCs == {"new", "collecting", "thinking"}
Under(r, j) == frun[r].job = j /\ frun[r].pc \in InsidePCs

\* What runs, is buffered, is flushed or was collected belongs to a job that was created.
Known ==
    /\ \A r \in FastRuns : frun[r].pc # "idle" => frun[r].job \in FastJobs /\ fast[frun[r].job].job # "none"
    /\ \A j \in FastJobs : buffer[j] # "none" \/ snap[j].sources => fast[j].job # "none"
    /\ \A t \in Flushers : flusher[t].pc # "free" =>
         flusher[t].job \in FastJobs /\ fast[flusher[t].job].job # "none"

\* What a thread that is about to write has read is what the row says.
RowHeld == \A t \in Flushers :
    flusher[t].pc = "writing" => flusher[t].sources = snap[flusher[t].job].sources

\* A job that was never run twice at a time has one run, which ends the job; its sources
\* are there, and it is refunded, when that run is over.
OneStory(j) ==
    /\ \A q, r \in FastRuns : Under(q, j) /\ Under(r, j) => q = r
    /\ snap[j].sources => fast[j].job \in {"completed", "failed"} /\ \A r \in FastRuns : ~Under(r, j)
    /\ j \notin cut /\ "refund" \in fast[j].ledger =>
         fast[j].job = "failed" /\ \A r \in FastRuns : ~Under(r, j)

\* What the last run of a job wrote.
Agrees(j) ==
    (\A r \in FastRuns : ~Under(r, j)) /\ fast[j].job \in {"completed", "failed"} =>
        /\ fast[j].job = fast[j].report
        /\ fast[j].row = IF fast[j].job = "completed" THEN "done" ELSE "failed"
        /\ fast[j].job = "failed" /\ "reserve" \in fast[j].ledger => "refund" \in fast[j].ledger

FastInv ==
    /\ FastTyped /\ Known /\ RowHeld
    /\ \A j \in FastJobs \ twice : OneStory(j)
    /\ \A j \in FastJobs \ cut : Agrees(j)

\* At first no fast analysis was asked for.
LEMMA FastStart == FastInit => FastInv
<1> SUFFICES ASSUME FastInit PROVE FastInv
  OBVIOUS
<1>1. FastTyped
  BY DEF FastInit, FastTyped, Fasts, FastRows, FastPCs, FastStages, SomeJobs, NoFast
<1>2. Known
  BY DEF FastInit, Known, NoFast
<1>3. RowHeld
  BY DEF FastInit, RowHeld
<1>4. \A j \in FastJobs : OneStory(j)
  BY DEF FastInit, OneStory, Under, InsidePCs, NoFast
<1>5. \A j \in FastJobs : Agrees(j)
  BY DEF FastInit, Agrees, NoFast
<1>6. QED
  BY <1>1, <1>2, <1>3, <1>4, <1>5 DEF FastInv

\* A run is started on a job.
LEMMA RunStarts ==
    ASSUME FastTyped, NEW j \in FastJobs, Run(j)
    PROVE  \E r \in FastRuns :
             /\ frun[r].pc = "idle" /\ frun' = [frun EXCEPT ![r] = [job |-> j, pc |-> "new"]]
             /\ frun' \in [FastRuns -> [job : SomeJobs, pc : FastPCs]]
             /\ twice \subseteq twice' /\ twice' \subseteq twice \union {j}
             /\ j \notin twice' => \A q \in FastRuns : ~Under(q, j)
<1>1. PICK r \in FastRuns :
        frun[r].pc = "idle" /\ frun' = [frun EXCEPT ![r] = [job |-> j, pc |-> "new"]]
  BY DEF Run, IdleRuns
<1>2. frun' \in [FastRuns -> [job : SomeJobs, pc : FastPCs]]
  BY <1>1 DEF FastTyped, SomeJobs, FastPCs
<1>3. twice' = IF InRun(j) # {} THEN twice \union {j} ELSE twice
  BY DEF Run
<1>4. InRun(j) = {} => \A q \in FastRuns : ~Under(q, j)
  BY DEF InRun, Under, InsidePCs
<1>5. QED
  BY <1>1, <1>2, <1>3, <1>4

\* The first commit of a success completes the job.
LEMMA CompletedSays ==
    ASSUME NEW x \in Fasts, NEW k \in Nat, k >= 1
    PROVE  Completed(x, k).job = "completed"
  BY DEF Completed, Fasts

\* The commits of a success and of a failure keep the type of a row.
LEMMA CommitsTyped ==
    ASSUME NEW x \in Fasts, NEW k \in 0 .. 3
    PROVE  /\ Completed(x, k) \in Fasts /\ Failed(x, k) \in Fasts
           /\ Completed(x, k).job \in {x.job, "completed"} /\ Failed(x, k).job \in {x.job, "failed"}
<1>1. /\ x.ledger \union {"commit"} \in SUBSET {"reserve", "commit", "refund"}
      /\ x.ledger \union {"refund"} \in SUBSET {"reserve", "commit", "refund"}
      /\ x.ledger \union {"reserve"} \in SUBSET {"reserve", "commit", "refund"}
  BY DEF Fasts
<1>2. QED
  BY <1>1 DEF Completed, Failed, Fasts, FastRows

\* A status and a reservation keep the type of a row.
LEMMA RowsTyped ==
    ASSUME NEW x \in Fasts,
           NEW s \in {"none", "queued", "pending", "running", "completed", "failed"}
    PROVE  /\ [x EXCEPT !.job = s] \in Fasts
           /\ [x EXCEPT !.job = s, !.ledger = @ \union {"reserve"}] \in Fasts
<1>1. x.ledger \union {"reserve"} \in SUBSET {"reserve", "commit", "refund"}
  BY DEF Fasts
<1>2. QED
  BY <1>1 DEF Fasts

\* Every step of a run, of a flushing thread and of a crash keeps the story of a job.
LEMMA FastStep == FastInv /\ [FastNext]_fastVars => FastInv'
<1> SUFFICES ASSUME FastInv, [FastNext]_fastVars PROVE FastInv'
  OBVIOUS
<1> USE DEF FastRows
<1>t. FastTyped /\ Known
  BY DEF FastInv
<1>1. ASSUME NEW j \in FastJobs, CreateFast(j) PROVE FastInv'
  <2>1. FastTyped'
    <3>1. fast' \in [FastJobs -> Fasts]
      BY <1>t, <1>1 DEF FastTyped, Fasts, FastPCs, FastStages, Known, InsidePCs, SomeJobs, CreateFast, Run, NoFast, IdleRuns
    <3>2. snap' \in [FastJobs -> [stage : FastStages, sources : BOOLEAN]]
      BY <1>t, <1>1 DEF FastTyped, Fasts, FastPCs, FastStages, Known, InsidePCs, SomeJobs, CreateFast, Run, NoFast, IdleRuns
    <3>3. buffer' \in [FastJobs -> FastStages]
      BY <1>t, <1>1 DEF FastTyped, Fasts, FastPCs, FastStages, Known, InsidePCs, SomeJobs, CreateFast, Run, NoFast, IdleRuns
    <3>4. frun' \in [FastRuns -> [job : SomeJobs, pc : FastPCs]]
      BY <1>t, <1>1, RunStarts DEF FastTyped, Fasts, FastPCs, FastStages, Known, InsidePCs, SomeJobs, CreateFast
    <3>5. flusher' \in [Flushers -> [pc : {"free", "copied", "writing"}, job : SomeJobs, stage : FastStages, sources : BOOLEAN]]
      BY <1>t, <1>1 DEF FastTyped, Fasts, FastPCs, FastStages, Known, InsidePCs, SomeJobs, CreateFast, Run, NoFast, IdleRuns
    <3>6. QED
      BY <3>1, <3>2, <3>3, <3>4, <3>5 DEF FastTyped
  <2>2. Known'
    <3>1. /\ fast[j].job = "none" /\ fast'[j].job # "none" /\ ~snap'[j].sources
          /\ \A i \in FastJobs : i # j => fast'[i] = fast[i] /\ snap'[i] = snap[i]
          /\ buffer' = buffer /\ flusher' = flusher
      BY <1>t, <1>1 DEF CreateFast, NoFast, FastTyped
    <3>2. \A q \in FastRuns : frun'[q] = frun[q] \/ frun'[q].job = j
      BY <1>t, <1>1 DEF CreateFast, Run, FastTyped
    <3>3. QED
      BY <1>t, <3>1, <3>2 DEF Known
  <2>3. RowHeld'
    <3>1. /\ \A i \in FastJobs : i # j => snap'[i] = snap[i]
          /\ flusher' = flusher /\ fast[j].job = "none"
      BY <1>t, <1>1 DEF FastTyped, CreateFast, NoFast
    <3>2. RowHeld
      BY DEF FastInv
    <3>3. QED
      BY <1>t, <3>1, <3>2 DEF Known, RowHeld
  <2>4. \A i \in FastJobs \ twice' : OneStory(i)'
    <3> SUFFICES ASSUME NEW i \in FastJobs \ twice' PROVE OneStory(i)'
      OBVIOUS
    <3>1. PICK way \in {"pending", "queued", "failed"} :
            /\ fast' = [fast EXCEPT ![j] = [job |-> way, row |-> IF way = "failed" THEN "failed" ELSE "running",
                            report |-> IF way = "failed" THEN "failed" ELSE "pending", ledger |-> {}]]
            /\ snap' = [snap EXCEPT ![j] = [stage |-> IF way = "failed" THEN "rejected" ELSE "queued",
                                            sources |-> FALSE]]
            /\ IF way = "pending" THEN Run(j) ELSE UNCHANGED <<frun, twice>>
      BY <1>1 DEF CreateFast
    <3>2. fast[j].job = "none" /\ cut' = cut
      BY <1>1 DEF CreateFast, NoFast
    <3>3. \A q \in FastRuns : ~Under(q, j)
      BY <1>t, <3>2 DEF Known, Under, InsidePCs
    <3>4. fast'[j].ledger = {} /\ snap'[j].sources = FALSE
      BY <1>t, <3>1 DEF FastTyped
    <3>5. twice \subseteq twice' /\ \A l \in FastJobs : l # j => fast'[l] = fast[l] /\ snap'[l] = snap[l]
      BY <1>t, <3>1, RunStarts DEF FastTyped
    <3>6. OneStory(i)
      BY <3>5 DEF FastInv
    <3>7. CASE way = "pending"
      <4>1. PICK r \in FastRuns : frun[r].pc = "idle" /\ frun' = [frun EXCEPT ![r] = [job |-> j, pc |-> "new"]]
        BY <1>t, <3>1, <3>7, RunStarts
      <4>2. \A q \in FastRuns : frun'[q] = IF q = r THEN [job |-> j, pc |-> "new"] ELSE frun[q]
        BY <1>t, <4>1 DEF FastTyped
      <4>3. \A q \in FastRuns : Under(q, i)' <=> Under(q, i) \/ (q = r /\ i = j)
        BY <4>1, <4>2 DEF Under, InsidePCs
      <4>4. CASE i = j
        BY <3>3, <3>4, <4>3, <4>4 DEF OneStory
      <4>5. CASE i # j
        BY <3>2, <3>5, <3>6, <4>3, <4>5 DEF OneStory
      <4>6. QED
        BY <4>4, <4>5
    <3>8. CASE way # "pending"
      <4>1. frun' = frun
        BY <3>1, <3>8
      <4>2. CASE i = j
        BY <3>3, <3>4, <4>1, <4>2 DEF OneStory, Under
      <4>3. CASE i # j
        BY <3>2, <3>5, <3>6, <4>1, <4>3 DEF OneStory, Under
      <4>4. QED
        BY <4>2, <4>3
    <3>9. QED
      BY <3>7, <3>8
  <2>5. \A i \in FastJobs \ cut' : Agrees(i)'
    <3> SUFFICES ASSUME NEW i \in FastJobs \ cut' PROVE Agrees(i)'
      OBVIOUS
    <3>1. PICK way \in {"pending", "queued", "failed"} :
            /\ fast' = [fast EXCEPT ![j] = [job |-> way, row |-> IF way = "failed" THEN "failed" ELSE "running",
                            report |-> IF way = "failed" THEN "failed" ELSE "pending", ledger |-> {}]]
            /\ IF way = "pending" THEN Run(j) ELSE UNCHANGED <<frun, twice>>
      BY <1>1 DEF CreateFast
    <3>2. cut' = cut
      BY <1>1 DEF CreateFast
    <3>3. CASE i = j
      <4>1. fast'[i] = [job |-> way, row |-> IF way = "failed" THEN "failed" ELSE "running",
                        report |-> IF way = "failed" THEN "failed" ELSE "pending", ledger |-> {}]
        BY <1>t, <3>1, <3>3 DEF FastTyped
      <4>2. QED
        BY <4>1 DEF Agrees
    <3>4. CASE i # j
      <4>1. fast'[i] = fast[i] /\ Agrees(i)
        BY <1>t, <3>1, <3>2, <3>4 DEF FastTyped, FastInv
      <4>2. \A r \in FastRuns : frun[r].pc # "idle" => frun'[r] = frun[r]
        <5>1. CASE way = "pending"
          BY <1>t, <3>1, <5>1, RunStarts DEF FastTyped
        <5>2. CASE way # "pending"
          BY <3>1, <5>2
        <5>3. QED
          BY <5>1, <5>2
      <4>3. \A r \in FastRuns : Under(r, i) => Under(r, i)'
        BY <4>2 DEF Under, InsidePCs
      <4>4. QED
        BY <4>1, <4>3 DEF Agrees
    <3>5. QED
      BY <3>3, <3>4
  <2>6. QED
    BY <2>1, <2>2, <2>3, <2>4, <2>5 DEF FastInv
<1>2. ASSUME NEW j \in FastJobs, AgainFast(j) PROVE FastInv'
  <2>1. FastTyped'
    <3>1. fast' \in [FastJobs -> Fasts]
      BY <1>t, <1>2 DEF FastTyped, Fasts, FastPCs, FastStages, Known, InsidePCs, SomeJobs, AgainFast, Run, IdleRuns
    <3>2. snap' \in [FastJobs -> [stage : FastStages, sources : BOOLEAN]]
      BY <1>t, <1>2 DEF FastTyped, Fasts, FastPCs, FastStages, Known, InsidePCs, SomeJobs, AgainFast, Run, IdleRuns
    <3>3. buffer' \in [FastJobs -> FastStages]
      BY <1>t, <1>2 DEF FastTyped, Fasts, FastPCs, FastStages, Known, InsidePCs, SomeJobs, AgainFast, Run, IdleRuns
    <3>4. frun' \in [FastRuns -> [job : SomeJobs, pc : FastPCs]]
      BY <1>t, <1>2, RunStarts DEF FastTyped, Fasts, FastPCs, FastStages, Known, InsidePCs, SomeJobs, AgainFast
    <3>5. flusher' \in [Flushers -> [pc : {"free", "copied", "writing"}, job : SomeJobs, stage : FastStages, sources : BOOLEAN]]
      BY <1>t, <1>2 DEF FastTyped, Fasts, FastPCs, FastStages, Known, InsidePCs, SomeJobs, AgainFast, Run, IdleRuns
    <3>6. QED
      BY <3>1, <3>2, <3>3, <3>4, <3>5 DEF FastTyped
  <2>2. Known'
    BY <1>2 DEF FastInv, FastTyped, Fasts, Known, InsidePCs, AgainFast, Run, IdleRuns
  <2>3. RowHeld'
    BY <1>2 DEF FastInv, FastTyped, Fasts, Known, RowHeld, AgainFast, Run, IdleRuns
  <2>4. \A i \in FastJobs \ twice' : OneStory(i)'
    <3>1. PICK r \in FastRuns :
             /\ frun[r].pc = "idle" /\ frun' = [frun EXCEPT ![r] = [job |-> j, pc |-> "new"]]
             /\ twice \subseteq twice' /\ twice' \subseteq twice \union {j}
             /\ j \notin twice' => \A q \in FastRuns : ~Under(q, j)
      BY <1>t, <1>2, RunStarts DEF AgainFast
    <3>2. \A i \in FastJobs \ twice' : OneStory(i)
      BY <3>1 DEF FastInv
    <3>3. \A q \in FastRuns : q # r => frun'[q] = frun[q]
      BY <1>t, <3>1 DEF FastTyped
    <3>4. frun'[r] = [job |-> j, pc |-> "new"]
      BY <1>t, <3>1 DEF FastTyped
    <3> SUFFICES ASSUME NEW i \in FastJobs \ twice' PROVE OneStory(i)'
      OBVIOUS
    <3>5. \A q \in FastRuns : Under(q, i)' <=> Under(q, i) \/ (q = r /\ i = j)
      BY <3>1, <3>3, <3>4 DEF Under, InsidePCs
    <3>6. snap' = snap /\ fast' = fast /\ cut' = cut /\ fast[j].job = "pending"
      BY <1>2 DEF AgainFast
    <3>7. QED
      BY <1>t, <1>2, <3>1, <3>2, <3>5, <3>6 DEF FastTyped, Fasts, OneStory, AgainFast
  <2>5. \A i \in FastJobs \ cut' : Agrees(i)'
    BY <1>2 DEF FastInv, FastTyped, Fasts, Known, Agrees, Under, InsidePCs, AgainFast, Run, IdleRuns
  <2>6. QED
    BY <2>1, <2>2, <2>3, <2>4, <2>5 DEF FastInv
<1>3. ASSUME NEW j \in FastJobs, DispatchFast(j) PROVE FastInv'
  <2>1. FastTyped'
    <3>1. fast' \in [FastJobs -> Fasts]
      <4>1. fast[j] \in Fasts /\ fast' = [fast EXCEPT ![j] = [@ EXCEPT !.job = "pending"]]
        BY <1>t, <1>3 DEF FastTyped, DispatchFast
      <4>2. QED
        BY <1>t, <4>1, RowsTyped DEF FastTyped
    <3>2. snap' \in [FastJobs -> [stage : FastStages, sources : BOOLEAN]]
      BY <1>t, <1>3 DEF FastTyped, Fasts, FastPCs, FastStages, Known, InsidePCs, SomeJobs, DispatchFast, Run, IdleRuns
    <3>3. buffer' \in [FastJobs -> FastStages]
      BY <1>t, <1>3 DEF FastTyped, Fasts, FastPCs, FastStages, Known, InsidePCs, SomeJobs, DispatchFast, Run, IdleRuns
    <3>4. frun' \in [FastRuns -> [job : SomeJobs, pc : FastPCs]]
      BY <1>t, <1>3, RunStarts DEF FastTyped, Fasts, FastPCs, FastStages, Known, InsidePCs, SomeJobs, DispatchFast
    <3>5. flusher' \in [Flushers -> [pc : {"free", "copied", "writing"}, job : SomeJobs, stage : FastStages, sources : BOOLEAN]]
      BY <1>t, <1>3 DEF FastTyped, Fasts, FastPCs, FastStages, Known, InsidePCs, SomeJobs, DispatchFast, Run, IdleRuns
    <3>6. QED
      BY <3>1, <3>2, <3>3, <3>4, <3>5 DEF FastTyped
  <2>2. Known'
    BY <1>3 DEF FastInv, FastTyped, Fasts, Known, InsidePCs, DispatchFast, Run, IdleRuns
  <2>3. RowHeld'
    BY <1>3 DEF FastInv, FastTyped, Fasts, Known, RowHeld, DispatchFast, Run, IdleRuns
  <2>4. \A i \in FastJobs \ twice' : OneStory(i)'
    <3>1. PICK r \in FastRuns :
             /\ frun[r].pc = "idle" /\ frun' = [frun EXCEPT ![r] = [job |-> j, pc |-> "new"]]
             /\ twice \subseteq twice' /\ twice' \subseteq twice \union {j}
             /\ j \notin twice' => \A q \in FastRuns : ~Under(q, j)
      BY <1>t, <1>3, RunStarts DEF DispatchFast
    <3>2. \A i \in FastJobs \ twice' : OneStory(i)
      BY <3>1 DEF FastInv
    <3>3. \A q \in FastRuns : q # r => frun'[q] = frun[q]
      BY <1>t, <3>1 DEF FastTyped
    <3>4. frun'[r] = [job |-> j, pc |-> "new"]
      BY <1>t, <3>1 DEF FastTyped
    <3> SUFFICES ASSUME NEW i \in FastJobs \ twice' PROVE OneStory(i)'
      OBVIOUS
    <3>5. \A q \in FastRuns : Under(q, i)' <=> Under(q, i) \/ (q = r /\ i = j)
      BY <3>1, <3>3, <3>4 DEF Under, InsidePCs
    <3>6. /\ snap' = snap /\ cut' = cut /\ fast[j].job = "queued"
          /\ fast'[i].job = (IF i = j THEN "pending" ELSE fast[i].job) /\ fast'[i].ledger = fast[i].ledger
      BY <1>t, <1>3 DEF DispatchFast, FastTyped, Fasts
    <3>7. QED
      BY <1>t, <1>3, <3>1, <3>2, <3>5, <3>6 DEF FastTyped, Fasts, OneStory, DispatchFast
  <2>5. \A i \in FastJobs \ cut' : Agrees(i)'
    BY <1>3 DEF FastInv, FastTyped, Fasts, Known, Agrees, Under, InsidePCs, DispatchFast, Run, IdleRuns
  <2>6. QED
    BY <2>1, <2>2, <2>3, <2>4, <2>5 DEF FastInv
<1>4. ASSUME NEW j \in FastJobs, CancelFast(j) PROVE FastInv'
  <2>1. FastTyped'
    <3>1. fast' \in [FastJobs -> Fasts]
      <4>1. fast[j] \in Fasts /\ fast' = [fast EXCEPT ![j] = [@ EXCEPT !.job = "failed"]]
        BY <1>t, <1>4 DEF FastTyped, CancelFast
      <4>2. QED
        BY <1>t, <4>1, RowsTyped DEF FastTyped
    <3>2. snap' \in [FastJobs -> [stage : FastStages, sources : BOOLEAN]]
      BY <1>t, <1>4 DEF FastTyped, Fasts, FastPCs, FastStages, Known, InsidePCs, SomeJobs, CancelFast
    <3>3. buffer' \in [FastJobs -> FastStages]
      BY <1>t, <1>4 DEF FastTyped, Fasts, FastPCs, FastStages, Known, InsidePCs, SomeJobs, CancelFast
    <3>4. frun' \in [FastRuns -> [job : SomeJobs, pc : FastPCs]]
      BY <1>t, <1>4 DEF FastTyped, Fasts, FastPCs, FastStages, Known, InsidePCs, SomeJobs, CancelFast
    <3>5. flusher' \in [Flushers -> [pc : {"free", "copied", "writing"}, job : SomeJobs, stage : FastStages, sources : BOOLEAN]]
      BY <1>t, <1>4 DEF FastTyped, Fasts, FastPCs, FastStages, Known, InsidePCs, SomeJobs, CancelFast
    <3>6. QED
      BY <3>1, <3>2, <3>3, <3>4, <3>5 DEF FastTyped
  <2>2. Known'
    BY <1>4 DEF FastInv, FastTyped, Fasts, Known, InsidePCs, CancelFast
  <2>3. RowHeld'
    BY <1>4 DEF FastInv, FastTyped, Fasts, Known, RowHeld, CancelFast
  <2>4. \A i \in FastJobs \ twice' : OneStory(i)'
    BY <1>4 DEF FastInv, FastTyped, Fasts, Known, OneStory, Under, InsidePCs, RowHeld, CancelFast
  <2>5. \A i \in FastJobs \ cut' : Agrees(i)'
    BY <1>4 DEF FastInv, FastTyped, Fasts, Known, Agrees, Under, InsidePCs, CancelFast
  <2>6. QED
    BY <2>1, <2>2, <2>3, <2>4, <2>5 DEF FastInv
<1>5. ASSUME NEW r \in FastRuns, BeginFast(r) PROVE FastInv'
  <2>1. FastTyped'
    <3>1. fast' \in [FastJobs -> Fasts]
      <4> DEFINE j == frun[r].job
      <4>1. j \in FastJobs /\ fast[j] \in Fasts
        BY <1>t, <1>5 DEF FastTyped, Known, BeginFast
      <4>2. PICK paid \in BOOLEAN :
              fast' = [fast EXCEPT ![j].job = "running",
                            ![j].ledger = IF paid THEN @ \union {"reserve"} ELSE @]
        BY <1>5 DEF BeginFast
      <4> DEFINE rows == IF paid THEN fast[j].ledger \union {"reserve"} ELSE fast[j].ledger
      <4>3. rows \in SUBSET {"reserve", "commit", "refund"}
        BY <4>1 DEF Fasts
      <4>4. fast' = [fast EXCEPT ![j].job = "running", ![j].ledger = rows]
        BY <4>2
      <4> HIDE DEF rows
      <4>5. [fast[j] EXCEPT !.job = "running", !.ledger = rows] \in Fasts
        BY <4>1, <4>3 DEF Fasts
      <4>6. fast' \in [FastJobs -> Fasts]
        BY <1>t, <4>1, <4>4, <4>5 DEF FastTyped
      <4>7. QED
        BY <4>6
    <3>2. snap' \in [FastJobs -> [stage : FastStages, sources : BOOLEAN]]
      BY <1>t, <1>5 DEF FastTyped, Fasts, FastPCs, FastStages, Known, InsidePCs, SomeJobs, BeginFast, Progress
    <3>3. buffer' \in [FastJobs -> FastStages]
      BY <1>t, <1>5 DEF FastTyped, Fasts, FastPCs, FastStages, Known, InsidePCs, SomeJobs, BeginFast, Progress
    <3>4. frun' \in [FastRuns -> [job : SomeJobs, pc : FastPCs]]
      BY <1>t, <1>5 DEF FastTyped, Fasts, FastPCs, FastStages, Known, InsidePCs, SomeJobs, BeginFast, Progress
    <3>5. flusher' \in [Flushers -> [pc : {"free", "copied", "writing"}, job : SomeJobs, stage : FastStages, sources : BOOLEAN]]
      BY <1>t, <1>5 DEF FastTyped, Fasts, FastPCs, FastStages, Known, InsidePCs, SomeJobs, BeginFast, Progress
    <3>6. QED
      BY <3>1, <3>2, <3>3, <3>4, <3>5 DEF FastTyped
  <2>2. Known'
    <3>1. frun[r].pc = "new" /\ frun[r].job \in FastJobs /\ fast[frun[r].job].job # "none"
      BY <1>t, <1>5 DEF BeginFast, Known
    <3>2. /\ frun' = [frun EXCEPT ![r].pc = "collecting"] /\ snap' = snap /\ flusher' = flusher
          /\ buffer' = [buffer EXCEPT ![frun[r].job] = "collecting"]
          /\ \A i \in FastJobs : fast'[i].job = IF i = frun[r].job THEN "running" ELSE fast[i].job
      BY <1>t, <1>5, <3>1 DEF BeginFast, Progress, FastTyped, Fasts
    <3>3. \A q \in FastRuns : frun'[q].job = frun[q].job /\ (frun'[q].pc # "idle" => frun[q].pc # "idle")
      BY <1>t, <3>1, <3>2 DEF FastTyped
    <3>4. \A i \in FastJobs : fast[i].job # "none" => fast'[i].job # "none"
      BY <3>2
    <3>5. \A i \in FastJobs : buffer'[i] # "none" => i = frun[r].job \/ buffer[i] # "none"
      BY <1>t, <3>2 DEF FastTyped
    <3>6. QED
      BY <1>t, <3>1, <3>2, <3>3, <3>4, <3>5 DEF Known
  <2>3. RowHeld'
    BY <1>5 DEF FastInv, FastTyped, Fasts, Known, RowHeld, BeginFast, Progress
  <2>4. \A i \in FastJobs \ twice' : OneStory(i)'
    BY <1>5 DEF FastInv, FastTyped, Fasts, Known, OneStory, Under, InsidePCs, RowHeld, BeginFast, Progress
  <2>5. \A i \in FastJobs \ cut' : Agrees(i)'
    BY <1>5 DEF FastInv, FastTyped, Fasts, Known, Agrees, Under, InsidePCs, BeginFast, Progress
  <2>6. QED
    BY <2>1, <2>2, <2>3, <2>4, <2>5 DEF FastInv
<1>6. ASSUME NEW r \in FastRuns, Reason(r) PROVE FastInv'
  <2>1. FastTyped'
    BY <1>6 DEF FastInv, FastTyped, Fasts, FastPCs, FastStages, Known, InsidePCs, SomeJobs, Reason, Progress
  <2>2. Known'
    BY <1>6 DEF FastInv, FastTyped, Fasts, Known, InsidePCs, Reason, Progress
  <2>3. RowHeld'
    BY <1>6 DEF FastInv, FastTyped, Fasts, Known, RowHeld, Reason, Progress
  <2>4. \A i \in FastJobs \ twice' : OneStory(i)'
    BY <1>6 DEF FastInv, FastTyped, Fasts, Known, OneStory, Under, InsidePCs, RowHeld, Reason, Progress
  <2>5. \A i \in FastJobs \ cut' : Agrees(i)'
    BY <1>6 DEF FastInv, FastTyped, Fasts, Known, Agrees, Under, InsidePCs, Reason, Progress
  <2>6. QED
    BY <2>1, <2>2, <2>3, <2>4, <2>5 DEF FastInv
<1>7. ASSUME NEW r \in FastRuns, FinishFast(r) PROVE FastInv'
  <2>1. FastTyped'
    <3>1. fast' \in [FastJobs -> Fasts]
      <4>1. frun[r].job \in FastJobs /\ fast[frun[r].job] \in Fasts
        BY <1>t, <1>7 DEF FastTyped, Known, FinishFast
      <4>2. fast' = [fast EXCEPT ![frun[r].job] = Completed(fast[frun[r].job], 3)]
        BY <1>7 DEF FinishFast, Leave
      <4>3. QED
        BY <1>t, <4>1, <4>2, CommitsTyped DEF FastTyped
    <3>2. snap' \in [FastJobs -> [stage : FastStages, sources : BOOLEAN]]
      BY <1>t, <1>7 DEF FastTyped, Fasts, FastPCs, FastStages, Known, InsidePCs, SomeJobs, FinishFast, Leave, Final, Completed, RowFree
    <3>3. buffer' \in [FastJobs -> FastStages]
      BY <1>t, <1>7 DEF FastTyped, Fasts, FastPCs, FastStages, Known, InsidePCs, SomeJobs, FinishFast, Leave, Final, Completed, RowFree
    <3>4. frun' \in [FastRuns -> [job : SomeJobs, pc : FastPCs]]
      BY <1>t, <1>7 DEF FastTyped, Fasts, FastPCs, FastStages, Known, InsidePCs, SomeJobs, FinishFast, Leave, Final, Completed, RowFree
    <3>5. flusher' \in [Flushers -> [pc : {"free", "copied", "writing"}, job : SomeJobs, stage : FastStages, sources : BOOLEAN]]
      BY <1>t, <1>7 DEF FastTyped, Fasts, FastPCs, FastStages, Known, InsidePCs, SomeJobs, FinishFast, Leave, Final, Completed, RowFree
    <3>6. QED
      BY <3>1, <3>2, <3>3, <3>4, <3>5 DEF FastTyped
  <2>2. Known'
    BY <1>7 DEF FastInv, FastTyped, Fasts, Known, InsidePCs, FinishFast, Leave, Final, Completed, RowFree
  <2>3. RowHeld'
    BY <1>7 DEF FastInv, FastTyped, Fasts, Known, RowHeld, FinishFast, Leave, Final, Completed, RowFree
  <2>4. \A i \in FastJobs \ twice' : OneStory(i)'
    BY <1>7 DEF FastInv, FastTyped, Fasts, Known, OneStory, Under, InsidePCs, RowHeld, FinishFast, Leave, Final, Completed, RowFree
  <2>5. \A i \in FastJobs \ cut' : Agrees(i)'
    BY <1>7 DEF FastInv, FastTyped, Fasts, Known, Agrees, Under, InsidePCs, FinishFast, Leave, Final, Completed, RowFree
  <2>6. QED
    BY <2>1, <2>2, <2>3, <2>4, <2>5 DEF FastInv
<1>8. ASSUME NEW r \in FastRuns, FailFast(r) PROVE FastInv'
  <2>1. FastTyped'
    <3>1. fast' \in [FastJobs -> Fasts]
      <4>1. frun[r].job \in FastJobs /\ fast[frun[r].job] \in Fasts
        BY <1>t, <1>8 DEF FastTyped, Known, FailFast
      <4>2. \E k \in 0 .. 2 : fast' = [fast EXCEPT ![frun[r].job] = Failed(Completed(fast[frun[r].job], k), 3)]
        <5>1. PICK k \in IF frun[r].pc = "thinking" THEN 0 .. 2 ELSE {0} :
                Leave(r, Failed(Completed(fast[frun[r].job], k), 3), "failed")
          BY <1>8 DEF FailFast
        <5>2. k \in 0 .. 2
          BY <5>1
        <5>3. fast' = [fast EXCEPT ![frun[r].job] = Failed(Completed(fast[frun[r].job], k), 3)]
          BY <5>1 DEF Leave
        <5>4. QED
          BY <5>2, <5>3
      <4>3. \E x \in Fasts : fast' = [fast EXCEPT ![frun[r].job] = x]
        <5>1. \A k \in 0 .. 2 : Failed(Completed(fast[frun[r].job], k), 3) \in Fasts
          BY <4>1, CommitsTyped
        <5>2. QED
          BY <4>2, <5>1
      <4>4. QED
        BY <1>t, <4>1, <4>3 DEF FastTyped
    <3>2. snap' \in [FastJobs -> [stage : FastStages, sources : BOOLEAN]]
      <4>1. snap' = Final(r, 3, "failed") /\ frun[r].job \in FastJobs
        BY <1>t, <1>8 DEF FastTyped, Known, FailFast, Leave
      <4>2. (frun[r].pc = "thinking") \in BOOLEAN
        OBVIOUS
      <4>3. QED
        BY <1>t, <4>1, <4>2 DEF FastTyped, Final, FastStages
    <3>3. buffer' \in [FastJobs -> FastStages]
      BY <1>t, <1>8 DEF FastTyped, Fasts, FastPCs, FastStages, Known, InsidePCs, SomeJobs, FailFast, Leave, Final, Completed, Failed, RowFree
    <3>4. frun' \in [FastRuns -> [job : SomeJobs, pc : FastPCs]]
      BY <1>t, <1>8 DEF FastTyped, Fasts, FastPCs, FastStages, Known, InsidePCs, SomeJobs, FailFast, Leave, Final, Completed, Failed, RowFree
    <3>5. flusher' \in [Flushers -> [pc : {"free", "copied", "writing"}, job : SomeJobs, stage : FastStages, sources : BOOLEAN]]
      BY <1>t, <1>8 DEF FastTyped, Fasts, FastPCs, FastStages, Known, InsidePCs, SomeJobs, FailFast, Leave, Final, Completed, Failed, RowFree
    <3>6. QED
      BY <3>1, <3>2, <3>3, <3>4, <3>5 DEF FastTyped
  <2>2. Known'
    BY <1>8 DEF FastInv, FastTyped, Fasts, Known, InsidePCs, FailFast, Leave, Final, Completed, Failed, RowFree
  <2>3. RowHeld'
    BY <1>8 DEF FastInv, FastTyped, Fasts, Known, RowHeld, FailFast, Leave, Final, Completed, Failed, RowFree
  <2>4. \A i \in FastJobs \ twice' : OneStory(i)'
    BY <1>8 DEF FastInv, FastTyped, Fasts, Known, OneStory, Under, InsidePCs, RowHeld, FailFast, Leave, Final, Completed, Failed, RowFree
  <2>5. \A i \in FastJobs \ cut' : Agrees(i)'
    BY <1>8 DEF FastInv, FastTyped, Fasts, Known, Agrees, Under, InsidePCs, FailFast, Leave, Final, Completed, Failed, RowFree
  <2>6. QED
    BY <2>1, <2>2, <2>3, <2>4, <2>5 DEF FastInv
<1>9. ASSUME NEW r \in FastRuns, FailAgain(r) PROVE FastInv'
  <2>1. FastTyped'
    <3>1. fast' \in [FastJobs -> Fasts]
      <4>1. frun[r].job \in FastJobs /\ fast[frun[r].job] \in Fasts
        BY <1>t, <1>9 DEF FastTyped, Known, FailAgain
      <4>2. \E x \in Fasts : fast' = [fast EXCEPT ![frun[r].job] = x]
        <5>1. PICK k \in 0 .. 2 : fast' = [fast EXCEPT ![frun[r].job] = Failed(@, k)]
          BY <1>9 DEF FailAgain
        <5>2. Failed(fast[frun[r].job], k) \in Fasts
          BY <4>1, <5>1, CommitsTyped
        <5>3. QED
          BY <5>1, <5>2
      <4>3. QED
        BY <1>t, <4>1, <4>2 DEF FastTyped
    <3>2. snap' \in [FastJobs -> [stage : FastStages, sources : BOOLEAN]]
      <4>1. PICK k \in 0 .. 2 : snap' = Final(r, k, "failed")
        BY <1>9 DEF FailAgain
      <4>2. (frun[r].pc = "thinking") \in BOOLEAN /\ frun[r].job \in FastJobs
        BY <1>t, <1>9 DEF FastTyped, Known, FailAgain
      <4>3. QED
        BY <1>t, <4>1, <4>2 DEF FastTyped, Final, FastStages
    <3>3. buffer' \in [FastJobs -> FastStages]
      BY <1>t, <1>9 DEF FastTyped, Fasts, FastPCs, FastStages, Known, InsidePCs, SomeJobs, FailAgain, Final, Failed, RowFree
    <3>4. frun' \in [FastRuns -> [job : SomeJobs, pc : FastPCs]]
      BY <1>t, <1>9 DEF FastTyped, Fasts, FastPCs, FastStages, Known, InsidePCs, SomeJobs, FailAgain, Final, Failed, RowFree
    <3>5. flusher' \in [Flushers -> [pc : {"free", "copied", "writing"}, job : SomeJobs, stage : FastStages, sources : BOOLEAN]]
      BY <1>t, <1>9 DEF FastTyped, Fasts, FastPCs, FastStages, Known, InsidePCs, SomeJobs, FailAgain, Final, Failed, RowFree
    <3>6. QED
      BY <3>1, <3>2, <3>3, <3>4, <3>5 DEF FastTyped
  <2>2. Known'
    BY <1>9 DEF FastInv, FastTyped, Fasts, Known, InsidePCs, FailAgain, Final, Failed, RowFree
  <2>3. RowHeld'
    BY <1>9 DEF FastInv, FastTyped, Fasts, Known, RowHeld, FailAgain, Final, Failed, RowFree
  <2>4. \A i \in FastJobs \ twice' : OneStory(i)'
    BY <1>9 DEF FastInv, FastTyped, Fasts, Known, OneStory, Under, InsidePCs, RowHeld, FailAgain, Final, Failed, RowFree
  <2>5. \A i \in FastJobs \ cut' : Agrees(i)'
    BY <1>9 DEF FastInv, FastTyped, Fasts, Known, Agrees, Under, InsidePCs, FailAgain, Final, Failed, RowFree
  <2>6. QED
    BY <2>1, <2>2, <2>3, <2>4, <2>5 DEF FastInv
<1>10. ASSUME NEW t \in Flushers, NEW j \in FastJobs, TakeFlush(t, j) PROVE FastInv'
  <2>1. FastTyped'
    <3>1. fast' \in [FastJobs -> Fasts]
      BY <1>t, <1>10 DEF FastTyped, Fasts, FastPCs, FastStages, Known, InsidePCs, SomeJobs, TakeFlush, RowFree
    <3>2. snap' \in [FastJobs -> [stage : FastStages, sources : BOOLEAN]]
      BY <1>t, <1>10 DEF FastTyped, Fasts, FastPCs, FastStages, Known, InsidePCs, SomeJobs, TakeFlush, RowFree
    <3>3. buffer' \in [FastJobs -> FastStages]
      BY <1>t, <1>10 DEF FastTyped, Fasts, FastPCs, FastStages, Known, InsidePCs, SomeJobs, TakeFlush, RowFree
    <3>4. frun' \in [FastRuns -> [job : SomeJobs, pc : FastPCs]]
      BY <1>t, <1>10 DEF FastTyped, Fasts, FastPCs, FastStages, Known, InsidePCs, SomeJobs, TakeFlush, RowFree
    <3>5. flusher' \in [Flushers -> [pc : {"free", "copied", "writing"}, job : SomeJobs, stage : FastStages, sources : BOOLEAN]]
      BY <1>t, <1>10 DEF FastTyped, Fasts, FastPCs, FastStages, Known, InsidePCs, SomeJobs, TakeFlush, RowFree
    <3>6. QED
      BY <3>1, <3>2, <3>3, <3>4, <3>5 DEF FastTyped
  <2>2. Known'
    BY <1>10 DEF FastInv, FastTyped, Fasts, Known, InsidePCs, TakeFlush, RowFree
  <2>3. RowHeld'
    BY <1>10 DEF FastInv, FastTyped, Fasts, Known, RowHeld, TakeFlush, RowFree
  <2>4. \A i \in FastJobs \ twice' : OneStory(i)'
    BY <1>10 DEF FastInv, FastTyped, Fasts, Known, OneStory, Under, InsidePCs, RowHeld, TakeFlush, RowFree
  <2>5. \A i \in FastJobs \ cut' : Agrees(i)'
    BY <1>10 DEF FastInv, FastTyped, Fasts, Known, Agrees, Under, InsidePCs, TakeFlush, RowFree
  <2>6. QED
    BY <2>1, <2>2, <2>3, <2>4, <2>5 DEF FastInv
<1>11. ASSUME NEW t \in Flushers, ReadRow(t) PROVE FastInv'
  <2>1. FastTyped'
    <3>1. UNCHANGED <<fast, snap, buffer, frun>>
      BY <1>11 DEF ReadRow
    <3>2. flusher[t].job \in FastJobs /\ snap[flusher[t].job].sources \in BOOLEAN
      BY <1>t, <1>11 DEF FastTyped, Known, ReadRow
    <3>3. flusher' \in [Flushers -> [pc : {"free", "copied", "writing"}, job : SomeJobs, stage : FastStages, sources : BOOLEAN]]
      BY <1>t, <1>11, <3>2 DEF FastTyped, ReadRow
    <3>4. QED
      BY <1>t, <3>1, <3>3 DEF FastTyped
  <2>2. Known'
    BY <1>11 DEF FastInv, FastTyped, Fasts, Known, InsidePCs, ReadRow, RowFree
  <2>3. RowHeld'
    BY <1>11 DEF FastInv, FastTyped, Fasts, Known, RowHeld, ReadRow, RowFree
  <2>4. \A i \in FastJobs \ twice' : OneStory(i)'
    BY <1>11 DEF FastInv, FastTyped, Fasts, Known, OneStory, Under, InsidePCs, RowHeld, ReadRow, RowFree
  <2>5. \A i \in FastJobs \ cut' : Agrees(i)'
    BY <1>11 DEF FastInv, FastTyped, Fasts, Known, Agrees, Under, InsidePCs, ReadRow, RowFree
  <2>6. QED
    BY <2>1, <2>2, <2>3, <2>4, <2>5 DEF FastInv
<1>12. ASSUME NEW t \in Flushers, WriteRow(t) PROVE FastInv'
  <2>1. FastTyped'
    BY <1>12 DEF FastInv, FastTyped, Fasts, FastPCs, FastStages, Known, InsidePCs, SomeJobs, WriteRow
  <2>2. Known'
    BY <1>12 DEF FastInv, FastTyped, Fasts, Known, InsidePCs, WriteRow
  <2>3. RowHeld'
    BY <1>12 DEF FastInv, FastTyped, Fasts, Known, RowHeld, WriteRow
  <2>4. \A i \in FastJobs \ twice' : OneStory(i)'
    BY <1>12 DEF FastInv, FastTyped, Fasts, Known, OneStory, Under, InsidePCs, RowHeld, WriteRow
  <2>5. \A i \in FastJobs \ cut' : Agrees(i)'
    BY <1>12 DEF FastInv, FastTyped, Fasts, Known, Agrees, Under, InsidePCs, WriteRow
  <2>6. QED
    BY <2>1, <2>2, <2>3, <2>4, <2>5 DEF FastInv
<1>13. ASSUME CrashFast PROVE FastInv'
  <2>1. /\ buffer' = [j \in FastJobs |-> "none"] /\ twice' = twice
        /\ cut \subseteq cut'
    BY <1>13 DEF CrashFast
  <2>2. /\ frun' \in [FastRuns -> [job : SomeJobs, pc : FastPCs]]
        /\ \A r \in FastRuns : /\ frun'[r].job = frun[r].job
                               /\ frun'[r].pc = IF frun[r].pc = "idle" THEN "idle" ELSE "over"
    <3>1. ASSUME NEW r \in FastRuns
          PROVE  /\ [frun[r] EXCEPT !.pc = "over"] \in [job : SomeJobs, pc : FastPCs]
                 /\ [frun[r] EXCEPT !.pc = "over"].job = frun[r].job
                 /\ [frun[r] EXCEPT !.pc = "over"].pc = "over"
      BY <1>t DEF FastTyped, FastPCs
    <3>2. frun' = [r \in FastRuns |-> IF frun[r].pc = "idle" THEN frun[r] ELSE [frun[r] EXCEPT !.pc = "over"]]
      BY <1>13 DEF CrashFast
    <3>3. QED
      BY <1>t, <3>1, <3>2 DEF FastTyped
  <2>3. /\ flusher' \in [Flushers -> [pc : {"free", "copied", "writing"}, job : SomeJobs,
                                      stage : FastStages, sources : BOOLEAN]]
        /\ \A t \in Flushers : flusher'[t].pc = "free"
    <3>1. ASSUME NEW t \in Flushers
          PROVE  /\ [flusher[t] EXCEPT !.pc = "free"]
                       \in [pc : {"free", "copied", "writing"}, job : SomeJobs, stage : FastStages, sources : BOOLEAN]
                 /\ [flusher[t] EXCEPT !.pc = "free"].pc = "free"
      BY <1>t DEF FastTyped
    <3>2. flusher' = [t \in Flushers |-> [flusher[t] EXCEPT !.pc = "free"]]
      BY <1>13 DEF CrashFast
    <3>3. QED
      BY <3>1, <3>2
  \* The rows stay, or those of one run are half written.
  <2>4. \/ UNCHANGED <<fast, snap>>
        \/ \E r \in FastRuns, k \in 1 .. 2 :
             /\ frun[r].pc = "thinking"
             /\ fast' = [fast EXCEPT ![frun[r].job] = Completed(@, k)] /\ snap' = Final(r, k, "completed")
    BY <1>13 DEF CrashFast
  <2>5. /\ fast' \in [FastJobs -> Fasts] /\ snap' \in [FastJobs -> [stage : FastStages, sources : BOOLEAN]]
        /\ \A j \in FastJobs : \/ fast'[j] = fast[j] /\ snap'[j] = snap[j]
                               \/ fast'[j].job = "completed" /\ j \in cut'
        /\ \A j \in FastJobs : fast[j].job # "none" => fast'[j].job # "none"
    <3>1. CASE UNCHANGED <<fast, snap>>
      BY <1>t, <3>1 DEF FastTyped
    <3>2. CASE ~UNCHANGED <<fast, snap>>
      <4>1. PICK r \in FastRuns, k \in 1 .. 2 :
               /\ frun[r].pc = "thinking"
               /\ fast' = [fast EXCEPT ![frun[r].job] = Completed(@, k)] /\ snap' = Final(r, k, "completed")
        BY <2>4, <3>2
      <4>2. frun[r].job \in FastJobs
        BY <1>t, <4>1 DEF Known
      <4>3. frun[r].job \in cut'
        BY <1>13, <4>1 DEF CrashFast
      <4>4. fast[frun[r].job] \in Fasts
        BY <1>t, <4>2 DEF FastTyped
      <4>5. Completed(fast[frun[r].job], k) \in Fasts /\ Completed(fast[frun[r].job], k).job = "completed"
        <5>1. Completed(fast[frun[r].job], k) \in Fasts
          BY <4>4, CommitsTyped
        <5>2. k >= 1
          OBVIOUS
        <5>3. QED
          BY <4>4, <5>1, <5>2, CompletedSays
      <4>6. fast' \in [FastJobs -> Fasts]
        BY <1>t, <4>1, <4>5 DEF FastTyped
      <4>7. snap' \in [FastJobs -> [stage : FastStages, sources : BOOLEAN]]
        <5>1. (frun[r].pc = "thinking") \in BOOLEAN
          OBVIOUS
        <5>2. QED
          BY <1>t, <4>1, <4>2, <5>1 DEF FastTyped, Final, FastStages
      <4>8. fast'[frun[r].job].job = "completed"
        BY <1>t, <4>1, <4>2, <4>5 DEF FastTyped
      <4>9. \A j \in FastJobs : j # frun[r].job => fast'[j] = fast[j] /\ snap'[j] = snap[j]
        BY <1>t, <4>1 DEF FastTyped, Final
      <4>10. QED
        BY <4>3, <4>6, <4>7, <4>8, <4>9
    <3>3. QED
      BY <3>1, <3>2
  <2>6. FastTyped'
    BY <2>1, <2>2, <2>3, <2>5 DEF FastTyped, FastStages
  <2>7. Known'
    BY <1>t, <2>1, <2>2, <2>3, <2>5 DEF Known
  <2>8. RowHeld'
    BY <2>3 DEF RowHeld
  <2>9. \A r \in FastRuns, j \in FastJobs : ~Under(r, j)'
    BY <2>2 DEF Under, InsidePCs
  <2>10. ASSUME NEW j \in FastJobs \ twice' PROVE OneStory(j)'
    <3>1. OneStory(j)
      BY <2>1 DEF FastInv
    <3>2. QED
      BY <2>1, <2>5, <2>9, <3>1 DEF OneStory
  <2>11. ASSUME NEW j \in FastJobs \ cut' PROVE Agrees(j)'
    <3>1. fast'[j] = fast[j]
      BY <2>5
    <3>2. Agrees(j)
      BY <2>1 DEF FastInv
    <3>3. \A r \in FastRuns : ~Under(r, j)
      BY <1>13 DEF CrashFast, Under, InsidePCs
    <3>4. QED
      BY <3>1, <3>2, <3>3 DEF Agrees
  <2>12. QED
    BY <2>6, <2>7, <2>8, <2>10, <2>11 DEF FastInv
<1>14. CASE UNCHANGED fastVars
  BY <1>14 DEF fastVars, FastInv, FastTyped, Known, RowHeld, OneStory, Agrees, Under
<1>15. QED
  BY <1>1, <1>2, <1>3, <1>4, <1>5, <1>6, <1>7, <1>8, <1>9, <1>10, <1>11, <1>12, <1>13, <1>14 DEF FastNext

\* Every variable of the fast runs keeps its type.
THEOREM FastTypeCorrect == FastSpec => []FastTypeOK
<1>1. FastInv => FastTypeOK
  BY DEF FastInv, FastTyped, Fasts, FastPCs, FastTypeOK
<1>2. QED
  BY <1>1, FastStart, FastStep, PTL DEF FastSpec

\* A finished run keeps its sources, whatever flush is under way.
SourcesStay == \A j \in FastJobs \ twice : snap[j].sources => snap'[j].sources

\* No step takes the sources of a finished run away.
LEMMA SourcesStep == FastInv /\ [FastNext]_fastVars => SourcesStay
<1> SUFFICES ASSUME FastInv, [FastNext]_fastVars, NEW j \in FastJobs \ twice, snap[j].sources
             PROVE  snap'[j].sources
  BY DEF SourcesStay
<1>t. FastTyped /\ Known /\ RowHeld /\ OneStory(j)
  BY DEF FastInv
<1>1. /\ fast[j].job \in {"completed", "failed"} /\ \A r \in FastRuns : ~Under(r, j)
  BY <1>t DEF OneStory
<1>2. ASSUME NEW i \in FastJobs, CreateFast(i) PROVE snap'[j].sources
  BY <1>t, <1>1, <1>2 DEF CreateFast, NoFast, FastTyped
<1>3. ASSUME NEW i \in FastJobs, AgainFast(i) \/ DispatchFast(i) \/ CancelFast(i) PROVE snap'[j].sources
  BY <1>3 DEF AgainFast, DispatchFast, CancelFast
<1>4. ASSUME NEW r \in FastRuns, BeginFast(r) \/ Reason(r) PROVE snap'[j].sources
  BY <1>4 DEF BeginFast, Reason
<1>5. ASSUME NEW r \in FastRuns, FinishFast(r) \/ FailFast(r) \/ FailAgain(r) PROVE snap'[j].sources
  <2>1. frun[r].pc \in InsidePCs
    BY <1>5 DEF FinishFast, FailFast, FailAgain, InsidePCs
  <2>2. frun[r].job # j
    BY <1>1, <2>1 DEF Under
  <2>3. \E k \in 0 .. 3, stage \in {"completed", "failed"} : snap' = Final(r, k, stage)
    BY <1>5 DEF FinishFast, FailFast, FailAgain, Leave
  <2>4. snap'[j] = snap[j]
    BY <1>t, <2>2, <2>3 DEF FastTyped, Final
  <2>5. QED
    BY <2>4
<1>6. ASSUME NEW t \in Flushers, (\E i \in FastJobs : TakeFlush(t, i)) \/ ReadRow(t) PROVE snap'[j].sources
  BY <1>6 DEF TakeFlush, ReadRow
<1>7. ASSUME NEW t \in Flushers, WriteRow(t) PROVE snap'[j].sources
  <2>1. flusher[t].job \in FastJobs /\ flusher[t].sources = snap[flusher[t].job].sources
    BY <1>t, <1>7 DEF Known, RowHeld, WriteRow
  <2>2. snap'[j].sources = snap[j].sources
    BY <1>t, <1>7, <2>1 DEF FastTyped, WriteRow
  <2>3. QED
    BY <2>2
<1>8. CASE CrashFast
  <2>1. CASE UNCHANGED snap
    BY <2>1
  <2>2. ASSUME NEW r \in FastRuns, NEW k \in 1 .. 2, frun[r].pc = "thinking", snap' = Final(r, k, "completed")
        PROVE  snap'[j] = snap[j]
    <3>1. frun[r].job # j
      BY <1>1, <2>2 DEF Under, InsidePCs
    <3>2. QED
      BY <1>t, <2>2, <3>1 DEF FastTyped, Final
  <2>3. snap'[j] = snap[j]
    BY <1>8, <2>2 DEF CrashFast
  <2>4. QED
    BY <2>3
<1>9. CASE UNCHANGED fastVars
  BY <1>9 DEF fastVars
<1>10. QED
  BY <1>2, <1>3, <1>4, <1>5, <1>6, <1>7, <1>8, <1>9 DEF FastNext

\* What the store, the rows and the ledger say of a fast analysis is one story, for any
\* jobs, runs, flushing threads and crashes: the outcomes agree when its runs are over,
\* a failure has cost nothing, and no flush takes the sources of a finished run away.
THEOREM FastOneStory == FastSpec => FastTellsOneStory
<1>1. FastInv => FastOutcomeAgrees
  <2> SUFFICES ASSUME FastInv, NEW j \in FastJobs \ cut, InRun(j) = {}, fast[j].job \in {"completed", "failed"}
               PROVE  /\ fast[j].job = fast[j].report
                      /\ fast[j].row = IF fast[j].job = "completed" THEN "done" ELSE "failed"
                      /\ fast[j].job = "failed" /\ "reserve" \in fast[j].ledger => "refund" \in fast[j].ledger
                      /\ fast[j].job = "completed" /\ j \notin twice => "refund" \notin fast[j].ledger
    BY DEF FastOutcomeAgrees
  <2>1. \A r \in FastRuns : ~Under(r, j)
    BY DEF InRun, Under, InsidePCs
  <2>2. Agrees(j)
    BY DEF FastInv
  <2>3. j \notin twice => OneStory(j)
    BY DEF FastInv
  <2>4. QED
    BY <2>1, <2>2, <2>3 DEF Agrees, OneStory
<1>2. FastInv /\ [FastNext]_fastVars => [SourcesStay]_fastVars
  BY SourcesStep
<1>3. FastSpec => []FastOutcomeAgrees
  BY <1>1, FastStart, FastStep, PTL DEF FastSpec
<1>4. FastSpec => [][SourcesStay]_fastVars
  BY <1>2, FastStart, FastStep, PTL DEF FastSpec
<1>5. QED
  BY <1>3, <1>4, PTL DEF FastTellsOneStory, FinalSnapshotKept, SourcesStay
-----------------------------------------------------------------------------
(* The services side by side: a behaviour of the whole is a behaviour of   *)
(* each of them.                                                           *)

\* The row of a job and the claims on it have their types from the start, and after
\* every step of a run, a crash, a start or a claim.
LEMMA LeaseTypeStep == LeaseTypeOK /\ [LeaseNext]_leaseVars => LeaseTypeOK'
<1> SUFFICES ASSUME LeaseTypeOK, [LeaseNext]_leaseVars PROVE LeaseTypeOK'
  OBVIOUS
<1> USE LeaseAssumption
<1>0. LeaseTypeOK
  OBVIOUS
<1>1. ASSUME NEW p \in Processes, RenewLease(p) PROVE LeaseTypeOK'
  BY <1>0, <1>1 DEF LeaseTypeOK, RenewLease
<1>2. CASE LapseLease
  BY <1>0, <1>2 DEF LeaseTypeOK, LapseLease
<1>3. ASSUME NEW p \in Processes, SetRunning(p) PROVE LeaseTypeOK'
  BY <1>0, <1>3 DEF LeaseTypeOK, SetRunning, ClaimStatuses
<1>4. ASSUME NEW p \in Processes, EndLease(p) PROVE LeaseTypeOK'
  <2>1. live[p] \in Nat /\ live[p] > 0 /\ live' = [live EXCEPT ![p] = live[p] - 1]
    BY <1>0, <1>4 DEF LeaseTypeOK, EndLease
  <2>2. live[p] - 1 \in Nat
    BY <2>1
  <2>3. live' \in [Processes -> Nat]
    BY <1>0, <2>1, <2>2 DEF LeaseTypeOK
  <2>4. QED
    BY <1>0, <1>4, <2>3 DEF LeaseTypeOK, EndLease
<1>5. ASSUME NEW p \in Processes, Die(p) PROVE LeaseTypeOK'
  <2>1. deaths' \in 0 .. MaxDeaths
    BY <1>0, <1>5 DEF LeaseTypeOK, Die
  <2>2. QED
    BY <1>0, <1>5, <2>1 DEF LeaseTypeOK, Die
<1>6. ASSUME NEW p \in Processes, Reconcile(p) \/ AskResume(p) \/ ReadClaim(p) PROVE LeaseTypeOK'
  <2>1. /\ UNCHANGED <<jobRow, live, deaths, winners>>
        /\ alive' \subseteq Processes /\ beaten' \in BOOLEAN
        /\ claimer' \in [Processes -> {"none", "listed", "read", "stale"}]
    BY <1>0, <1>6 DEF LeaseTypeOK, Reconcile, AskResume, ReadClaim
  <2>2. QED
    BY <1>0, <2>1 DEF LeaseTypeOK
<1>7. ASSUME NEW p \in Processes, CommitClaim(p) PROVE LeaseTypeOK'
  <2>1. jobRow.attempts + 1 \in 0 .. MaxClaims
    BY <1>0, <1>7 DEF LeaseTypeOK, CommitClaim
  <2>2. jobRow' \in [status : ClaimStatuses \union {"done"}, valid : BOOLEAN,
                     owner : Processes \union {Nobody}, attempts : 0 .. MaxClaims]
    BY <1>7, <2>1 DEF CommitClaim, ClaimStatuses
  <2>3. live' \in [Processes -> Nat]
    BY <1>0, <1>7 DEF LeaseTypeOK, CommitClaim
  <2>4. winners' \subseteq Processes /\ beaten' \in BOOLEAN
    BY <1>0, <1>7 DEF LeaseTypeOK, CommitClaim
  <2>5. QED
    BY <1>0, <1>7, <2>2, <2>3, <2>4 DEF LeaseTypeOK, CommitClaim
<1>8. CASE UNCHANGED leaseVars
  BY <1>0, <1>8 DEF LeaseTypeOK, leaseVars
<1>9. QED
  BY <1>1, <1>2, <1>3, <1>4, <1>5, <1>6, <1>7, <1>8 DEF LeaseNext

\* The row of a job, its runs and the claims on it are of their types in every state.
THEOREM LeaseTypeCorrect == LeaseSpec => []LeaseTypeOK
<1>1. ASSUME LeaseInit PROVE LeaseTypeOK
  <2>1. jobRow \in [status : ClaimStatuses \union {"done"}, valid : BOOLEAN,
                    owner : Processes \union {Nobody}, attempts : 0 .. MaxClaims]
    BY <1>1, LeaseAssumption DEF LeaseInit, ClaimStatuses
  <2>2. live \in [Processes -> Nat]
    BY <1>1 DEF LeaseInit
  <2>3. deaths \in 0 .. MaxDeaths
    BY <1>1, LeaseAssumption DEF LeaseInit
  <2>4. QED
    BY <1>1, <2>1, <2>2, <2>3 DEF LeaseInit, LeaseTypeOK
<1>2. QED
  BY <1>1, LeaseTypeStep, PTL DEF LeaseSpec

\* An order's row, its events and the requests on it are of their types in every state.
THEOREM OrdersTypeCorrect == OrdersSpec => []OrdersTypeOK
<1>1. OrdersInv => OrdersTypeOK
  BY DEF OrdersInv
<1>2. QED
  BY <1>1, OrdersInitInv, OrdersStepInv, PTL DEF OrdersSpec

\* A step of the whole is a step of one service, and the others rest: each service
\* behaves as it does alone.
LEMMA EachAsAlone ==
  /\ Init => /\ EventsInit /\ FastInit /\ CreditsInit /\ LeaseInit
             /\ SharedInit /\ SourcesInit /\ QlibInit /\ OrdersInit
  /\ [Next]_<<service, jobVars, otherVars>> =>
       /\ [EventsNext]_eventVars /\ [FastNext]_fastVars /\ [CreditsNext]_creditVars
       /\ [LeaseNext]_leaseVars /\ [SharedNext]_sharedVars /\ [SourcesNext]_sourceVars
       /\ [QlibNext]_qlibVars /\ [OrdersNext]_orderVars
<1>1. Init => /\ EventsInit /\ FastInit /\ CreditsInit /\ LeaseInit
              /\ SharedInit /\ SourcesInit /\ QlibInit /\ OrdersInit
  BY DEF Init
<1>2. ASSUME [Next]_<<service, jobVars, otherVars>>
      PROVE  /\ [EventsNext]_eventVars /\ [FastNext]_fastVars /\ [CreditsNext]_creditVars
             /\ [LeaseNext]_leaseVars /\ [SharedNext]_sharedVars /\ [SourcesNext]_sourceVars
             /\ [QlibNext]_qlibVars /\ [OrdersNext]_orderVars
  BY <1>2 DEF Next, jobVars, otherVars
<1>3. QED
  BY <1>1, <1>2

\* Every variable of the eight services keeps its type, for any number of jobs, runs,
\* processes, clients, requests, vendors and workers.
THEOREM ServicesTypeCorrect == Spec => []ServicesTypeOK
<1>1. Spec => /\ EventsSpec /\ FastSpec /\ CreditsSpec /\ LeaseSpec
              /\ SharedSpec /\ SourcesSpec /\ QlibSpec /\ OrdersSpec
  BY EachAsAlone, PTL DEF Spec, EventsSpec, FastSpec, CreditsSpec, LeaseSpec,
       SharedSpec, SourcesSpec, QlibSpec, OrdersSpec
<1>2. QED
  BY <1>1, EventsTypeCorrect, FastTypeCorrect, CreditsTypeCorrect, LeaseTypeCorrect,
     SharedTypeCorrect, SourcesTypeCorrect, QlibTypeCorrect, OrdersTypeCorrect, PTL
     DEF ServicesTypeOK

\* Side by side as alone: what a follower was handed is complete, one process runs the
\* job, the ledger adds up, the pools serve, permits and calls are honest, what is
\* imported is whole, the books of an order agree, the events are a log.
THEOREM ServicesKeepTheirPromises ==
  Spec => /\ [](/\ HandOverComplete /\ OneRunAtATime /\ LedgerKept /\ PoolsServe
                /\ PermitsKept /\ CallsHonest /\ CompletedFromWhole /\ OrderBooksAgree)
          /\ ImplementsLog /\ FastTellsOneStory
<1>1. Spec => /\ EventsSpec /\ FastSpec /\ CreditsSpec /\ LeaseSpec
              /\ SharedSpec /\ SourcesSpec /\ QlibSpec /\ OrdersSpec
  BY EachAsAlone, PTL DEF Spec, EventsSpec, FastSpec, CreditsSpec, LeaseSpec,
       SharedSpec, SourcesSpec, QlibSpec, OrdersSpec
<1>2. QED
  BY <1>1, HandOverIsComplete, OneRunAlways, LedgerAlwaysKept, PoolsAlwaysServe,
     PermitsAreKept, CallsAlwaysHonest, ImportedIsWhole, OrderBooksAlwaysAgree,
     EventsImplementLog, FastOneStory, PTL
=============================================================================
