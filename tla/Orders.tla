------------------------------- MODULE Orders -------------------------------
(***************************************************************************)
(* Orders that an administrator confirms and refunds.  A request looks its *)
(* Idempotency-Key up, reads the order, commits the order with an event of *)
(* the payment, and then stores its answer under the key.  Requests run on *)
(* threads of their own, each with a database session of its own.          *)
(***************************************************************************)
EXTENDS Naturals, FiniteSets

CONSTANTS
    OrderIds, OrderAmount,   \* orders, and amount_cents of each
    Requests,                \* requests in flight at a time
    IdempotencyKeys,
    MaxRequests              \* bound: requests begun

ASSUME OrdersAssumption == OrderAmount \in Nat \ {0} /\ MaxRequests \in Nat

VARIABLES
    order,      \* the row: status and refunded_cents
    events,     \* PaymentEventDB rows of an order: confirmations, cents refunded
    answered,   \* admin_idempotency_keys: the route and order stored under a key, or None
    request,    \* what a thread does, and what it read
    begun,
    clashed     \* history: orders committed on a reading that was out of date

orderVars == <<order, events, answered, request, begun, clashed>>

None == [route |-> "none", about |-> "none"]
NoRequest == [at |-> "idle", route |-> "none", about |-> "none", key |-> "none", cents |-> 0,
              read |-> [status |-> "none", refunded |-> 0]]

OrdersInit ==
    /\ order = [o \in OrderIds |-> [status |-> "none", refunded |-> 0]]
    /\ events = [o \in OrderIds |-> [confirmed |-> 0, refunded |-> 0]]
    /\ answered = [k \in IdempotencyKeys |-> None]
    /\ request = [t \in Requests |-> NoRequest] /\ begun = 0 /\ clashed = {}

create_order_placeholder(o) ==
    /\ order[o].status = "none"
    /\ order' = [order EXCEPT ![o].status = "pending"]
    /\ UNCHANGED <<events, answered, request, begun, clashed>>

\* A key that is stored for this route is answered from the table at once.
BeginRequest(t) ==
    /\ request[t].at = "idle" /\ begun < MaxRequests /\ begun' = begun + 1
    /\ \E route \in {"confirm", "refund"}, o \in OrderIds, k \in IdempotencyKeys,
          cents \in 0..OrderAmount :
           /\ route = "confirm" => cents = 0
           /\ answered[k] # [route |-> route, about |-> o]
           /\ request' = [request EXCEPT ![t] =
                  [NoRequest EXCEPT !.at = "read", !.route = route, !.about = o, !.key = k,
                                    !.cents = cents]]
    /\ UNCHANGED <<order, events, answered, clashed>>

EndRequest(t) == request' = [request EXCEPT ![t] = NoRequest]

\* The row is read; a paid order is answered as it is, one in another status is refused.
ReadOrder(t) ==
    LET q == request[t]
        row == order[q.about]
        asked == IF q.cents = 0 THEN OrderAmount - row.refunded ELSE q.cents
    IN  /\ q.at = "read"
        /\ CASE q.route = "confirm" /\ row.status = "pending" ->
                  request' = [request EXCEPT ![t].at = "commit", ![t].read = row]
             [] q.route = "confirm" /\ row.status = "paid" -> request' = [request EXCEPT ![t].at = "store"]
             [] q.route = "refund" /\ row.status \in {"paid", "partially_refunded"}
                  /\ asked \in 1..(OrderAmount - row.refunded) ->
                  request' = [request EXCEPT ![t].at = "commit", ![t].read = row, ![t].cents = asked]
             [] OTHER -> EndRequest(t)
        /\ UNCHANGED <<order, events, answered, begun, clashed>>

\* The sum that was refunded is not added up.
RefundedOnly(row, cents) ==
    [status |-> IF cents >= OrderAmount THEN "refunded" ELSE "partially_refunded",
     refunded |-> cents]

\* The row after a refund of so many cents.
Refunded(row, cents) ==
    [status |-> IF row.refunded + cents >= OrderAmount THEN "refunded" ELSE "partially_refunded",
     refunded |-> row.refunded + cents]

\* Of a row as it is now, an update writes what differs from the row that was read.
Written(row, read, new) ==
    [status |-> IF new.status = read.status THEN row.status ELSE new.status,
     refunded |-> IF new.refunded = read.refunded THEN row.refunded ELSE new.refunded]

\* The row and the event are one commit; the row is computed from what was read.
CommitOrder(t) ==
    LET q == request[t]
    IN  /\ q.at = "commit"
        /\ IF q.route = "confirm"
           THEN /\ order' = [order EXCEPT ![q.about].status = "paid"]
                /\ events' = [events EXCEPT ![q.about].confirmed = @ + 1]
           ELSE /\ order' = [order EXCEPT ![q.about] = Written(@, q.read, Refunded(q.read, q.cents))]
                /\ events' = [events EXCEPT ![q.about].refunded = @ + q.cents]
        /\ clashed' = IF order[q.about] # q.read THEN clashed \cup {q.about} ELSE clashed
        /\ request' = [request EXCEPT ![t].at = "store"]
        /\ UNCHANGED <<answered, begun>>

\* The answer is stored; a key that another route has used is refused by the table
\* (the key alone is its primary key), after the order was committed.
StoreAnswer(t) ==
    LET q == request[t]
    IN  /\ q.at = "store"
        /\ answered' = IF answered[q.key] = None
                       THEN [answered EXCEPT ![q.key] = [route |-> q.route, about |-> q.about]]
                       ELSE answered
        /\ EndRequest(t)
        /\ UNCHANGED <<order, events, begun, clashed>>

\* The process dies, or the database is not reached.
RequestDies(t) ==
    /\ request[t].at # "idle" /\ EndRequest(t)
    /\ UNCHANGED <<order, events, answered, begun, clashed>>

OrdersNext ==
    \/ \E o \in OrderIds : create_order_placeholder(o)
    \/ \E t \in Requests :
           BeginRequest(t) \/ ReadOrder(t) \/ CommitOrder(t) \/ StoreAnswer(t) \/ RequestDies(t)

OrdersSpec == OrdersInit /\ [][OrdersNext]_orderVars

-----------------------------------------------------------------------------
OrderRows == [status : {"none", "pending", "paid", "partially_refunded", "refunded"},
         refunded : 0..OrderAmount]

\* The type of the orders' state.
OrdersTypeOK ==
    /\ order \in [OrderIds -> OrderRows]
    /\ events \in [OrderIds -> [confirmed : Nat, refunded : Nat]]
    /\ request \in [Requests -> [at : {"idle", "read", "commit", "store"},
                                 route : {"none", "confirm", "refund"},
                                 about : OrderIds \cup {"none"},
                                 key : IdempotencyKeys \cup {"none"},
                                 cents : 0..OrderAmount, read : OrderRows]]
    /\ begun \in 0..MaxRequests /\ clashed \subseteq OrderIds

\* An order and its payment events tell the same story: it was confirmed once, what
\* was refunded is the sum of the refunds and no more than was paid, and the status
\* says how much that is - through retries, keys used twice and requests that die,
\* unless a request wrote an order that another had changed since it read it.
OrderBooksAgree ==
    \A o \in OrderIds \ clashed :
        /\ events[o].refunded = order[o].refunded
        /\ events[o].confirmed = (IF order[o].status \in {"none", "pending"} THEN 0 ELSE 1)
        /\ order[o].status = "refunded" <=> order[o].refunded = OrderAmount
        /\ order[o].status = "partially_refunded" <=> order[o].refunded \in 1..(OrderAmount - 1)
=============================================================================
