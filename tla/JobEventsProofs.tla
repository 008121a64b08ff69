-------------------------- MODULE JobEventsProofs --------------------------
(***************************************************************************)
(* The event log and the streams of JobEvents implement EventLog, and hand *)
(* a client over from the log to the channel without a gap, for any        *)
(* emitters, clients and number of events and broken connections.          *)
(***************************************************************************)
EXTENDS JobEvents, WellFoundedInduction, TLAPS

\* A bounded set of numbers has a highest one, which Highest finds.
LEMMA HighestFound ==
    ASSUME NEW n \in Nat, NEW S \in SUBSET (1..n)
    PROVE  /\ Highest(S) \in S \union {0} /\ Highest(S) \in 0..n
           /\ \A m \in S : m <= Highest(S)
<1> DEFINE U == {k \in Nat : \A m \in S : m <= k}
<1>1. n \in U /\ U \subseteq Nat
  OBVIOUS
<1>2. PICK k \in U : \A j \in U : ~(j < k)
  <2>1. IsWellFoundedOn(OpToRel(<, Nat), Nat)
    BY NatLessThanWellFounded
  <2>2. PICK k \in U : \A j \in U : <<j, k>> \notin OpToRel(<, Nat)
    <3> HIDE DEF U
    <3> QED
      BY <1>1, <2>1, WFMin
  <2>3. \A j \in U : <<j, k>> \in OpToRel(<, Nat) <=> j < k
    BY <1>1 DEF OpToRel
  <2> QED
    BY <2>2, <2>3
<1>3. k \in S \union {0}
  <2>1. SUFFICES ASSUME k \notin S, k # 0 PROVE FALSE
    OBVIOUS
  <2>2. k - 1 \in U
    BY <2>1
  <2> QED
    BY <1>2, <2>2
<1>4. \A m \in S \union {0} : m <= k
  BY <1>2
<1>5. Highest(S) \in S \union {0} /\ \A m \in S : m <= Highest(S)
  <2>1. \E j \in S \union {0} : \A m \in S : m <= j
    BY <1>3, <1>4
  <2> QED
    BY <2>1 DEF Highest
<1>6. S \union {0} \subseteq 0..n
  OBVIOUS
<1> QED
  BY <1>5, <1>6

\* There is only one.
LEMMA HighestIs ==
    ASSUME NEW n \in Nat, NEW S \in SUBSET (1..n), NEW k \in S \union {0}, \A m \in S : m <= k
    PROVE  Highest(S) = k
<1>1. Highest(S) \in S \union {0} /\ Highest(S) \in 0..n /\ \A m \in S : m <= Highest(S)
  BY HighestFound
<1>2. k \in 0..n
  OBVIOUS
<1>3. CASE Highest(S) = 0 \/ k = 0
  BY <1>1, <1>2, <1>3
<1>4. CASE Highest(S) \in S /\ k \in S
  BY <1>1, <1>2, <1>4
<1> QED
  BY <1>1, <1>3, <1>4

\* The cursor of the abstract log is the highest number that was seen.
LEMMA SameCursor == \A S : Log!CursorOf(S) = Highest(S)
  BY DEF Log!CursorOf, Highest

-----------------------------------------------------------------------------
(* The invariant: every number in circulation is one of the log. *)

Places == Clients \union {Shared}
Event == [kind : EventKinds, seq : Nat]

EventsTyped ==
    /\ evlog \in Seq(EventKinds)
    /\ emitter \in [Emitters -> [pc : {"idle", "read", "put"}, kind : EventKinds, seq : Nat]]
    /\ channel \in [Places -> Seq(Event)]
    /\ client \in [Clients -> [pc : {"off", "joining", "live", "over"}, cursor : Nat]]
    /\ seen \in [Clients -> SUBSET Nat]

\* The events of a channel are in a log of so many.
Logged(s, n) == \A i \in 1..Len(s) : s[i].seq <= n

Numbered ==
    /\ \A e \in Emitters :
           /\ emitter[e].pc = "read" => emitter[e].seq \in 1..(Len(evlog) + 1)
           /\ emitter[e].pc = "put" => emitter[e].seq <= Len(evlog)
    /\ \A p \in Places : Logged(channel[p], Len(evlog))
    /\ \A c \in Clients : /\ seen[c] \subseteq 1..Len(evlog)
                          /\ client[c].cursor = Highest(seen[c])

EventsInv == EventsTyped /\ Numbered

\* Taking an event from a channel leaves events of the log, and takes one.
LEMMA LoggedTail ==
    ASSUME NEW s \in Seq(Event), s # <<>>, NEW n \in Nat, Logged(s, n)
    PROVE  /\ Tail(s) \in Seq(Event) /\ Logged(Tail(s), n)
           /\ Head(s) \in Event /\ Head(s).seq <= n
<1>1. Len(s) \in Nat \ {0} /\ Head(s) = s[1] /\ s[1] \in Event
  OBVIOUS
<1>2. Tail(s) \in Seq(Event) /\ Len(Tail(s)) = Len(s) - 1
      /\ \A i \in 1..Len(Tail(s)) : Tail(s)[i] = s[i + 1]
  OBVIOUS
<1> QED
  BY <1>1, <1>2 DEF Logged

\* Appending an event of the log to a channel leaves events of the log.
LEMMA LoggedAppend ==
    ASSUME NEW s \in Seq(Event), NEW n \in Nat, Logged(s, n), NEW event \in Event, event.seq <= n
    PROVE  Append(s, event) \in Seq(Event) /\ Logged(Append(s, event), n)
<1>1. /\ Append(s, event) \in Seq(Event) /\ Len(Append(s, event)) = Len(s) + 1
      /\ \A i \in 1..Len(s) : Append(s, event)[i] = s[i]
      /\ Append(s, event)[Len(s) + 1] = event
  OBVIOUS
<1> QED
  BY <1>1 DEF Logged

\* Before the first event nothing is in circulation.
LEMMA EventsInitInv == EventsInit => EventsInv
<1> SUFFICES ASSUME EventsInit PROVE EventsInv
  OBVIOUS
<1>1. EventsTyped
  BY DEF EventsInit, EventsTyped, EventKinds, Idle, Places, Event
<1>2. Highest({}) = 0
  BY HighestIs
<1>3. Numbered
  BY <1>2 DEF EventsInit, Numbered, Logged, Idle, Places
<1> QED
  BY <1>1, <1>3 DEF EventsInv

\* An emission, a delivery, a replay or a drop circulates numbers of the log only.
LEMMA EventsStepInv == EventsInv /\ [EventsNext]_eventVars => EventsInv'
<1> SUFFICES ASSUME EventsInv, [EventsNext]_eventVars PROVE EventsInv'
  OBVIOUS
<1>0. EventsTyped /\ Numbered /\ Len(evlog) \in Nat
  BY DEF EventsInv, EventsTyped
\* A step that takes an event from a channel or empties it.
<1>c. ASSUME NEW p \in Places, channel' = [channel EXCEPT ![p] = Tail(@)], channel[p] # <<>>
      PROVE  channel' \in [Places -> Seq(Event)] /\ \A q \in Places : Logged(channel'[q], Len(evlog))
  <2>1. channel[p] \in Seq(Event) /\ Logged(channel[p], Len(evlog))
    BY <1>0 DEF EventsTyped, Numbered
  <2>2. Tail(channel[p]) \in Seq(Event) /\ Logged(Tail(channel[p]), Len(evlog))
    BY <1>0, <1>c, <2>1, LoggedTail
  <2>3. channel' \in [Places -> Seq(Event)]
    BY <1>0, <1>c, <2>2 DEF EventsTyped
  <2>4. ASSUME NEW q \in Places PROVE Logged(channel'[q], Len(evlog))
    <3>1. CASE q = p
      BY <1>0, <1>c, <2>2, <3>1 DEF EventsTyped
    <3>2. CASE q # p
      BY <1>0, <1>c, <3>2 DEF EventsTyped, Numbered
    <3> QED
      BY <3>1, <3>2
  <2> QED
    BY <2>3, <2>4
<1>1. ASSUME NEW e \in Emitters, NEW kind \in EventKinds, ReadSeq(e, kind) PROVE EventsInv'
  <2>1. /\ emitter' = [emitter EXCEPT ![e] = [pc |-> "read", kind |-> kind, seq |-> Len(evlog) + 1]]
        /\ UNCHANGED <<evlog, channel, client, seen>>
    BY <1>1 DEF ReadSeq
  <2>2. EventsTyped'
    BY <1>0, <2>1 DEF EventsTyped
  <2>3. Numbered'
    BY <1>0, <2>1 DEF EventsTyped, Numbered
  <2> QED
    BY <2>2, <2>3 DEF EventsInv
<1>2. ASSUME NEW e \in Emitters, InsertEvent(e) PROVE EventsInv'
  <2> DEFINE taken == emitter[e].seq <= Len(evlog)
  <2>1. /\ emitter[e].pc = "read"
        /\ evlog' = IF taken THEN evlog ELSE Append(evlog, emitter[e].kind)
        /\ emitter' = [emitter EXCEPT ![e].pc = "put", ![e].seq = IF taken THEN 0 ELSE @]
        /\ UNCHANGED <<channel, client, seen>>
    BY <1>2 DEF InsertEvent
  <2>2. emitter[e].seq \in 1..(Len(evlog) + 1) /\ emitter[e].kind \in EventKinds
    BY <1>0, <2>1 DEF EventsTyped, Numbered
  <2>3. evlog' \in Seq(EventKinds) /\ Len(evlog') \in Nat
        /\ Len(evlog') = IF taken THEN Len(evlog) ELSE Len(evlog) + 1
    BY <1>0, <2>1, <2>2 DEF EventsTyped
  <2>4. emitter' \in [Emitters -> [pc : {"idle", "read", "put"}, kind : EventKinds, seq : Nat]]
    <3>1. emitter[e] \in [pc : {"idle", "read", "put"}, kind : EventKinds, seq : Nat]
      BY <1>0 DEF EventsTyped
    <3>2. PICK n \in Nat : emitter' = [emitter EXCEPT ![e] = [emitter[e] EXCEPT !.pc = "put", !.seq = n]]
      <4>1. emitter[e].seq \in Nat
        BY <3>1
      <4>2. CASE taken
        BY <2>1, <4>2
      <4>3. CASE ~taken
        BY <2>1, <4>1, <4>3
      <4> QED
        BY <4>2, <4>3
    <3>3. [emitter[e] EXCEPT !.pc = "put", !.seq = n]
             \in [pc : {"idle", "read", "put"}, kind : EventKinds, seq : Nat]
      BY <3>1
    <3> QED
      BY <1>0, <3>2, <3>3 DEF EventsTyped
  <2>5. EventsTyped'
    BY <1>0, <2>1, <2>3, <2>4 DEF EventsTyped
  <2>6. ASSUME NEW o \in Emitters
        PROVE  /\ emitter'[o].pc = "read" => emitter'[o].seq \in 1..(Len(evlog') + 1)
               /\ emitter'[o].pc = "put" => emitter'[o].seq <= Len(evlog')
    <3>1. CASE o = e
      BY <1>0, <2>1, <2>2, <2>3, <3>1 DEF EventsTyped
    <3>2. CASE o # e
      <4>1. emitter'[o] = emitter[o] /\ emitter[o].seq \in Nat
        BY <1>0, <2>1, <3>2 DEF EventsTyped
      <4> QED
        BY <1>0, <2>3, <4>1 DEF Numbered
    <3> QED
      BY <3>1, <3>2
  <2>7. ASSUME NEW p \in Places PROVE Logged(channel'[p], Len(evlog'))
    <3>1. channel'[p] = channel[p] /\ channel[p] \in Seq(Event) /\ Logged(channel[p], Len(evlog))
      BY <1>0, <2>1 DEF EventsTyped, Numbered
    <3>2. \A i \in 1..Len(channel[p]) : channel[p][i].seq \in Nat
      <4>1. \A i \in 1..Len(channel[p]) : channel[p][i] \in Event
        BY <3>1
      <4> QED
        BY <4>1 DEF Event
    <3> QED
      BY <1>0, <2>3, <3>1, <3>2 DEF Logged
  <2>8. ASSUME NEW c \in Clients
        PROVE  seen'[c] \subseteq 1..Len(evlog') /\ client'[c].cursor = Highest(seen'[c])
    BY <1>0, <2>1, <2>3 DEF Numbered
  <2>9. Numbered'
    BY <2>6, <2>7, <2>8 DEF Numbered, Places
  <2> QED
    BY <2>5, <2>9 DEF EventsInv
<1>3. ASSUME NEW e \in Emitters, PutEvent(e) PROVE EventsInv'
  <2> DEFINE event == [kind |-> emitter[e].kind, seq |-> emitter[e].seq]
  <2>1. /\ emitter[e].pc = "put" /\ emitter' = [emitter EXCEPT ![e] = Idle]
        /\ UNCHANGED <<evlog, client, seen>>
    BY <1>3 DEF PutEvent
  <2>2. event \in Event /\ event.seq <= Len(evlog)
    BY <1>0, <2>1 DEF EventsTyped, Numbered, Event
  <2>3. DOMAIN channel' = Places
        /\ \A p \in Places : channel'[p] = channel[p] \/ channel'[p] = Append(channel[p], event)
    <3>1. CASE redis
      BY <1>3, <3>1 DEF PutEvent, Places
    <3>2. CASE ~redis
      BY <1>0, <1>3, <3>2 DEF PutEvent, EventsTyped, Places
    <3> QED
      BY <3>1, <3>2
  <2>4. \A p \in Places : channel'[p] \in Seq(Event) /\ Logged(channel'[p], Len(evlog))
    <3> SUFFICES ASSUME NEW p \in Places
                 PROVE  channel'[p] \in Seq(Event) /\ Logged(channel'[p], Len(evlog))
      OBVIOUS
    <3>1. channel[p] \in Seq(Event) /\ Logged(channel[p], Len(evlog))
      BY <1>0 DEF EventsTyped, Numbered
    <3> HIDE DEF event
    <3>2. Append(channel[p], event) \in Seq(Event) /\ Logged(Append(channel[p], event), Len(evlog))
      BY <1>0, <2>2, <3>1, LoggedAppend
    <3> QED
      BY <2>3, <3>1, <3>2
  <2>5. channel' \in [Places -> Seq(Event)]
    <3>1. channel' = [p \in Places |-> channel'[p]]
      <4>1. CASE redis
        BY <1>3, <4>1 DEF PutEvent, Places
      <4>2. CASE ~redis
        BY <1>0, <1>3, <4>2 DEF PutEvent, EventsTyped
      <4> QED
        BY <4>1, <4>2
    <3> QED
      BY <2>4, <3>1
  <2>6. EventsTyped'
    BY <1>0, <2>1, <2>5 DEF EventsTyped, Idle, EventKinds
  <2>7. Numbered'
    BY <1>0, <2>1, <2>4 DEF EventsTyped, Numbered, Idle
  <2> QED
    BY <2>6, <2>7 DEF EventsInv
<1>4. ASSUME NEW c \in Clients, Connect(c) PROVE EventsInv'
  <2>1. /\ seen' = [seen EXCEPT ![c] = @ \union Rows(client[c].cursor)]
        /\ \E pc \in {"over", "joining"} :
               client' = [client EXCEPT ![c] = [pc |-> pc, cursor |-> Highest(seen'[c])]]
        /\ UNCHANGED <<evlog, emitter, channel>>
    BY <1>4 DEF Connect
  <2>2. seen'[c] \subseteq 1..Len(evlog) /\ \A d \in Clients \ {c} : seen'[d] = seen[d]
    BY <1>0, <2>1 DEF EventsTyped, Numbered, Rows
  <2>3. Highest(seen'[c]) \in Nat
    BY <1>0, <2>2, HighestFound
  <2>4. seen' \in [Clients -> SUBSET Nat]
    BY <1>0, <2>1 DEF EventsTyped, Rows
  <2>5. EventsTyped'
    BY <1>0, <2>1, <2>3, <2>4 DEF EventsTyped
  <2>6. ASSUME NEW d \in Clients
        PROVE  seen'[d] \subseteq 1..Len(evlog) /\ client'[d].cursor = Highest(seen'[d])
    BY <1>0, <2>1, <2>2 DEF EventsTyped, Numbered
  <2>7. Numbered'
    BY <1>0, <2>1, <2>6 DEF Numbered
  <2> QED
    BY <2>5, <2>7 DEF EventsInv
<1>5. ASSUME NEW c \in Clients, Receive(c) PROVE EventsInv'
  <2> DEFINE event == Head(channel[Mine(c)])
             new == IF event.seq = 0 THEN {} ELSE {event.seq}
             top == Highest(new \union {client[c].cursor})
  <2>1. /\ channel[Mine(c)] # <<>> /\ channel' = [channel EXCEPT ![Mine(c)] = Tail(@)]
        /\ seen' = [seen EXCEPT ![c] = @ \union new]
        /\ \E pc \in {"over", "live"} : client' = [client EXCEPT ![c] = [pc |-> pc, cursor |-> top]]
        /\ UNCHANGED <<evlog, emitter>>
    BY <1>5 DEF Receive
  <2>2. Mine(c) \in Places
    BY DEF Mine, Places
  <2>3. channel' \in [Places -> Seq(Event)] /\ \A q \in Places : Logged(channel'[q], Len(evlog))
    BY <1>c, <2>1, <2>2
  <2>4. event \in Event /\ event.seq <= Len(evlog)
    <3>1. channel[Mine(c)] \in Seq(Event) /\ Logged(channel[Mine(c)], Len(evlog))
      BY <1>0, <2>2 DEF EventsTyped, Numbered
    <3> QED
      BY <1>0, <2>1, <3>1, LoggedTail
  <2>5. event.seq \in Nat
    BY <2>4 DEF Event
  <2>6. new \in SUBSET (1..Len(evlog))
    BY <1>0, <2>4, <2>5
  <2>7. seen[c] \in SUBSET (1..Len(evlog)) /\ client[c].cursor = Highest(seen[c])
    BY <1>0 DEF Numbered
  <2>8. client[c].cursor \in seen[c] \union {0} /\ client[c].cursor \in 0..Len(evlog)
        /\ \A m \in seen[c] : m <= client[c].cursor
    BY <1>0, <2>7, HighestFound
  <2> HIDE DEF new, event
  <2>9. top \in Nat /\ top = Highest(seen[c] \union new)
    <3> DEFINE S == seen[c] \union new
    <3>1. S \in SUBSET (1..Len(evlog))
      BY <2>6, <2>7
    <3>2. /\ Highest(S) \in S \union {0} /\ Highest(S) \in 0..Len(evlog) /\ \A m \in S : m <= Highest(S)
      BY <1>0, <3>1, HighestFound
    <3>3. Highest(S) \in new \union {client[c].cursor, 0}
      <4>1. CASE Highest(S) \in seen[c]
        <5>1. client[c].cursor \in S \union {0}
          BY <2>8
        <5>2. client[c].cursor <= Highest(S) /\ Highest(S) <= client[c].cursor
          <6>1. Highest(S) <= client[c].cursor
            BY <2>8, <4>1
          <6>2. CASE client[c].cursor = 0
            BY <1>0, <3>2, <6>1, <6>2
          <6>3. CASE client[c].cursor \in S
            BY <3>2, <6>1, <6>3
          <6> QED
            BY <5>1, <6>2, <6>3
        <5> QED
          BY <2>8, <3>2, <5>2
      <4> QED
        BY <3>2, <4>1
    <3>4. \A m \in new \union {client[c].cursor} : m <= Highest(S)
      <4>1. \A m \in new : m <= Highest(S)
        BY <3>2
      <4>2. client[c].cursor = 0 \/ client[c].cursor \in S
        BY <2>8
      <4>3. client[c].cursor <= Highest(S)
        <5>1. CASE client[c].cursor = 0
          BY <1>0, <3>2, <5>1
        <5>2. CASE client[c].cursor \in S
          BY <3>2, <5>2
        <5> QED
          BY <4>2, <5>1, <5>2
      <4> QED
        BY <4>1, <4>3
    <3>5. CASE client[c].cursor = 0
      <4>1. seen[c] = {}
        BY <2>7, <2>8, <3>5
      <4>2. top = Highest(S)
        <5>1. \A j \in Nat : (\A m \in new \union {0} : m <= j) <=> (\A m \in new : m <= j)
          OBVIOUS
        <5>2. (new \union {0}) \union {0} = new \union {0}
          OBVIOUS
        <5>3. \A j \in (new \union {0}) \union {0} :
                  (\A m \in new \union {0} : m <= j) <=> (\A m \in new : m <= j)
          BY <2>6, <5>1
        <5>4. Highest(new \union {0}) = Highest(new)
          BY <5>2, <5>3 DEF Highest
        <5> QED
          BY <3>5, <4>1, <5>4
      <4> QED
        BY <3>2, <4>2
    <3>6. CASE client[c].cursor # 0
      <4>1. new \union {client[c].cursor} \in SUBSET (1..Len(evlog))
        BY <2>6, <2>7, <2>8, <3>6
      <4> HIDE DEF S
      <4>2. top = Highest(S)
        BY <1>0, <3>3, <3>4, <4>1, HighestIs
      <4> QED
        BY <3>2, <4>2 DEF S
    <3> QED
      BY <3>5, <3>6
  <2> HIDE DEF top
  <2>10. EventsTyped'
    <3>1. seen' \in [Clients -> SUBSET Nat]
      <4>1. seen[c] \union new \in SUBSET Nat
        <5>1. seen[c] \subseteq Nat
          BY <1>0 DEF EventsTyped
        <5>2. new \subseteq Nat
          BY <1>0, <2>6
        <5> QED
          BY <5>1, <5>2
      <4>2. seen' = [seen EXCEPT ![c] = seen[c] \union new]
        BY <2>1
      <4> QED
        BY <1>0, <4>1, <4>2 DEF EventsTyped
    <3> QED
      BY <1>0, <2>1, <2>3, <2>9, <3>1 DEF EventsTyped
  <2>11. ASSUME NEW d \in Clients
         PROVE  seen'[d] \subseteq 1..Len(evlog) /\ client'[d].cursor = Highest(seen'[d])
    <3>1. CASE d = c
      <4>1. seen'[d] = seen[c] \union new /\ client'[d].cursor = top
        BY <1>0, <2>1, <3>1 DEF EventsTyped
      <4> QED
        BY <2>6, <2>7, <2>9, <4>1
    <3>2. CASE d # c
      <4>1. seen'[d] = seen[d] /\ client'[d] = client[d]
        BY <1>0, <2>1, <3>2 DEF EventsTyped
      <4> QED
        BY <1>0, <4>1 DEF Numbered
    <3> QED
      BY <3>1, <3>2
  <2>12. Numbered'
    BY <1>0, <2>1, <2>3, <2>11 DEF Numbered
  <2> QED
    BY <2>10, <2>12 DEF EventsInv
\* Steps that move a client, or nothing the invariant speaks of.
<1>6. ASSUME NEW c \in Clients, Subscribe(c) \/ Quiet(c) PROVE EventsInv'
  <2>1. PICK pc \in {"live", "over"} : client' = [client EXCEPT ![c].pc = pc]
    BY <1>6 DEF Subscribe, Quiet
  <2>2. UNCHANGED <<evlog, emitter, channel, seen>>
    BY <1>6 DEF Subscribe, Quiet
  <2>3. EventsTyped'
    BY <1>0, <2>1, <2>2 DEF EventsTyped
  <2>4. \A d \in Clients : client'[d].cursor = client[d].cursor
    BY <1>0, <2>1 DEF EventsTyped
  <2>5. Numbered'
    BY <1>0, <2>2, <2>4 DEF Numbered
  <2> QED
    BY <2>3, <2>5 DEF EventsInv
<1>7. ASSUME NEW c \in Clients, Drop(c) PROVE EventsInv'
  <2>1. client' = [client EXCEPT ![c].pc = "off"] /\ UNCHANGED <<evlog, emitter, seen>>
    BY <1>7 DEF Drop
  <2>2. \A d \in Clients : client'[d].cursor = client[d].cursor
    BY <1>0, <2>1 DEF EventsTyped
  <2>3. c \in Places /\ Shared \in Places
    BY DEF Places
  <2>4. channel' \in [Places -> Seq(Event)] /\ \A q \in Places : Logged(channel'[q], Len(evlog))
    <3>1. CASE channel' = channel
      BY <1>0, <3>1 DEF EventsTyped, Numbered
    <3>2. CASE channel' = [channel EXCEPT ![c] = <<>>]
      BY <1>0, <2>3, <3>2 DEF EventsTyped, Numbered, Logged
    <3>3. CASE channel[Shared] # <<>> /\ channel' = [channel EXCEPT ![Shared] = Tail(@)]
      BY <1>c, <2>3, <3>3
    <3> QED
      BY <1>7, <3>1, <3>2, <3>3 DEF Drop
  <2>5. EventsTyped'
    BY <1>0, <2>1, <2>4 DEF EventsTyped
  <2>6. Numbered'
    BY <1>0, <2>1, <2>2, <2>4 DEF Numbered
  <2> QED
    BY <2>5, <2>6 DEF EventsInv
<1>8. CASE EndJob \/ UNCHANGED eventVars
  <2>1. UNCHANGED <<evlog, emitter, channel, client, seen>>
    BY <1>8 DEF EndJob, eventVars
  <2> QED
    BY <1>0, <2>1 DEF EventsInv, EventsTyped, Numbered
<1> QED
  BY <1>1, <1>2, <1>3, <1>4, <1>5, <1>6, <1>7, <1>8 DEF EventsNext, EmitStep, StreamStep

-----------------------------------------------------------------------------
(* The refinement *)

\* The first state of the stream is an empty log, of which no follower has anything.
LEMMA EventsInitImplements == EventsInit => Log!LogInit
  BY DEF EventsInit, Log!LogInit

\* A step of the stream appends to the log, hands a follower the next numbers, or is
\* none of the log's business.
LEMMA EventsStepImplements == EventsInv /\ [EventsNext]_eventVars => [Log!LogNext]_(Log!logVars)
<1> SUFFICES ASSUME EventsInv, [EventsNext]_eventVars PROVE [Log!LogNext]_(Log!logVars)
  OBVIOUS
<1>0. EventsTyped /\ Numbered /\ Len(evlog) \in Nat
  BY DEF EventsInv, EventsTyped
<1>1. ASSUME UNCHANGED <<evlog, seen>> PROVE [Log!LogNext]_(Log!logVars)
  BY <1>1 DEF Log!logVars
\* An event that is inserted is appended; one whose number is taken is not logged.
<1>2. ASSUME NEW e \in Emitters, InsertEvent(e) PROVE [Log!LogNext]_(Log!logVars)
  <2>1. CASE emitter[e].seq <= Len(evlog)
    BY <1>1, <1>2, <2>1 DEF InsertEvent
  <2>2. CASE ~(emitter[e].seq <= Len(evlog))
    <3>1. evlog' = Append(evlog, emitter[e].kind) /\ seen' = seen
      BY <1>2, <2>2 DEF InsertEvent
    <3>2. emitter[e].kind \in EventKinds
      BY <1>0 DEF EventsTyped
    <3> QED
      BY <3>1, <3>2 DEF Log!LogNext, Log!Append1
  <2> QED
    BY <2>1, <2>2
\* A replay hands over all there is after the cursor.
<1>3. ASSUME NEW c \in Clients, Connect(c) PROVE [Log!LogNext]_(Log!logVars)
  <2>1. seen' = [seen EXCEPT ![c] = @ \union Rows(client[c].cursor)] /\ evlog' = evlog
    BY <1>3 DEF Connect
  <2>2. seen[c] \in SUBSET (1..Len(evlog)) /\ client[c].cursor = Highest(seen[c])
    BY <1>0 DEF Numbered
  <2>3. Highest(seen[c]) \in 0..Len(evlog)
    BY <1>0, <2>2, HighestFound
  <2>4. Log!CursorOf(seen[c]) = Highest(seen[c])
    BY SameCursor
  <2>5. Rows(client[c].cursor) = (Log!CursorOf(seen[c]) + 1) .. Len(evlog)
    BY <1>0, <2>2, <2>3, <2>4 DEF Rows
  <2>6. Len(evlog) \in Log!CursorOf(seen[c]) .. Len(evlog)
    BY <1>0, <2>3, <2>4
  <2>7. seen' = [seen EXCEPT ![c] = @ \union (Log!CursorOf(@) + 1) .. Len(evlog)]
    BY <2>1, <2>5
  <2> QED
    BY <2>1, <2>6, <2>7 DEF Log!LogNext, Log!Replay
\* What a channel yields is in the log, or has no number.
<1>4. ASSUME NEW c \in Clients, Receive(c) PROVE [Log!LogNext]_(Log!logVars)
  <2> DEFINE event == Head(channel[Mine(c)])
  <2>1. channel[Mine(c)] # <<>> /\ evlog' = evlog
        /\ seen' = [seen EXCEPT ![c] = @ \union (IF event.seq = 0 THEN {} ELSE {event.seq})]
    BY <1>4 DEF Receive
  <2>2. channel[Mine(c)] \in Seq(Event) /\ Logged(channel[Mine(c)], Len(evlog))
    BY <1>0 DEF EventsTyped, Numbered, Mine, Places
  <2>3. event \in Event /\ event.seq <= Len(evlog)
    BY <1>0, <2>1, <2>2, LoggedTail
  <2>4. event.seq \in Nat
    BY <2>3 DEF Event
  <2>5. CASE event.seq = 0
    BY <1>0, <1>1, <2>1, <2>5 DEF EventsTyped
  <2>6. CASE event.seq # 0
    <3>1. event.seq \in 1..Len(evlog)
      BY <1>0, <2>3, <2>4, <2>6
    <3> HIDE DEF event
    <3> QED
      BY <2>1, <2>6, <3>1 DEF Log!LogNext, Log!Live
  <2> QED
    BY <2>5, <2>6
<1>5. ASSUME \/ \E e \in Emitters : (\E kind \in EventKinds : ReadSeq(e, kind)) \/ PutEvent(e)
             \/ EndJob
             \/ \E c \in Clients : Subscribe(c) \/ Quiet(c) \/ Drop(c)
             \/ UNCHANGED eventVars
      PROVE  [Log!LogNext]_(Log!logVars)
  BY <1>1, <1>5 DEF ReadSeq, PutEvent, EndJob, Subscribe, Quiet, Drop, eventVars
<1> QED
  BY <1>2, <1>3, <1>4, <1>5 DEF EventsNext, EmitStep, StreamStep

\* The log only grows and keeps its numbers, a replay hands over everything after
\* the cursor, and a live event is one of the log - for any emitters that read the
\* same number and any streams that share a queue, break and come back.
THEOREM EventsImplementLog == EventsSpec => ImplementsLog
  BY EventsInitInv, EventsStepInv, EventsInitImplements, EventsStepImplements, PTL
     DEF EventsSpec, ImplementsLog, Log!LogSpec

-----------------------------------------------------------------------------
(* The hand-over from the replay to the live events. *)

\* An event of the log has reached the client, is in its channel, or an emitter is
\* about to put it there.
Accounted(c, n) ==
    \/ n \in seen[c]
    \/ \E i \in 1..Len(channel[Mine(c)]) : channel[Mine(c)][i].seq = n
    \/ \E e \in Emitters : emitter[e].pc = "put" /\ emitter[e].seq = n

\* No event of the log is lost to a stream that nothing spoiled; a client that has
\* not connected yet has been given nothing.
HandOverInv ==
    \A c \in Clients \ spoiled :
        /\ client[c].pc = "off" => seen[c] = {}
        /\ client[c].pc \in {"joining", "live"} => \A n \in 1..Len(evlog) : Accounted(c, n)

\* What is taken from a channel is its first event, the others move up.
LEMMA TailKeeps ==
    ASSUME NEW s \in Seq(Event), s # <<>>, NEW i \in 1..Len(s)
    PROVE  s[i] = Head(s) \/ (i - 1 \in 1..Len(Tail(s)) /\ Tail(s)[i - 1] = s[i])
<1>1. CASE i = 1
  BY <1>1
<1>2. CASE i # 1
  BY <1>2
<1> QED
  BY <1>1, <1>2

\* What is put into a channel goes behind what is there.
LEMMA AppendKeeps ==
    ASSUME NEW s \in Seq(Event), NEW event \in Event
    PROVE  /\ \A i \in 1..Len(s) : i \in 1..Len(Append(s, event)) /\ Append(s, event)[i] = s[i]
           /\ Len(s) + 1 \in 1..Len(Append(s, event)) /\ Append(s, event)[Len(s) + 1] = event
  OBVIOUS

\* Whoever spoils a stream is noted; any other step moves an event from an emitter
\* to the channel, or from there to the client.
LEMMA HandOverStep == EventsInv /\ HandOverInv /\ [EventsNext]_eventVars => HandOverInv'
<1> SUFFICES ASSUME EventsInv, HandOverInv, [EventsNext]_eventVars,
                    NEW c \in Clients \ spoiled'
             PROVE  /\ client'[c].pc = "off" => seen'[c] = {}
                    /\ client'[c].pc \in {"joining", "live"} =>
                           \A n \in 1..Len(evlog') : Accounted(c, n)'
  BY DEF HandOverInv
<1> DEFINE Goal == /\ client'[c].pc = "off" => seen'[c] = {}
                   /\ client'[c].pc \in {"joining", "live"} =>
                          \A n \in 1..Len(evlog') : Accounted(c, n)'
<1>0. /\ EventsTyped /\ Numbered /\ Len(evlog) \in Nat
      /\ Mine(c) \in Places /\ channel[Mine(c)] \in Seq(Event)
  BY DEF EventsInv, EventsTyped, Mine, Places
<1>1. ASSUME NEW e \in Emitters, NEW kind \in EventKinds, ReadSeq(e, kind) PROVE Goal
  <2>1. /\ emitter[e].pc = "idle" /\ \A o \in Emitters : o # e => emitter'[o] = emitter[o]
        /\ UNCHANGED <<redis, evlog, channel, client, seen, spoiled>>
    BY <1>0, <1>1 DEF ReadSeq, EventsTyped
  <2> QED
    BY <2>1 DEF HandOverInv, Accounted, Mine
<1>2. ASSUME NEW e \in Emitters, InsertEvent(e) PROVE Goal
  <2>1. /\ ~(emitter[e].seq <= Len(evlog)) /\ evlog' = Append(evlog, emitter[e].kind)
        /\ emitter[e].pc = "read" /\ emitter[e].seq \in 1..(Len(evlog) + 1)
        /\ UNCHANGED <<redis, channel, client, seen, spoiled>>
    BY <1>0, <1>2 DEF InsertEvent, Numbered
  <2>2. emitter' = [emitter EXCEPT ![e].pc = "put", ![e].seq = @]
    BY <1>2, <2>1 DEF InsertEvent
  <2>3. /\ emitter'[e].pc = "put" /\ emitter'[e].seq = emitter[e].seq
        /\ \A o \in Emitters : o # e => emitter'[o] = emitter[o]
    BY <1>0, <2>2 DEF EventsTyped
  <2>4. Len(evlog') = Len(evlog) + 1 /\ emitter[e].seq = Len(evlog) + 1
    BY <1>0, <2>1 DEF EventsTyped
  <2>5. ASSUME NEW n \in 1..Len(evlog'), n = Len(evlog) + 1 \/ Accounted(c, n) PROVE Accounted(c, n)'
    BY <2>1, <2>3, <2>4, <2>5 DEF Accounted, Mine
  <2> QED
    BY <1>0, <2>1, <2>4, <2>5 DEF HandOverInv
<1>3. ASSUME NEW e \in Emitters, PutEvent(e) PROVE Goal
  <2> DEFINE event == [kind |-> emitter[e].kind, seq |-> emitter[e].seq]
  <2>1. /\ emitter[e].pc = "put" /\ \A o \in Emitters : o # e => emitter'[o] = emitter[o]
        /\ UNCHANGED <<redis, evlog, client, seen>> /\ c \notin spoiled
    BY <1>0, <1>3 DEF PutEvent, EventsTyped
  <2>2. event \in Event
    BY <1>0 DEF EventsTyped, Event
  <2>3. ASSUME client[c].pc \in {"joining", "live"}
        PROVE  channel'[Mine(c)] = Append(channel[Mine(c)], event)
    <3>1. CASE redis
      BY <1>3, <2>1, <2>3, <3>1 DEF PutEvent, Mine
    <3>2. CASE ~redis
      BY <1>0, <1>3, <3>2 DEF PutEvent, Mine, EventsTyped
    <3> QED
      BY <3>1, <3>2
  <2>4. ASSUME client[c].pc \in {"joining", "live"}, NEW n \in 1..Len(evlog), Accounted(c, n)
        PROVE  Accounted(c, n)'
    <3>1. Mine(c)' = Mine(c) /\ channel'[Mine(c)] = Append(channel[Mine(c)], event)
      BY <2>1, <2>3, <2>4 DEF Mine
    <3>2. CASE n \in seen[c]
      BY <2>1, <3>2 DEF Accounted
    <3>3. CASE \E i \in 1..Len(channel[Mine(c)]) : channel[Mine(c)][i].seq = n
      <4> HIDE DEF event
      <4> QED
        BY <1>0, <2>2, <3>1, <3>3, AppendKeeps DEF Accounted
    <3>4. CASE \E o \in Emitters : emitter[o].pc = "put" /\ emitter[o].seq = n
      <4>1. PICK o \in Emitters : emitter[o].pc = "put" /\ emitter[o].seq = n
        BY <3>4
      <4>2. CASE o = e
        <5>1. event.seq = n
          BY <4>1, <4>2
        <5> HIDE DEF event
        <5> QED
          BY <1>0, <2>2, <3>1, <5>1, AppendKeeps DEF Accounted
      <4>3. CASE o # e
        BY <2>1, <4>1, <4>3 DEF Accounted
      <4> QED
        BY <4>2, <4>3
    <3> QED
      BY <2>4, <3>2, <3>3, <3>4 DEF Accounted
  <2> QED
    BY <2>1, <2>4 DEF HandOverInv
<1>4. ASSUME NEW d \in Clients, Connect(d) PROVE Goal
  <2>1. /\ client[d].pc = "off" /\ seen' = [seen EXCEPT ![d] = @ \union Rows(client[d].cursor)]
        /\ client'[d].pc \in {"over", "joining"} /\ \A o \in Clients : o # d => client'[o] = client[o]
        /\ UNCHANGED <<redis, evlog, emitter, channel, spoiled>>
    BY <1>0, <1>4 DEF Connect, EventsTyped
  <2>2. CASE c = d
    <3>1. seen[c] = {} /\ client[c].cursor = 0
      BY <1>0, <2>1, <2>2, HighestIs DEF HandOverInv, Numbered
    <3>2. \A n \in 1..Len(evlog) : n \in seen'[c]
      BY <1>0, <2>1, <2>2, <3>1 DEF Rows, EventsTyped
    <3> QED
      BY <2>1, <2>2, <3>2 DEF Accounted
  <2>3. CASE c # d
    <3>1. seen'[c] = seen[c] /\ client'[c] = client[c]
      BY <1>0, <2>1, <2>3 DEF EventsTyped
    <3> QED
      BY <2>1, <3>1 DEF HandOverInv, Accounted, Mine
  <2> QED
    BY <2>2, <2>3
<1>5. ASSUME NEW d \in Clients, Receive(d) PROVE Goal
  <2> DEFINE event == Head(channel[Mine(d)])
             new == IF event.seq = 0 THEN {} ELSE {event.seq}
  <2>1. /\ client[d].pc = "live" /\ channel[Mine(d)] # <<>>
        /\ channel' = [channel EXCEPT ![Mine(d)] = Tail(@)]
        /\ seen' = [seen EXCEPT ![d] = @ \union new]
        /\ client'[d].pc \in {"over", "live"} /\ \A o \in Clients : o # d => client'[o] = client[o]
        /\ c \notin Robbed(d)
        /\ UNCHANGED <<redis, evlog, emitter>>
    BY <1>0, <1>5 DEF Receive, EventsTyped
  <2>2. c \notin spoiled
    BY <2>1 DEF Robbed
  <2>3. CASE c = d
    <3>1. channel'[Mine(c)] = Tail(channel[Mine(c)]) /\ seen'[c] = seen[c] \union new
      BY <1>0, <2>1, <2>3 DEF EventsTyped
    <3>2. ASSUME NEW n \in 1..Len(evlog), Accounted(c, n) PROVE Accounted(c, n)'
      <4>1. Mine(c)' = Mine(c)
        BY <2>1 DEF Mine
      <4>2. CASE \E i \in 1..Len(channel[Mine(c)]) : channel[Mine(c)][i].seq = n
        <5>1. PICK i \in 1..Len(channel[Mine(c)]) : channel[Mine(c)][i].seq = n
          BY <4>2
        <5>2. CASE channel[Mine(c)][i] = Head(channel[Mine(c)])
          <6>1. n \in new
            BY <2>3, <5>1, <5>2
          <6> QED
            BY <3>1, <6>1 DEF Accounted
        <5>3. CASE i - 1 \in 1..Len(Tail(channel[Mine(c)]))
                   /\ Tail(channel[Mine(c)])[i - 1] = channel[Mine(c)][i]
          BY <3>1, <4>1, <5>1, <5>3 DEF Accounted
        <5> QED
          BY <1>0, <2>1, <2>3, <5>2, <5>3, TailKeeps
      <4>3. CASE n \in seen[c] \/ \E o \in Emitters : emitter[o].pc = "put" /\ emitter[o].seq = n
        BY <2>1, <3>1, <4>3 DEF Accounted
      <4> QED
        BY <3>2, <4>2, <4>3 DEF Accounted
    <3> QED
      BY <2>1, <2>2, <2>3, <3>2 DEF HandOverInv
  <2>4. CASE c # d
    <3>1. seen'[c] = seen[c] /\ client'[c] = client[c]
      BY <1>0, <2>1, <2>4 DEF EventsTyped
    <3>2. CASE client[c].pc \in {"joining", "live"}
      <4>1. redis /\ channel'[Mine(c)] = channel[Mine(c)]
        BY <1>0, <2>1, <2>4, <3>2 DEF Robbed, Streams, Mine, EventsTyped, Places
      <4>2. Mine(c)' = Mine(c)
        BY <2>1 DEF Mine
      <4>3. \A n : Accounted(c, n) => Accounted(c, n)'
        BY <2>1, <3>1, <4>1, <4>2 DEF Accounted
      <4> QED
        BY <2>1, <2>2, <3>1, <3>2, <4>3 DEF HandOverInv
    <3> QED
      BY <2>2, <3>1, <3>2 DEF HandOverInv
  <2> QED
    BY <2>3, <2>4
<1>6. ASSUME NEW d \in Clients, Subscribe(d) \/ Quiet(d) PROVE Goal
  <2>1. /\ client[d].pc \in {"joining", "live"} /\ client'[d].pc \in {"live", "over"}
        /\ \A o \in Clients : o # d => client'[o] = client[o]
        /\ UNCHANGED <<redis, evlog, emitter, channel, seen, spoiled>>
    BY <1>0, <1>6 DEF Subscribe, Quiet, EventsTyped
  <2> QED
    BY <2>1 DEF HandOverInv, Accounted, Mine
<1>7. ASSUME NEW d \in Clients, Drop(d) PROVE Goal
  <2>1. /\ client[d].pc \in {"joining", "live"} /\ c \notin Robbed(d) \union {d}
        /\ \A o \in Clients : o # d => client'[o] = client[o]
        /\ UNCHANGED <<redis, evlog, emitter, seen>>
    BY <1>0, <1>7 DEF Drop, EventsTyped
  <2>2. c # d /\ c \notin spoiled /\ client'[c] = client[c]
    BY <2>1 DEF Robbed
  <2>3. CASE client[c].pc \in {"joining", "live"}
    <3>1. redis /\ Mine(c) = c
      BY <2>1, <2>2, <2>3 DEF Robbed, Streams, Mine
    <3>2. channel'[c] = channel[c]
      BY <1>0, <1>7, <2>2, <3>1 DEF Drop, EventsTyped, Places
    <3> QED
      BY <2>1, <2>2, <3>1, <3>2 DEF HandOverInv, Accounted, Mine
  <2> QED
    BY <2>1, <2>2, <2>3 DEF HandOverInv
<1>8. CASE EndJob \/ UNCHANGED eventVars
  BY <1>8 DEF EndJob, eventVars, HandOverInv, Accounted, Mine
<1> QED
  BY <1>1, <1>2, <1>3, <1>4, <1>5, <1>6, <1>7, <1>8 DEF EventsNext, EmitStep, StreamStep

\* Between the replay and the live events nothing is lost: a client alone on its
\* channel, whose connection held and whose emitters did not overlap, has the whole
\* log when its channel is empty and nothing is being put.
THEOREM HandOverIsComplete == EventsSpec => []HandOverComplete
<1>1. EventsInit => HandOverInv
  BY DEF EventsInit, HandOverInv
<1>2. EventsInv /\ HandOverInv => HandOverComplete
  <2> SUFFICES ASSUME EventsInv, HandOverInv, NEW c \in Clients,
                      client[c].pc = "live", channel[Mine(c)] = <<>>, c \notin spoiled,
                      \A e \in Emitters : emitter[e].pc # "put"
               PROVE  seen[c] = 1..Len(evlog)
    BY DEF HandOverComplete
  <2>1. seen[c] \subseteq 1..Len(evlog)
    BY DEF EventsInv, Numbered
  <2>2. \A n \in 1..Len(evlog) : n \in seen[c]
    BY DEF HandOverInv, Accounted
  <2> QED
    BY <2>1, <2>2
<1>3. QED
  BY <1>1, <1>2, EventsInitInv, EventsStepInv, HandOverStep, PTL DEF EventsSpec

-----------------------------------------------------------------------------
(* The types, with the bounds of the instance. *)

\* No number beyond the bound is read, and none is logged that was not read.
Bounded ==
    /\ rowLocks \in BOOLEAN /\ redis \in BOOLEAN /\ ended \in BOOLEAN
    /\ drops \in 0..MaxDrops /\ Len(evlog) <= MaxLog
    /\ \A e \in Emitters : emitter[e].pc = "read" => emitter[e].seq <= MaxLog

\* The guards of ReadSeq and Drop keep the bounds.
LEMMA BoundedStep == EventsInv /\ Bounded /\ [EventsNext]_eventVars => Bounded'
<1> SUFFICES ASSUME EventsInv, Bounded, [EventsNext]_eventVars PROVE Bounded'
  OBVIOUS
<1>0. EventsTyped /\ Numbered /\ Len(evlog) \in Nat /\ MaxLog \in Nat /\ MaxDrops \in Nat
  BY EventsAssumption DEF EventsInv, EventsTyped
<1>1. ASSUME NEW e \in Emitters, NEW kind \in EventKinds, ReadSeq(e, kind) PROVE Bounded'
  <2>1. /\ Len(evlog) < MaxLog
        /\ emitter' = [emitter EXCEPT ![e] = [pc |-> "read", kind |-> kind, seq |-> Len(evlog) + 1]]
        /\ UNCHANGED <<rowLocks, redis, evlog, ended, drops>>
    BY <1>1 DEF ReadSeq
  <2>2. \A o \in Emitters : emitter'[o].pc = "read" => emitter'[o].seq <= MaxLog
    BY <1>0, <2>1 DEF Bounded, EventsTyped
  <2> QED
    BY <2>1, <2>2 DEF Bounded
<1>2. ASSUME NEW e \in Emitters, InsertEvent(e) PROVE Bounded'
  <2>1. /\ emitter[e].pc = "read" /\ emitter[e].seq \in 1..(Len(evlog) + 1) /\ emitter[e].seq <= MaxLog
        /\ emitter'[e].pc = "put" /\ \A o \in Emitters : o # e => emitter'[o] = emitter[o]
    BY <1>0, <1>2 DEF InsertEvent, Numbered, Bounded, EventsTyped
  <2>2. Len(evlog') <= MaxLog
    <3>1. CASE emitter[e].seq <= Len(evlog)
      BY <1>2, <3>1 DEF InsertEvent, Bounded
    <3>2. CASE ~(emitter[e].seq <= Len(evlog))
      <4>1. evlog' = Append(evlog, emitter[e].kind) /\ emitter[e].seq = Len(evlog) + 1
        BY <1>0, <1>2, <2>1, <3>2 DEF InsertEvent
      <4>2. Len(evlog') = Len(evlog) + 1
        BY <1>0, <4>1 DEF EventsTyped
      <4> QED
        BY <2>1, <4>1, <4>2
    <3> QED
      BY <3>1, <3>2
  <2>3. UNCHANGED <<rowLocks, redis, ended, drops>>
    BY <1>2 DEF InsertEvent
  <2>4. \A o \in Emitters : emitter'[o].pc = "read" => emitter'[o].seq <= MaxLog
    BY <2>1 DEF Bounded
  <2> QED
    BY <2>2, <2>3, <2>4 DEF Bounded
<1>3. ASSUME NEW e \in Emitters, PutEvent(e) PROVE Bounded'
  <2>1. /\ emitter'[e].pc = "idle" /\ \A o \in Emitters : o # e => emitter'[o] = emitter[o]
        /\ UNCHANGED <<rowLocks, redis, ended, drops, evlog>>
    BY <1>0, <1>3 DEF PutEvent, EventsTyped, Idle
  <2> QED
    BY <2>1 DEF Bounded
<1>4. CASE EndJob
  <2>1. ended' \in BOOLEAN /\ UNCHANGED <<rowLocks, redis, drops, evlog, emitter>>
    BY <1>4 DEF EndJob
  <2> QED
    BY <2>1 DEF Bounded
<1>5. ASSUME NEW c \in Clients, Drop(c) PROVE Bounded'
  <2>1. drops' \in 0..MaxDrops
    BY <1>0, <1>5 DEF Drop, Bounded
  <2>2. UNCHANGED <<rowLocks, redis, ended, evlog, emitter>>
    BY <1>5 DEF Drop
  <2> QED
    BY <2>1, <2>2 DEF Bounded
<1>6. ASSUME NEW c \in Clients, Connect(c) \/ Subscribe(c) \/ Receive(c) \/ Quiet(c) PROVE Bounded'
  BY <1>6 DEF Connect, Subscribe, Receive, Quiet, Bounded
<1>7. CASE UNCHANGED eventVars
  BY <1>7 DEF eventVars, Bounded
<1> QED
  BY <1>1, <1>2, <1>3, <1>4, <1>5, <1>6, <1>7 DEF EventsNext, EmitStep, StreamStep

\* Every variable of the stream keeps its type: no cursor points, and no client is
\* given a number, beyond the log.
THEOREM EventsTypeCorrect == EventsSpec => []EventsTypeOK
<1>1. EventsInit => Bounded
  <2> SUFFICES ASSUME EventsInit PROVE Bounded
    OBVIOUS
  <2>1. rowLocks \in BOOLEAN /\ redis \in BOOLEAN
    BY Zenon DEF EventsInit
  <2>2. ended \in BOOLEAN
    BY DEF EventsInit
  <2>4. drops = 0 /\ evlog = <<>>
    BY DEF EventsInit
  <2>5. drops \in 0..MaxDrops /\ Len(evlog) <= MaxLog
    BY <2>4, EventsAssumption
  <2>3. \A e \in Emitters : emitter[e].pc # "read"
    BY DEF EventsInit, Idle
  <2> QED
    BY <2>1, <2>2, <2>3, <2>5 DEF Bounded
<1>2. EventsInv /\ Bounded => EventsTypeOK
  <2> SUFFICES ASSUME EventsInv, Bounded PROVE EventsTypeOK
    OBVIOUS
  <2>0. EventsTyped /\ Numbered /\ Len(evlog) \in Nat /\ MaxLog \in Nat /\ Len(evlog) <= MaxLog
    BY EventsAssumption DEF EventsInv, EventsTyped, Bounded
  <2>1. ASSUME NEW c \in Clients
        PROVE  /\ client[c].pc \in {"off", "joining", "live", "over"}
               /\ client[c].cursor \in 0..MaxLog /\ seen[c] \subseteq 1..MaxLog
    <3>1. seen[c] \in SUBSET (1..Len(evlog)) /\ client[c].cursor = Highest(seen[c])
      BY <2>0 DEF Numbered
    <3>2. Highest(seen[c]) \in 0..Len(evlog)
      BY <2>0, <3>1, HighestFound
    <3> QED
      BY <2>0, <3>1, <3>2 DEF EventsTyped
  <2>2. \A e \in Emitters : emitter[e].pc \in {"idle", "read", "put"} /\ emitter[e].kind \in EventKinds
    BY <2>0 DEF EventsTyped
  <2> QED
    BY <2>0, <2>1, <2>2 DEF EventsTypeOK, EventsTyped, Bounded
<1>3. QED
  BY <1>1, <1>2, EventsInitInv, EventsStepInv, BoundedStep, PTL DEF EventsSpec
=============================================================================
