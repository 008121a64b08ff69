------------------------------ MODULE JobEvents ------------------------------
(***************************************************************************)
(* The events of one job: the log in the database (append_event), the live *)
(* channel of the job store (InMemoryJobStore, RedisJobStore), and the     *)
(* streams that first replay the log after the client's cursor and then    *)
(* follow the channel (_stream_job_events of api/main.py).                 *)
(*                                                                         *)
(* Emitters are the event loop and pool threads.  In memory there is one   *)
(* queue per job, which keeps what nobody has taken, and which all streams *)
(* take from; on Redis each stream has a queue of its own, which holds     *)
(* what was published since it subscribed.                                 *)
(***************************************************************************)
EXTENDS Naturals, Sequences, FiniteSets

CONSTANTS
    Emitters, Clients,
    MaxLog,      \* bound: events of the job
    MaxDrops     \* bound: broken connections

ASSUME EventsAssumption == MaxLog \in Nat /\ MaxDrops \in Nat

VARIABLES
    rowLocks,    \* FOR UPDATE locks the job row (MySQL); SQLite ignores it
    redis,       \* the job store is Redis
    evlog,       \* job_events, by seq: the kind of the event
    emitter,     \* an emitter's event: where it is, its kind, its seq or 0
    channel,     \* the shared queue in memory, the queue of each stream on Redis
    client,      \* a client: its stream, its cursor
    seen,        \* the numbers a client was given
    ended,       \* the job's status is completed or failed
    drops,
    spoiled      \* history: clients whose queue another stream took from, whose
                 \* connection broke, that were not yet subscribed on Redis when an
                 \* event came; all, when one got no number or overtook another

eventVars == <<rowLocks, redis, evlog, emitter, channel, client, seen, ended, drops, spoiled>>

EventKinds == {"queued", "step", "end"}
CloseStream == {"queued", "end"}
Idle == [pc |-> "idle", kind |-> "step", seq |-> 0]
Shared == "shared"
Streams == {c \in Clients : client[c].pc \in {"joining", "live"}}
Highest(S) == CHOOSE n \in S \union {0} : \A m \in S : m <= n

-----------------------------------------------------------------------------
(* append_event, then emit_event of the store.                             *)

\* A job waits in the queue first or not; its status is set before it is announced.
ReadSeq(e, kind) ==
    /\ emitter[e].pc = "idle" /\ Len(evlog) < MaxLog
    /\ kind = "queued" => evlog = <<>> /\ \A o \in Emitters : emitter[o].pc = "idle"
    /\ kind = "end" => ended
    /\ rowLocks => \A o \in Emitters : emitter[o].pc # "read"
    /\ emitter' = [emitter EXCEPT ![e] = [pc |-> "read", kind |-> kind, seq |-> Len(evlog) + 1]]
    /\ UNCHANGED <<rowLocks, redis, evlog, channel, client, seen, ended, drops, spoiled>>

\* Without the constraint on (job_id, seq) the later writer replaces the earlier
\* one's event (mutant of InsertEvent).
InsertOver(e) ==
    LET n == emitter[e].seq IN
    /\ emitter[e].pc = "read"
    /\ evlog' = IF n > Len(evlog) THEN Append(evlog, emitter[e].kind)
                ELSE [evlog EXCEPT ![n] = emitter[e].kind]
    /\ emitter' = [emitter EXCEPT ![e].pc = "put"]
    /\ UNCHANGED <<rowLocks, redis, channel, client, seen, ended, drops, spoiled>>

\* The number is taken: the insert is refused, and the event goes out without one.
InsertEvent(e) ==
    LET taken == emitter[e].seq <= Len(evlog) IN
    /\ emitter[e].pc = "read"
    /\ evlog' = IF taken THEN evlog ELSE Append(evlog, emitter[e].kind)
    /\ emitter' = [emitter EXCEPT ![e].pc = "put", ![e].seq = IF taken THEN 0 ELSE @]
    /\ spoiled' = IF taken THEN Clients ELSE spoiled
    /\ UNCHANGED <<rowLocks, redis, channel, client, seen, ended, drops>>

\* Without a stream to take it the event is dropped (mutant of PutEvent).
PutIfTaken(e) ==
    LET event == [kind |-> emitter[e].kind, seq |-> emitter[e].seq]
        live == {c \in Clients : client[c].pc = "live"} IN
    /\ emitter[e].pc = "put"
    /\ channel' = IF redis
         THEN [c \in Clients \union {Shared} |-> IF c \in live THEN Append(channel[c], event) ELSE channel[c]]
         ELSE IF live = {} THEN channel ELSE [channel EXCEPT ![Shared] = Append(@, event)]
    /\ emitter' = [emitter EXCEPT ![e] = Idle]
    /\ spoiled' = spoiled
         \union (IF \E o \in Emitters \ {e} : emitter[o].pc = "put" THEN Clients ELSE {})
         \union (IF redis THEN {c \in Clients : client[c].pc = "joining"} ELSE {})
    /\ UNCHANGED <<rowLocks, redis, evlog, client, seen, ended, drops>>

\* Events overtake one another here: the log's order is not the channel's.
PutEvent(e) ==
    LET event == [kind |-> emitter[e].kind, seq |-> emitter[e].seq] IN
    /\ emitter[e].pc = "put"
    /\ channel' = IF redis
         THEN [c \in Clients \union {Shared} |->
                 IF c \in Clients /\ client[c].pc = "live" THEN Append(channel[c], event) ELSE channel[c]]
         ELSE [channel EXCEPT ![Shared] = Append(@, event)]
    /\ emitter' = [emitter EXCEPT ![e] = Idle]
    /\ spoiled' = spoiled
         \union (IF \E o \in Emitters \ {e} : emitter[o].pc = "put" THEN Clients ELSE {})
         \union (IF redis THEN {c \in Clients : client[c].pc = "joining"} ELSE {})
    /\ UNCHANGED <<rowLocks, redis, evlog, client, seen, ended, drops>>

EndJob ==
    /\ ~ended /\ ended' = TRUE
    /\ UNCHANGED <<rowLocks, redis, evlog, emitter, channel, client, seen, drops, spoiled>>

-----------------------------------------------------------------------------
(* A stream.                                                               *)

Rows(after) == {n \in 1 .. Len(evlog) : n > after}

\* fetch_events_after; the stream is over when it replays an end, or a "queued"
\* of long ago.
Connect(c) ==
    LET rows == Rows(client[c].cursor) IN
    /\ client[c].pc = "off"
    /\ seen' = [seen EXCEPT ![c] = @ \union rows]
    /\ client' = [client EXCEPT ![c] =
          [pc |-> IF \E n \in rows : evlog[n] \in CloseStream THEN "over" ELSE "joining",
           cursor |-> Highest(seen'[c])]]
    /\ UNCHANGED <<rowLocks, redis, evlog, emitter, channel, ended, drops, spoiled>>

Subscribe(c) ==
    /\ client[c].pc = "joining"
    /\ client' = [client EXCEPT ![c].pc = "live"]
    /\ UNCHANGED <<rowLocks, redis, evlog, emitter, channel, seen, ended, drops, spoiled>>

Mine(c) == IF redis THEN c ELSE Shared
Robbed(c) == IF redis THEN spoiled ELSE spoiled \union (Streams \ {c})

\* What the queue has is yielded, whether the replay has already shown it or not.
Receive(c) ==
    LET event == Head(channel[Mine(c)])
        new == IF event.seq = 0 THEN {} ELSE {event.seq} IN
    /\ client[c].pc = "live" /\ channel[Mine(c)] # <<>>
    /\ channel' = [channel EXCEPT ![Mine(c)] = Tail(@)]
    /\ seen' = [seen EXCEPT ![c] = @ \union new]
    /\ client' = [client EXCEPT ![c] =
          [pc |-> IF event.kind \in CloseStream THEN "over" ELSE "live",
           cursor |-> Highest(new \union {client[c].cursor})]]
    /\ spoiled' = Robbed(c)
    /\ UNCHANGED <<rowLocks, redis, evlog, emitter, ended, drops>>

\* Nothing came for poll_interval, and the job is over.
Quiet(c) ==
    /\ client[c].pc = "live" /\ channel[Mine(c)] = <<>> /\ ended
    /\ client' = [client EXCEPT ![c].pc = "over"]
    /\ UNCHANGED <<rowLocks, redis, evlog, emitter, channel, seen, ended, drops, spoiled>>

\* The connection breaks; the event the stream has just taken may go with it.
Drop(c) ==
    /\ client[c].pc \in {"joining", "live"} /\ drops < MaxDrops /\ drops' = drops + 1
    /\ client' = [client EXCEPT ![c].pc = "off"]
    /\ \/ channel' = IF redis THEN [channel EXCEPT ![c] = <<>>] ELSE channel
       \/ /\ ~redis /\ client[c].pc = "live" /\ channel[Shared] # <<>>
          /\ channel' = [channel EXCEPT ![Shared] = Tail(@)]
    /\ spoiled' = Robbed(c) \union {c}
    /\ UNCHANGED <<rowLocks, redis, evlog, emitter, seen, ended>>

-----------------------------------------------------------------------------
EventsInit ==
    /\ rowLocks \in BOOLEAN /\ redis \in BOOLEAN
    /\ evlog = <<>> /\ emitter = [e \in Emitters |-> Idle]
    /\ channel = [c \in Clients \union {Shared} |-> <<>>]
    /\ client = [c \in Clients |-> [pc |-> "off", cursor |-> 0]]
    /\ seen = [c \in Clients |-> {}]
    /\ ended = FALSE /\ drops = 0 /\ spoiled = {}

EmitStep(e) == (\E kind \in EventKinds : ReadSeq(e, kind)) \/ InsertEvent(e) \/ PutEvent(e)
StreamStep(c) == Subscribe(c) \/ Receive(c) \/ Quiet(c)
EventsNext ==
    \/ \E e \in Emitters : EmitStep(e)
    \/ EndJob
    \/ \E c \in Clients : Connect(c) \/ StreamStep(c) \/ Drop(c)

EventsSpec == EventsInit /\ [][EventsNext]_eventVars

-----------------------------------------------------------------------------
\* The type of every variable.
EventsTypeOK ==
    /\ rowLocks \in BOOLEAN /\ redis \in BOOLEAN /\ ended \in BOOLEAN /\ drops \in 0 .. MaxDrops
    /\ evlog \in Seq(EventKinds)
    /\ \A e \in Emitters : emitter[e].pc \in {"idle", "read", "put"} /\ emitter[e].kind \in EventKinds
    /\ \A c \in Clients : /\ client[c].pc \in {"off", "joining", "live", "over"}
                          /\ client[c].cursor \in 0 .. MaxLog
                          /\ seen[c] \subseteq 1 .. MaxLog

\* The event log is what EventLog promises, with two emitters that read the same
\* number, streams that share a queue, and clients that come back with a cursor.
Log == INSTANCE EventLog WITH log <- evlog, given <- seen, Followers <- Clients, Kinds <- EventKinds
ImplementsLog == Log!LogSpec

\* Between the replay and the live events nothing is lost: a client alone on its
\* channel, whose connection held and whose emitters did not overlap, has all of
\* the log when its channel is empty and nothing is being emitted.
HandOverComplete ==
    \A c \in Clients :
        (/\ client[c].pc = "live" /\ channel[Mine(c)] = <<>> /\ c \notin spoiled
         /\ \A e \in Emitters : emitter[e].pc # "put") => seen[c] = 1 .. Len(evlog)
=============================================================================
