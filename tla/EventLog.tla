------------------------------ MODULE EventLog ------------------------------
(***************************************************************************)
(* What the event log of a job promises its followers: the log only grows, *)
(* an event keeps its number, a replay hands over everything after the     *)
(* follower's cursor, in order, and a live event is one of the log.  A     *)
(* follower's cursor is the highest number it has been given.              *)
(***************************************************************************)
EXTENDS Naturals, Sequences

CONSTANTS Followers, Kinds

VARIABLES
    log,     \* the kinds of the events, in the order of their numbers
    given    \* the numbers each follower has been given

logVars == <<log, given>>

CursorOf(S) == CHOOSE n \in S \union {0} : \A m \in S : m <= n

Append1(kind) == log' = Append(log, kind) /\ UNCHANGED given

\* All there is after the cursor, or what arrived of it before the connection broke.
Replay(f) ==
    /\ \E upto \in CursorOf(given[f]) .. Len(log) :
         given' = [given EXCEPT ![f] = @ \union (CursorOf(@) + 1) .. upto]
    /\ UNCHANGED log

Live(f) ==
    /\ \E n \in 1 .. Len(log) : given' = [given EXCEPT ![f] = @ \union {n}]
    /\ UNCHANGED log

LogInit == log = <<>> /\ given = [f \in Followers |-> {}]
LogNext == (\E kind \in Kinds : Append1(kind)) \/ \E f \in Followers : Replay(f) \/ Live(f)
LogSpec == LogInit /\ [][LogNext]_logVars
=============================================================================
