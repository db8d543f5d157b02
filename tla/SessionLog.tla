------------------------------ MODULE SessionLog ------------------------------
(***************************************************************************)
(* What a session record is for: a log of what happened in a session, that *)
(* starts, grows and is closed, and that only a new start replaces.        *)
(***************************************************************************)
CONSTANTS Session, Event

VARIABLES started,  \* session -> it has a log
          closed,   \* session -> its log was closed
          events    \* session -> what the log says

vars == <<started, closed, events>>

Init == /\ started = [s \in Session |-> FALSE]
        /\ closed = [s \in Session |-> FALSE]
        /\ events = [s \in Session |-> {}]

\* A session starts, for the first time or again.
Start(s) ==
    /\ started' = [started EXCEPT ![s] = TRUE]
    /\ closed' = [closed EXCEPT ![s] = FALSE]
    /\ events' = [events EXCEPT ![s] = {"session_started"}]

\* The log grows by one event.
Append(s, e) ==
    /\ started[s]
    /\ events' = [events EXCEPT ![s] = @ \cup {e}]
    /\ UNCHANGED <<started, closed>>

\* An open log is closed.
Close(s) ==
    /\ started[s] /\ ~closed[s]
    /\ closed' = [closed EXCEPT ![s] = TRUE]
    /\ events' = [events EXCEPT ![s] = @ \cup {"session_ended"}]
    /\ UNCHANGED started

Next == \E s \in Session : Start(s) \/ Close(s) \/ \E e \in Event : Append(s, e)

Spec == Init /\ [][Next]_vars
=============================================================================
