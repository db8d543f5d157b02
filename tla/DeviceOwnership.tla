--------------------------- MODULE DeviceOwnership ---------------------------
(***************************************************************************)
(* What the device lease promises, without files, locks or processes: a    *)
(* device has at most one owner, an owner is replaced only after it was    *)
(* revoked, and the heartbeat of an owner never runs backwards.            *)
(***************************************************************************)
EXTENDS Integers

CONSTANTS Session,  \* session ids
          Device,   \* devices that can be leased
          Time,     \* instants, integers
          None      \* "no owner"

VARIABLES owner,    \* device -> the session that may write to it, or None
          renewed   \* device -> last heartbeat of its owner, 0 without one

Init == /\ owner = [d \in Device |-> None]
        /\ renewed = [d \in Device |-> 0]

\* A free device gets an owner.
Grant(d, s, t) ==
    /\ owner[d] = None
    /\ owner' = [owner EXCEPT ![d] = s]
    /\ renewed' = [renewed EXCEPT ![d] = t]

\* The owner of a device renews its lease.
Renew(d, t) ==
    /\ owner[d] # None
    /\ t >= renewed[d]
    /\ renewed' = [renewed EXCEPT ![d] = t]
    /\ UNCHANGED owner

\* A lease ends: released, recovered as stale, or taken from a session that is not open.
Revoke(d) ==
    /\ owner[d] # None
    /\ owner' = [owner EXCEPT ![d] = None]
    /\ renewed' = [renewed EXCEPT ![d] = 0]

Next == \E d \in Device :
            \/ \E s \in Session, t \in Time : Grant(d, s, t)
            \/ \E t \in Time : Renew(d, t)
            \/ Revoke(d)

Spec == Init /\ [][Next]_<<owner, renewed>>
=============================================================================
