----------------------------- MODULE DeviceLease -----------------------------
(***************************************************************************)
(* The device lease of packages/core: execution-coordinator.ts on top of   *)
(* device-lease-store.ts.                                                  *)
(*                                                                         *)
(* A lease is a JSON file per device; an operation on it is a sequence of  *)
(* file-system calls (mkdir, readFile, rename, unlink, rm), each of them   *)
(* atomic and each of them a step here, so that calls of several processes *)
(* interleave at every await.  All operations but releaseLease run inside  *)
(* withDeviceLeaseLock, whose lock is the directory that mkdir creates.    *)
(* A process runs at most one call at a time; a call ends in pc "done",    *)
(* with its outcome, until its caller consumes it (Return).                *)
(***************************************************************************)
EXTENDS Integers

CONSTANTS
    Session, Device, Proc,
    None,           \* no lease file, no session, no device
    MaxAttempts,    \* mkdir attempts before withDeviceLeaseLock gives up (50)
    StaleAfter,     \* age after which a heartbeat is stale (5 minutes)
    MaxTime,        \* bound: the clock stops here
    Failures        \* the failures a run considers, a subset of FailureKinds

FailureKinds == {"io", "rm", "crash"}

Lease == [owner : Session, state : {"leased", "busy"}, heartbeatAt : 0..MaxTime]

ASSUME LeaseAssumption ==
    /\ MaxAttempts \in Nat \ {0}
    /\ StaleAfter \in Nat
    /\ MaxTime \in Nat
    /\ Failures \subseteq FailureKinds
    /\ None \notin Session \cup Device \cup Lease

VARIABLES
    now,        \* Date.now()
    lease,      \* artifacts/leases/<device>.json: None or a Lease
    leaseLock,  \* artifacts/leases/.locks/<device>.lock exists
    open,       \* the session has a record and it is not closed
    pc, op, sess, dev,  \* per process: next step of its call, the call and its arguments
    tries,      \* mkdir attempts already made
    copy,       \* the lease the call has read, or is about to write
    asOf, unlisted, stale, recovered,
                \* recoverStaleLeases: its clock, the files left to list, the devices
                \* listed as stale, the owners of the leases removed
    outcome     \* result of the call

sweep == <<asOf, unlisted, stale, recovered>>
callVars == <<pc, op, sess, dev, tries, copy, sweep, outcome>>
vars == <<now, lease, leaseLock, open, callVars>>

LockedOps == {"acquire", "markBusy", "markIdle", "refreshHeartbeat"}
Ops == LockedOps \cup {"release", "recover"}

\* Inside withDeviceLeaseLock's try block, up to the rm of its finally.
Critical == {"load", "owner", "steal", "reread", "persist", "remove", "unlock"}

IsStale(l, t) == t - l.heartbeatAt > StaleAfter

Init ==
    /\ now = 0
    /\ lease = [d \in Device |-> None]
    /\ leaseLock = [d \in Device |-> FALSE]
    /\ open = [s \in Session |-> FALSE]
    /\ pc = [p \in Proc |-> "idle"]
    /\ op = [p \in Proc |-> None]
    /\ sess = [p \in Proc |-> None]
    /\ dev = [p \in Proc |-> None]
    /\ tries = [p \in Proc |-> 0]
    /\ copy = [p \in Proc |-> None]
    /\ asOf = [p \in Proc |-> 0]
    /\ unlisted = [p \in Proc |-> {}]
    /\ stale = [p \in Proc |-> {}]
    /\ recovered = [p \in Proc |-> {}]
    /\ outcome = [p \in Proc |-> "none"]

-----------------------------------------------------------------------------
(* Calls and their end *)

\* Mutant: acquireLease outside withDeviceLeaseLock.
CallUnlockedAcquire(p, o, s, d) ==
    /\ pc[p] = "idle"
    /\ pc' = [pc EXCEPT ![p] = CASE o = "release" -> "rload" [] o = "acquire" -> "load"
                                 [] OTHER -> "lock"]
    /\ op' = [op EXCEPT ![p] = o]
    /\ sess' = [sess EXCEPT ![p] = s]
    /\ dev' = [dev EXCEPT ![p] = d]
    /\ UNCHANGED <<now, lease, leaseLock, open, tries, copy, sweep, outcome>>

\* acquireLease, markBusy, markIdle, refreshHeartbeat and releaseLease are called
\* with a session and a device.
Call(p, o, s, d) ==
    /\ pc[p] = "idle"
    /\ pc' = [pc EXCEPT ![p] = IF o = "release" THEN "rload" ELSE "lock"]
    /\ op' = [op EXCEPT ![p] = o]
    /\ sess' = [sess EXCEPT ![p] = s]
    /\ dev' = [dev EXCEPT ![p] = d]
    /\ UNCHANGED <<now, lease, leaseLock, open, tries, copy, sweep, outcome>>

\* recoverStaleLeases reads the clock once, then lists the lease files.
CallRecover(p) ==
    /\ pc[p] = "idle"
    /\ pc' = [pc EXCEPT ![p] = "list"]
    /\ op' = [op EXCEPT ![p] = "recover"]
    /\ asOf' = [asOf EXCEPT ![p] = now]
    /\ unlisted' = [unlisted EXCEPT ![p] = Device]
    /\ UNCHANGED <<now, lease, leaseLock, open, sess, dev, tries, copy, stale, recovered, outcome>>

\* The state of a process that runs no call.
Forget(p) ==
    /\ pc' = [pc EXCEPT ![p] = "idle"]
    /\ op' = [op EXCEPT ![p] = None]
    /\ sess' = [sess EXCEPT ![p] = None]
    /\ dev' = [dev EXCEPT ![p] = None]
    /\ tries' = [tries EXCEPT ![p] = 0]
    /\ copy' = [copy EXCEPT ![p] = None]
    /\ asOf' = [asOf EXCEPT ![p] = 0]
    /\ unlisted' = [unlisted EXCEPT ![p] = {}]
    /\ stale' = [stale EXCEPT ![p] = {}]
    /\ recovered' = [recovered EXCEPT ![p] = {}]
    /\ outcome' = [outcome EXCEPT ![p] = "none"]

\* The caller takes the outcome.
Return(p) ==
    /\ pc[p] = "done"
    /\ Forget(p)
    /\ UNCHANGED <<now, lease, leaseLock, open>>

\* The process dies and a new one takes its place.  Nothing on disk changes: a
\* lock directory it had created stays.
Crash(p) ==
    /\ "crash" \in Failures
    /\ pc[p] # "idle"
    /\ Forget(p)
    /\ UNCHANGED <<now, lease, leaseLock, open>>

\* p ends its call with result r.
Finish(p, r) ==
    /\ pc' = [pc EXCEPT ![p] = "done"]
    /\ outcome' = [outcome EXCEPT ![p] = r]

\* p leaves the task of withDeviceLeaseLock with result r; the lock is still held.
Leave(p, r) ==
    /\ pc' = [pc EXCEPT ![p] = "unlock"]
    /\ outcome' = [outcome EXCEPT ![p] = r]

-----------------------------------------------------------------------------
(* withDeviceLeaseLock *)

\* Mutant: mkdir with recursive: true, which accepts a directory that exists.
TakeLockRecursive(p) ==
    /\ pc[p] = "lock"
    /\ leaseLock' = [leaseLock EXCEPT ![dev[p]] = TRUE]
    /\ tries' = [tries EXCEPT ![p] = 0]
    /\ pc' = [pc EXCEPT ![p] = "load"]
    /\ UNCHANGED <<now, lease, open, op, sess, dev, copy, sweep, outcome>>

\* mkdir creates the lock directory.
TakeLock(p) ==
    /\ pc[p] = "lock"
    /\ ~leaseLock[dev[p]]
    /\ leaseLock' = [leaseLock EXCEPT ![dev[p]] = TRUE]
    /\ tries' = [tries EXCEPT ![p] = 0]
    /\ pc' = [pc EXCEPT ![p] = "load"]
    /\ UNCHANGED <<now, lease, open, op, sess, dev, copy, sweep, outcome>>

\* mkdir fails with EEXIST: sleep and try again, or throw after MaxAttempts.
LockTaken(p) ==
    /\ pc[p] = "lock"
    /\ leaseLock[dev[p]]
    /\ IF tries[p] + 1 < MaxAttempts
       THEN /\ tries' = [tries EXCEPT ![p] = @ + 1]
            /\ UNCHANGED <<pc, outcome>>
       ELSE /\ tries' = [tries EXCEPT ![p] = 0]
            /\ Finish(p, "error")
    /\ UNCHANGED <<now, lease, leaseLock, open, op, sess, dev, copy, sweep>>

\* The finally block removes the lock directory; an error of rm is swallowed and
\* leaves the directory behind.  A recovery goes on with its next lease.
Unlock(p) ==
    /\ pc[p] = "unlock"
    /\ \/ leaseLock' = [leaseLock EXCEPT ![dev[p]] = FALSE]
       \/ "rm" \in Failures /\ UNCHANGED leaseLock
    /\ pc' = [pc EXCEPT ![p] = IF op[p] = "recover" /\ outcome[p] # "error" THEN "next" ELSE "done"]
    /\ copy' = [copy EXCEPT ![p] = None]
    /\ UNCHANGED <<now, lease, open, op, sess, dev, tries, sweep, outcome>>

\* A file-system call throws something the code does not expect (not EEXIST or ENOENT).
\* Inside the lock the finally block still runs.
IoError(p) ==
    /\ "io" \in Failures
    /\ \/ pc[p] \in {"lock", "list", "rload", "rremove"} /\ Finish(p, "error")
       \/ pc[p] \in Critical \ {"unlock"} /\ Leave(p, "error")
    /\ tries' = [tries EXCEPT ![p] = 0]
    /\ UNCHANGED <<now, lease, leaseLock, open, op, sess, dev, copy, sweep>>

-----------------------------------------------------------------------------
(* Inside the lock *)

Foreign(p, l) == l # None /\ l.owner # sess[p]

\* The lease a call writes: the one it found, renewed now, or a new one of its caller.
\* refreshHeartbeat keeps the state.
Renewed(p, l) ==
    [owner |-> IF l = None THEN sess[p] ELSE l.owner,
     state |-> IF op[p] = "markBusy" THEN "busy"
               ELSE IF op[p] = "refreshHeartbeat" THEN l.state ELSE "leased",
     heartbeatAt |-> now]

\* acquireLease reads the lease: another session's is examined, any other is read again.
AcquireLoad(p) ==
    /\ op[p] = "acquire"
    /\ IF Foreign(p, lease[dev[p]])
       THEN /\ copy' = [copy EXCEPT ![p] = lease[dev[p]]]
            /\ pc' = [pc EXCEPT ![p] = "owner"]
       ELSE /\ pc' = [pc EXCEPT ![p] = "reread"]
            /\ UNCHANGED copy
    /\ UNCHANGED outcome

\* markBusy, markIdle and refreshHeartbeat touch only a lease of their own session.
UpdateLoad(p) ==
    /\ op[p] \in {"markBusy", "markIdle", "refreshHeartbeat"}
    /\ IF lease[dev[p]] = None \/ Foreign(p, lease[dev[p]])
       THEN Leave(p, "notUpdated") /\ UNCHANGED copy
       ELSE /\ copy' = [copy EXCEPT ![p] = Renewed(p, lease[dev[p]])]
            /\ pc' = [pc EXCEPT ![p] = "persist"]
            /\ UNCHANGED outcome

\* Mutant: the lease that was listed as stale is not checked again under the lock.
RecoverLoadUnchecked(p) ==
    /\ op[p] = "recover"
    /\ IF lease[dev[p]] # None
       THEN /\ copy' = [copy EXCEPT ![p] = lease[dev[p]]]
            /\ pc' = [pc EXCEPT ![p] = "remove"]
       ELSE /\ pc' = [pc EXCEPT ![p] = "unlock"]
            /\ UNCHANGED copy
    /\ UNCHANGED outcome

\* recoverStaleLeases checks again, with the clock it started with.
RecoverLoad(p) ==
    /\ op[p] = "recover"
    /\ IF lease[dev[p]] # None /\ IsStale(lease[dev[p]], asOf[p])
       THEN /\ copy' = [copy EXCEPT ![p] = lease[dev[p]]]
            /\ pc' = [pc EXCEPT ![p] = "remove"]
       ELSE /\ pc' = [pc EXCEPT ![p] = "unlock"]
            /\ UNCHANGED copy
    /\ UNCHANGED outcome

LoadLease(p) ==
    /\ pc[p] = "load"
    /\ AcquireLoad(p) \/ UpdateLoad(p) \/ RecoverLoad(p)
    /\ UNCHANGED <<now, lease, leaseLock, open, op, sess, dev, tries, sweep>>

\* Mutant: the lease of a closed session is not removed before the second look.
CheckOwnerNoRemoval(p) ==
    /\ pc[p] = "owner"
    /\ IF open[copy[p].owner]
       THEN Leave(p, "busy")
       ELSE pc' = [pc EXCEPT ![p] = "reread"] /\ UNCHANGED outcome
    /\ UNCHANGED <<now, lease, leaseLock, open, op, sess, dev, tries, copy, sweep>>

\* acquireLease loads the session record of the owner: an open session keeps its lease.
CheckOwner(p) ==
    /\ pc[p] = "owner"
    /\ IF open[copy[p].owner]
       THEN Leave(p, "busy")
       ELSE pc' = [pc EXCEPT ![p] = "steal"] /\ UNCHANGED outcome
    /\ UNCHANGED <<now, lease, leaseLock, open, op, sess, dev, tries, copy, sweep>>

\* acquireLease removes the lease of a session that is closed or has no record.
StealLease(p) ==
    /\ pc[p] = "steal"
    /\ lease' = [lease EXCEPT ![dev[p]] = None]
    /\ pc' = [pc EXCEPT ![p] = "reread"]
    /\ UNCHANGED <<now, leaseLock, open, op, sess, dev, tries, copy, sweep, outcome>>

\* acquireLease reads the lease again; it would refuse one that is another session's.
Reread(p) ==
    /\ pc[p] = "reread"
    /\ IF Foreign(p, lease[dev[p]])
       THEN Leave(p, "busy") /\ UNCHANGED copy
       ELSE /\ copy' = [copy EXCEPT ![p] = Renewed(p, lease[dev[p]])]
            /\ pc' = [pc EXCEPT ![p] = "persist"]
            /\ UNCHANGED outcome
    /\ UNCHANGED <<now, lease, leaseLock, open, op, sess, dev, tries, sweep>>

\* persistLease: the rename makes the whole new lease visible at once.
PersistLease(p) ==
    /\ pc[p] = "persist"
    /\ lease' = [lease EXCEPT ![dev[p]] = copy[p]]
    /\ Leave(p, IF op[p] = "acquire" THEN "acquired" ELSE "updated")
    /\ UNCHANGED <<now, leaseLock, open, op, sess, dev, tries, copy, sweep>>

\* recoverStaleLeases removes the lease it found stale and reports its owner.
RemoveStale(p) ==
    /\ pc[p] = "remove"
    /\ lease' = [lease EXCEPT ![dev[p]] = None]
    /\ recovered' = [recovered EXCEPT ![p] = @ \cup {copy[p].owner}]
    /\ pc' = [pc EXCEPT ![p] = "unlock"]
    /\ UNCHANGED <<now, leaseLock, open, op, sess, dev, tries, copy, asOf, unlisted, stale, outcome>>

-----------------------------------------------------------------------------
(* recoverStaleLeases outside the lock *)

\* listLeases reads one file after the other; one it cannot read is skipped.
ListLease(p) ==
    /\ pc[p] = "list"
    /\ \E d \in unlisted[p] :
          /\ unlisted' = [unlisted EXCEPT ![p] = @ \ {d}]
          /\ \/ stale' = [stale EXCEPT ![p] = IF lease[d] # None /\ IsStale(lease[d], asOf[p])
                                             THEN @ \cup {d} ELSE @]
             \/ "io" \in Failures /\ UNCHANGED stale
    /\ UNCHANGED <<now, lease, leaseLock, open, pc, op, sess, dev, tries, copy, asOf, recovered, outcome>>

ListEnd(p) ==
    /\ pc[p] = "list"
    /\ unlisted[p] = {}
    /\ pc' = [pc EXCEPT ![p] = "next"]
    /\ UNCHANGED <<now, lease, leaseLock, open, op, sess, dev, tries, copy, sweep, outcome>>

\* The next lease that was listed as stale.
NextStale(p) ==
    /\ pc[p] = "next"
    /\ \E d \in stale[p] :
          /\ dev' = [dev EXCEPT ![p] = d]
          /\ stale' = [stale EXCEPT ![p] = @ \ {d}]
    /\ pc' = [pc EXCEPT ![p] = "lock"]
    /\ UNCHANGED <<now, lease, leaseLock, open, op, sess, tries, copy, asOf, unlisted, recovered, outcome>>

RecoverEnd(p) ==
    /\ pc[p] = "next"
    /\ stale[p] = {}
    /\ Finish(p, "recovered")
    /\ UNCHANGED <<now, lease, leaseLock, open, op, sess, dev, tries, copy, sweep>>

-----------------------------------------------------------------------------
(* releaseLease: no lock *)

\* Reads the lease and refuses another session's.  Without a lease it goes on to
\* unlink all the same.  outcome is the result if the unlink finds the file.
ReleaseLoad(p) ==
    /\ pc[p] = "rload"
    /\ IF Foreign(p, lease[dev[p]])
       THEN Finish(p, "owned_by_another")
       ELSE /\ pc' = [pc EXCEPT ![p] = "rremove"]
            /\ outcome' = [outcome EXCEPT ![p] =
                              IF lease[dev[p]] = None THEN "not_found" ELSE "released"]
    /\ UNCHANGED <<now, lease, leaseLock, open, op, sess, dev, tries, copy, sweep>>

\* removeLease unlinks whatever file is there by now.
ReleaseRemove(p) ==
    /\ pc[p] = "rremove"
    /\ lease' = [lease EXCEPT ![dev[p]] = None]
    /\ Finish(p, IF lease[dev[p]] = None THEN "not_found" ELSE outcome[p])
    /\ UNCHANGED <<now, leaseLock, open, op, sess, dev, tries, copy, sweep>>

-----------------------------------------------------------------------------
(* The world around the calls *)

\* Time passes.
Tick ==
    /\ now < MaxTime
    /\ now' = now + 1
    /\ UNCHANGED <<lease, leaseLock, open, callVars>>

\* A session record is written: the session is opened, closed or opened again.
RecordChange(s) ==
    /\ open' = [open EXCEPT ![s] = ~@]
    /\ UNCHANGED <<now, lease, leaseLock, callVars>>

\* One step of a call that is under way, failures apart.
Step(p) ==
    \/ TakeLock(p) \/ LockTaken(p) \/ Unlock(p)
    \/ LoadLease(p) \/ CheckOwner(p) \/ StealLease(p) \/ Reread(p)
    \/ PersistLease(p) \/ RemoveStale(p)
    \/ ListLease(p) \/ ListEnd(p) \/ NextStale(p) \/ RecoverEnd(p)
    \/ ReleaseLoad(p) \/ ReleaseRemove(p)

Next ==
    \/ \E p \in Proc :
          \/ \E o \in Ops \ {"recover"}, s \in Session, d \in Device : Call(p, o, s, d)
          \/ CallRecover(p)
          \/ Step(p)
          \/ IoError(p)
          \/ Return(p)
          \/ Crash(p)
    \/ Tick
    \/ \E s \in Session : RecordChange(s)

Spec == Init /\ [][Next]_vars

-----------------------------------------------------------------------------
(* Properties *)

PCs == Critical \cup {"idle", "lock", "list", "next", "rload", "rremove", "done"}
Outcomes == {"none", "error", "acquired", "busy", "updated", "notUpdated",
             "recovered", "released", "not_found", "owned_by_another"}

\* Types of the variables.
TypeOK ==
    /\ now \in 0..MaxTime
    /\ lease \in [Device -> Lease \cup {None}]
    /\ leaseLock \in [Device -> BOOLEAN]
    /\ open \in [Session -> BOOLEAN]
    /\ pc \in [Proc -> PCs]
    /\ op \in [Proc -> Ops \cup {None}]
    /\ sess \in [Proc -> Session \cup {None}]
    /\ dev \in [Proc -> Device \cup {None}]
    /\ tries \in [Proc -> 0..(MaxAttempts - 1)]
    /\ copy \in [Proc -> Lease \cup {None}]
    /\ asOf \in [Proc -> 0..MaxTime]
    /\ unlisted \in [Proc -> SUBSET Device]
    /\ stale \in [Proc -> SUBSET Device]
    /\ recovered \in [Proc -> SUBSET Session]
    /\ outcome \in [Proc -> Outcomes]

InLock(p, d) == pc[p] \in Critical /\ dev[p] = d

\* The lock directory keeps two processes out of the read-modify-write of one lease,
\* whatever crashed, timed out or failed before (execution-coordinator.ts:54-80).
LeaseLockMutex ==
    \A p, q \in Proc, d \in Device : InLock(p, d) /\ InLock(q, d) => p = q

\* The second "busy" test of acquireLease (execution-coordinator.ts:98-105) can never
\* fire: once the first lease is out of the way, no other session can own the device
\* before the lock is given back, although releaseLease takes no lock.
RereadNeverForeign ==
    \A p \in Proc : pc[p] = "reread" => ~Foreign(p, lease[dev[p]])

\* A recovery that is about to unlink a lease (execution-coordinator.ts:241) can only
\* hit a lease whose heartbeat is stale: none that was renewed or acquired after the listing.
RecoveryHitsOnlyStale ==
    \A p \in Proc :
        pc[p] = "remove" /\ lease[dev[p]] # None => IsStale(lease[dev[p]], asOf[p])

\* A session that is told it acquired the device was not overwritten by another session
\* before its call gave the lock back: the lease is its own, or an unlocked releaseLease
\* unlinked it meanwhile.
AcquiredIsOwn ==
    \A p \in Proc :
        pc[p] = "unlock" /\ outcome[p] = "acquired" =>
            lease[dev[p]] = None \/ lease[dev[p]].owner = sess[p]

\* A process inside the lock has the lock directory, and nothing but rm by that process
\* takes it away (execution-coordinator.ts:60, 78).
LockHeld == \A p \in Proc : pc[p] \in Critical => leaseLock[dev[p]]

\* Which call, arguments and copy each step works with.
CallShape ==
    \A p \in Proc :
        /\ pc[p] \in Critical \cup {"lock", "rload", "rremove"} => dev[p] \in Device
        /\ pc[p] \in Critical \cup {"lock"} => op[p] \in LockedOps \cup {"recover"}
        /\ pc[p] \in Critical \cup {"lock"} /\ op[p] \in LockedOps => sess[p] \in Session
        /\ pc[p] \in {"owner", "steal", "reread"} => op[p] = "acquire"
        /\ pc[p] = "persist" => op[p] \in LockedOps
        /\ pc[p] = "unlock" /\ outcome[p] = "acquired" => op[p] = "acquire"
        /\ pc[p] \in {"list", "next", "remove"} => op[p] = "recover"
        /\ pc[p] \in {"owner", "persist", "remove"} => copy[p] \in Lease
        /\ pc[p] \in (Critical \ {"unlock"}) \cup {"idle", "lock", "list", "next"} =>
              outcome[p] = "none"
        /\ pc[p] = "unlock" /\ op[p] = "recover" => outcome[p] \in {"none", "error"}

\* A call about to write the lease (execution-coordinator.ts:126, 178, 214) writes its own
\* session's, over no other session's, with a heartbeat no older than the one it replaces.
WriteIsRenewal ==
    \A p \in Proc :
        pc[p] = "persist" =>
            /\ copy[p].owner = sess[p]
            /\ copy[p].heartbeatAt <= now
            /\ lease[dev[p]] # None =>
                  /\ lease[dev[p]].owner = sess[p]
                  /\ lease[dev[p]].heartbeatAt <= copy[p].heartbeatAt

\* No heartbeat is in the future.
HeartbeatPast == \A d \in Device : lease[d] # None => lease[d].heartbeatAt <= now

\* The inductive invariant behind the properties above.
IndInv ==
    /\ TypeOK /\ CallShape
    /\ LockHeld /\ LeaseLockMutex
    /\ HeartbeatPast /\ WriteIsRenewal
    /\ RereadNeverForeign /\ RecoveryHitsOnlyStale /\ AcquiredIsOwn

\* The lease files implement DeviceOwnership: no lease passes from one session to
\* another without having been removed, and no renewal moves a heartbeat backwards.
Ownership == INSTANCE DeviceOwnership WITH
    Time <- 0..MaxTime,
    owner <- [d \in Device |-> IF lease[d] = None THEN None ELSE lease[d].owner],
    renewed <- [d \in Device |-> IF lease[d] = None THEN 0 ELSE lease[d].heartbeatAt]

OwnershipSpec == Ownership!Spec
=============================================================================
