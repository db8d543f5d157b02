--------------------------- MODULE DeviceLeaseProofs ---------------------------
(***************************************************************************)
(* Proofs about DeviceLease for every set of sessions, devices and         *)
(* processes, every attempt limit, staleness bound and choice of failures. *)
(***************************************************************************)
EXTENDS DeviceLease, TLAPS

\* The parts of IndInv, in the order in which they are proved.
Shaped == TypeOK /\ CallShape
LockInv == LockHeld /\ LeaseLockMutex
WriteInv == /\ HeartbeatPast /\ WriteIsRenewal
            /\ RereadNeverForeign /\ RecoveryHitsOnlyStale /\ AcquiredIsOwn

\* A step keeps the types: what is written to a file has the shape of a lease.
LEMMA TypeStep == TypeOK /\ CallShape /\ [Next]_vars => TypeOK'
<1> SUFFICES ASSUME TypeOK, CallShape, [Next]_vars PROVE TypeOK'
  OBVIOUS
<1> USE LeaseAssumption DEF TypeOK, Lease, PCs, Critical, Outcomes, FailureKinds, Ops, LockedOps, CallShape
<1>1. ASSUME NEW p \in Proc, NEW o \in Ops \ {"recover"}, NEW s \in Session, NEW d \in Device,
             Call(p, o, s, d)
      PROVE TypeOK'
  BY <1>1 DEF Call, sweep
<1>2. ASSUME NEW p \in Proc, CallRecover(p) PROVE TypeOK'
  BY <1>2 DEF CallRecover, sweep
<1>3. ASSUME NEW p \in Proc, TakeLock(p) PROVE TypeOK'
  BY <1>3 DEF TakeLock, sweep
<1>4. ASSUME NEW p \in Proc, LockTaken(p) PROVE TypeOK'
  <2>1. CASE tries[p] + 1 < MaxAttempts
    BY <1>4, <2>1 DEF LockTaken, sweep
  <2>2. CASE ~(tries[p] + 1 < MaxAttempts)
    <3>1. tries' = [tries EXCEPT ![p] = 0] /\ Finish(p, "error")
      BY <1>4, <2>2 DEF LockTaken
    <3>2. QED
      BY <1>4, <3>1 DEF LockTaken, Finish, sweep
  <2>3. QED
    BY <2>1, <2>2
<1>5. ASSUME NEW p \in Proc, Unlock(p) PROVE TypeOK'
  BY <1>5 DEF Unlock, sweep
<1>6. ASSUME NEW p \in Proc, LoadLease(p) PROVE TypeOK'
  <2> DEFINE l == lease[dev[p]]
  <2>1. dev[p] \in Device /\ l \in Lease \cup {None}
    BY <1>6 DEF LoadLease
  <2>2. l # None /\ op[p] \in {"markBusy", "markIdle", "refreshHeartbeat"} => Renewed(p, l) \in Lease
    BY <1>6, <2>1 DEF LoadLease, Renewed
  <2>3. copy' \in [Proc -> Lease \cup {None}]
    BY <1>6, <2>1, <2>2 DEF LoadLease, AcquireLoad, UpdateLoad, RecoverLoad, Foreign
  <2>4. pc' \in [Proc -> PCs] /\ outcome' \in [Proc -> Outcomes]
    BY <1>6 DEF LoadLease, AcquireLoad, UpdateLoad, RecoverLoad, Leave
  <2>5. QED
    BY <1>6, <2>3, <2>4 DEF LoadLease, sweep
<1>7. ASSUME NEW p \in Proc, CheckOwner(p) PROVE TypeOK'
  <2>1. CASE open[copy[p].owner]
    BY <1>7, <2>1 DEF CheckOwner, Leave, sweep
  <2>2. CASE ~open[copy[p].owner]
    BY <1>7, <2>2 DEF CheckOwner, sweep
  <2>3. QED
    BY <2>1, <2>2
<1>8. ASSUME NEW p \in Proc, StealLease(p) PROVE TypeOK'
  BY <1>8 DEF StealLease, sweep
<1>9. ASSUME NEW p \in Proc, Reread(p) PROVE TypeOK'
  <2>1. Renewed(p, lease[dev[p]]) \in Lease
    BY <1>9 DEF Reread, Renewed
  <2>2. copy' \in [Proc -> Lease \cup {None}]
    BY <1>9, <2>1 DEF Reread
  <2>3. pc' \in [Proc -> PCs] /\ outcome' \in [Proc -> Outcomes]
    BY <1>9 DEF Reread, Leave
  <2>4. QED
    BY <1>9, <2>2, <2>3 DEF Reread, sweep
<1>10. ASSUME NEW p \in Proc, PersistLease(p) PROVE TypeOK'
  BY <1>10 DEF PersistLease, Leave, sweep
<1>11. ASSUME NEW p \in Proc, RemoveStale(p) PROVE TypeOK'
  BY <1>11 DEF RemoveStale, sweep
<1>12. ASSUME NEW p \in Proc, ListLease(p) PROVE TypeOK'
  BY <1>12 DEF ListLease, sweep
<1>13. ASSUME NEW p \in Proc, ListEnd(p) PROVE TypeOK'
  BY <1>13 DEF ListEnd, sweep
<1>14. ASSUME NEW p \in Proc, NextStale(p) PROVE TypeOK'
  BY <1>14 DEF NextStale, sweep
<1>15. ASSUME NEW p \in Proc, RecoverEnd(p) PROVE TypeOK'
  BY <1>15 DEF RecoverEnd, Finish, sweep
<1>16. ASSUME NEW p \in Proc, ReleaseLoad(p) PROVE TypeOK'
  BY <1>16 DEF ReleaseLoad, Finish, Foreign, sweep
<1>17. ASSUME NEW p \in Proc, ReleaseRemove(p) PROVE TypeOK'
  BY <1>17 DEF ReleaseRemove, Finish, sweep
<1>18. ASSUME NEW p \in Proc, IoError(p) PROVE TypeOK'
  BY <1>18 DEF IoError, Finish, Leave, sweep
<1>19. ASSUME NEW p \in Proc, Return(p) PROVE TypeOK'
  BY <1>19 DEF Return, Forget, sweep
<1>20. ASSUME NEW p \in Proc, Crash(p) PROVE TypeOK'
  BY <1>20 DEF Crash, Forget, sweep
<1>21. CASE Tick
  BY <1>21 DEF Tick, callVars, sweep
<1>22. ASSUME NEW s \in Session, RecordChange(s) PROVE TypeOK'
  BY <1>22 DEF RecordChange, callVars, sweep
<1>23. CASE UNCHANGED vars
  BY <1>23 DEF vars, callVars, sweep
<1>24. QED
  BY <1>1, <1>2, <1>3, <1>4, <1>5, <1>6, <1>7, <1>8, <1>9, <1>10, <1>11, <1>12, <1>13,
     <1>14, <1>15, <1>16, <1>17, <1>18, <1>19, <1>20, <1>21, <1>22, <1>23 DEF Next, Step

\* A step leaves every call with the arguments and the copy its next step needs.
LEMMA ShapeStep == TypeOK /\ CallShape /\ [Next]_vars => CallShape'
<1> SUFFICES ASSUME TypeOK, CallShape, [Next]_vars PROVE CallShape'
  OBVIOUS
<1> USE LeaseAssumption DEF TypeOK, Lease, PCs, Critical, Outcomes, FailureKinds, Ops, LockedOps, CallShape
<1>1. ASSUME NEW p \in Proc, NEW o \in Ops \ {"recover"}, NEW s \in Session, NEW d \in Device,
             Call(p, o, s, d)
      PROVE CallShape'
  BY <1>1 DEF Call, sweep
<1>2. ASSUME NEW p \in Proc, CallRecover(p) PROVE CallShape'
  BY <1>2 DEF CallRecover, sweep
<1>3. ASSUME NEW p \in Proc, TakeLock(p) PROVE CallShape'
  BY <1>3 DEF TakeLock, sweep
<1>4. ASSUME NEW p \in Proc, LockTaken(p) PROVE CallShape'
  BY <1>4 DEF LockTaken, Finish, sweep
<1>5. ASSUME NEW p \in Proc, Unlock(p) PROVE CallShape'
  BY <1>5 DEF Unlock, sweep
<1>6. ASSUME NEW p \in Proc, LoadLease(p) PROVE CallShape'
  BY <1>6 DEF LoadLease, AcquireLoad, UpdateLoad, RecoverLoad, Leave, Renewed, Foreign, sweep
<1>7. ASSUME NEW p \in Proc, CheckOwner(p) PROVE CallShape'
  BY <1>7 DEF CheckOwner, Leave, sweep
<1>8. ASSUME NEW p \in Proc, StealLease(p) PROVE CallShape'
  BY <1>8 DEF StealLease, sweep
<1>9. ASSUME NEW p \in Proc, Reread(p) PROVE CallShape'
  BY <1>9 DEF Reread, Leave, Renewed, Foreign, sweep
<1>10. ASSUME NEW p \in Proc, PersistLease(p) PROVE CallShape'
  BY <1>10 DEF PersistLease, Leave, sweep
<1>11. ASSUME NEW p \in Proc, RemoveStale(p) PROVE CallShape'
  BY <1>11 DEF RemoveStale, sweep
<1>12. ASSUME NEW p \in Proc, ListLease(p) PROVE CallShape'
  BY <1>12 DEF ListLease, sweep
<1>13. ASSUME NEW p \in Proc, ListEnd(p) PROVE CallShape'
  BY <1>13 DEF ListEnd, sweep
<1>14. ASSUME NEW p \in Proc, NextStale(p) PROVE CallShape'
  BY <1>14 DEF NextStale, sweep
<1>15. ASSUME NEW p \in Proc, RecoverEnd(p) PROVE CallShape'
  BY <1>15 DEF RecoverEnd, Finish, sweep
<1>16. ASSUME NEW p \in Proc, ReleaseLoad(p) PROVE CallShape'
  BY <1>16 DEF ReleaseLoad, Finish, Foreign, sweep
<1>17. ASSUME NEW p \in Proc, ReleaseRemove(p) PROVE CallShape'
  BY <1>17 DEF ReleaseRemove, Finish, sweep
<1>18. ASSUME NEW p \in Proc, IoError(p) PROVE CallShape'
  BY <1>18 DEF IoError, Finish, Leave, sweep
<1>19. ASSUME NEW p \in Proc, Return(p) PROVE CallShape'
  BY <1>19 DEF Return, Forget, sweep
<1>20. ASSUME NEW p \in Proc, Crash(p) PROVE CallShape'
  BY <1>20 DEF Crash, Forget, sweep
<1>21. CASE Tick
  BY <1>21 DEF Tick, callVars, sweep
<1>22. ASSUME NEW s \in Session, RecordChange(s) PROVE CallShape'
  BY <1>22 DEF RecordChange, callVars, sweep
<1>23. CASE UNCHANGED vars
  BY <1>23 DEF vars, callVars, sweep
<1>24. QED
  BY <1>1, <1>2, <1>3, <1>4, <1>5, <1>6, <1>7, <1>8, <1>9, <1>10, <1>11, <1>12, <1>13,
     <1>14, <1>15, <1>16, <1>17, <1>18, <1>19, <1>20, <1>21, <1>22, <1>23 DEF Next, Step

\* mkdir succeeds only if nobody is inside, and only the process inside removes the lock.
LEMMA LockStep == Shaped /\ LockInv /\ [Next]_vars => LockInv'
<1> SUFFICES ASSUME Shaped, LockInv, [Next]_vars PROVE LockInv'
  OBVIOUS
<1> USE LeaseAssumption DEF Shaped, TypeOK, Lease, PCs, Critical, Outcomes, FailureKinds, Ops, LockedOps, CallShape, LockInv, LockHeld, LeaseLockMutex, InLock
<1>1. ASSUME NEW p \in Proc, NEW o \in Ops \ {"recover"}, NEW s \in Session, NEW d \in Device,
             Call(p, o, s, d)
      PROVE LockInv'
  BY <1>1 DEF Call, sweep
<1>2. ASSUME NEW p \in Proc, CallRecover(p) PROVE LockInv'
  BY <1>2 DEF CallRecover, sweep
<1>3. ASSUME NEW p \in Proc, TakeLock(p) PROVE LockInv'
  BY <1>3 DEF TakeLock, sweep
<1>4. ASSUME NEW p \in Proc, LockTaken(p) PROVE LockInv'
  BY <1>4 DEF LockTaken, Finish, sweep
<1>5. ASSUME NEW p \in Proc, Unlock(p) PROVE LockInv'
  BY <1>5 DEF Unlock, sweep
<1>6. ASSUME NEW p \in Proc, LoadLease(p) PROVE LockInv'
  BY <1>6 DEF LoadLease, AcquireLoad, UpdateLoad, RecoverLoad, Leave, Renewed, Foreign, sweep
<1>7. ASSUME NEW p \in Proc, CheckOwner(p) PROVE LockInv'
  BY <1>7 DEF CheckOwner, Leave, sweep
<1>8. ASSUME NEW p \in Proc, StealLease(p) PROVE LockInv'
  BY <1>8 DEF StealLease, sweep
<1>9. ASSUME NEW p \in Proc, Reread(p) PROVE LockInv'
  BY <1>9 DEF Reread, Leave, Renewed, Foreign, sweep
<1>10. ASSUME NEW p \in Proc, PersistLease(p) PROVE LockInv'
  BY <1>10 DEF PersistLease, Leave, sweep
<1>11. ASSUME NEW p \in Proc, RemoveStale(p) PROVE LockInv'
  BY <1>11 DEF RemoveStale, sweep
<1>12. ASSUME NEW p \in Proc, ListLease(p) PROVE LockInv'
  BY <1>12 DEF ListLease, sweep
<1>13. ASSUME NEW p \in Proc, ListEnd(p) PROVE LockInv'
  BY <1>13 DEF ListEnd, sweep
<1>14. ASSUME NEW p \in Proc, NextStale(p) PROVE LockInv'
  BY <1>14 DEF NextStale, sweep
<1>15. ASSUME NEW p \in Proc, RecoverEnd(p) PROVE LockInv'
  BY <1>15 DEF RecoverEnd, Finish, sweep
<1>16. ASSUME NEW p \in Proc, ReleaseLoad(p) PROVE LockInv'
  BY <1>16 DEF ReleaseLoad, Finish, Foreign, sweep
<1>17. ASSUME NEW p \in Proc, ReleaseRemove(p) PROVE LockInv'
  BY <1>17 DEF ReleaseRemove, Finish, sweep
<1>18. ASSUME NEW p \in Proc, IoError(p) PROVE LockInv'
  BY <1>18 DEF IoError, Finish, Leave, sweep
<1>19. ASSUME NEW p \in Proc, Return(p) PROVE LockInv'
  BY <1>19 DEF Return, Forget, sweep
<1>20. ASSUME NEW p \in Proc, Crash(p) PROVE LockInv'
  BY <1>20 DEF Crash, Forget, sweep
<1>21. CASE Tick
  BY <1>21 DEF Tick, callVars, sweep
<1>22. ASSUME NEW s \in Session, RecordChange(s) PROVE LockInv'
  BY <1>22 DEF RecordChange, callVars, sweep
<1>23. CASE UNCHANGED vars
  BY <1>23 DEF vars, callVars, sweep
<1>24. QED
  BY <1>1, <1>2, <1>3, <1>4, <1>5, <1>6, <1>7, <1>8, <1>9, <1>10, <1>11, <1>12, <1>13,
     <1>14, <1>15, <1>16, <1>17, <1>18, <1>19, <1>20, <1>21, <1>22, <1>23 DEF Next, Step

\* Inside the lock, only a release can change the lease under a call, and it removes it.
LEMMA WriteStep == Shaped /\ LockInv /\ WriteInv /\ [Next]_vars => WriteInv'
<1> SUFFICES ASSUME Shaped, LockInv, WriteInv, [Next]_vars PROVE WriteInv'
  OBVIOUS
<1> USE LeaseAssumption DEF Shaped, TypeOK, Lease, PCs, Critical, Outcomes, FailureKinds, Ops, LockedOps,
            CallShape, LockInv, LockHeld, LeaseLockMutex, InLock, WriteInv, HeartbeatPast,
            WriteIsRenewal, RereadNeverForeign, RecoveryHitsOnlyStale, AcquiredIsOwn, Foreign, IsStale
<1>1. ASSUME NEW p \in Proc, NEW o \in Ops \ {"recover"}, NEW s \in Session, NEW d \in Device,
             Call(p, o, s, d)
      PROVE WriteInv'
  BY <1>1 DEF Call, sweep
<1>2. ASSUME NEW p \in Proc, CallRecover(p) PROVE WriteInv'
  BY <1>2 DEF CallRecover, sweep
<1>3. ASSUME NEW p \in Proc, TakeLock(p) PROVE WriteInv'
  BY <1>3 DEF TakeLock, sweep
<1>4. ASSUME NEW p \in Proc, LockTaken(p) PROVE WriteInv'
  BY <1>4 DEF LockTaken, Finish, sweep
<1>5. ASSUME NEW p \in Proc, Unlock(p) PROVE WriteInv'
  BY <1>5 DEF Unlock, sweep
<1>6. ASSUME NEW p \in Proc, LoadLease(p) PROVE WriteInv'
  BY <1>6 DEF LoadLease, AcquireLoad, UpdateLoad, RecoverLoad, Leave, Renewed, Foreign, sweep
<1>7. ASSUME NEW p \in Proc, CheckOwner(p) PROVE WriteInv'
  BY <1>7 DEF CheckOwner, Leave, sweep
<1>8. ASSUME NEW p \in Proc, StealLease(p) PROVE WriteInv'
  BY <1>8 DEF StealLease, sweep
<1>9. ASSUME NEW p \in Proc, Reread(p) PROVE WriteInv'
  BY <1>9 DEF Reread, Leave, Renewed, Foreign, sweep
<1>10. ASSUME NEW p \in Proc, PersistLease(p) PROVE WriteInv'
  BY <1>10 DEF PersistLease, Leave, sweep
<1>11. ASSUME NEW p \in Proc, RemoveStale(p) PROVE WriteInv'
  BY <1>11 DEF RemoveStale, sweep
<1>12. ASSUME NEW p \in Proc, ListLease(p) PROVE WriteInv'
  BY <1>12 DEF ListLease, sweep
<1>13. ASSUME NEW p \in Proc, ListEnd(p) PROVE WriteInv'
  BY <1>13 DEF ListEnd, sweep
<1>14. ASSUME NEW p \in Proc, NextStale(p) PROVE WriteInv'
  BY <1>14 DEF NextStale, sweep
<1>15. ASSUME NEW p \in Proc, RecoverEnd(p) PROVE WriteInv'
  BY <1>15 DEF RecoverEnd, Finish, sweep
<1>16. ASSUME NEW p \in Proc, ReleaseLoad(p) PROVE WriteInv'
  BY <1>16 DEF ReleaseLoad, Finish, Foreign, sweep
<1>17. ASSUME NEW p \in Proc, ReleaseRemove(p) PROVE WriteInv'
  BY <1>17 DEF ReleaseRemove, Finish, sweep
<1>18. ASSUME NEW p \in Proc, IoError(p) PROVE WriteInv'
  BY <1>18 DEF IoError, Finish, Leave, sweep
<1>19. ASSUME NEW p \in Proc, Return(p) PROVE WriteInv'
  BY <1>19 DEF Return, Forget, sweep
<1>20. ASSUME NEW p \in Proc, Crash(p) PROVE WriteInv'
  BY <1>20 DEF Crash, Forget, sweep
<1>21. CASE Tick
  BY <1>21 DEF Tick, callVars, sweep
<1>22. ASSUME NEW s \in Session, RecordChange(s) PROVE WriteInv'
  BY <1>22 DEF RecordChange, callVars, sweep
<1>23. CASE UNCHANGED vars
  BY <1>23 DEF vars, callVars, sweep
<1>24. QED
  BY <1>1, <1>2, <1>3, <1>4, <1>5, <1>6, <1>7, <1>8, <1>9, <1>10, <1>11, <1>12, <1>13,
     <1>14, <1>15, <1>16, <1>17, <1>18, <1>19, <1>20, <1>21, <1>22, <1>23 DEF Next, Step
-----------------------------------------------------------------------------

\* Nothing is called at first.
LEMMA IndInit == Init => IndInv
BY LeaseAssumption
   DEF Init, IndInv, TypeOK, PCs, Critical, Ops, LockedOps, Outcomes, CallShape, LockHeld,
       LeaseLockMutex, InLock, HeartbeatPast, WriteIsRenewal, RereadNeverForeign,
       RecoveryHitsOnlyStale, AcquiredIsOwn

\* The layers together are inductive.
LEMMA IndStep == IndInv /\ [Next]_vars => IndInv'
BY TypeStep, ShapeStep, LockStep, WriteStep DEF IndInv, Shaped, LockInv, WriteInv

\* The inductive invariant: every call that touches a lease under the lock works on a
\* device nobody else is working on, and on a lease that can at most disappear meanwhile.
THEOREM Invariance == Spec => []IndInv
BY IndInit, IndStep, PTL DEF Spec

\* Every variable keeps its type; in particular no step writes half a lease.
THEOREM TypeCorrect == Spec => []TypeOK
<1>1. IndInv => TypeOK
  BY DEF IndInv
<1>2. QED
  BY <1>1, Invariance, PTL

\* The lock directory gives mutual exclusion per device, whatever crashes or fails.
THEOREM LockIsExclusive == Spec => []LeaseLockMutex
<1>1. IndInv => LeaseLockMutex
  BY DEF IndInv
<1>2. QED
  BY <1>1, Invariance, PTL

\* The second "busy" test of acquireLease is dead code.
THEOREM RereadIsNeverForeign == Spec => []RereadNeverForeign
<1>1. IndInv => RereadNeverForeign
  BY DEF IndInv
<1>2. QED
  BY <1>1, Invariance, PTL

\* A recovery never removes a lease that was renewed or acquired after its clock was read.
THEOREM RecoveryIsSafe == Spec => []RecoveryHitsOnlyStale
<1>1. IndInv => RecoveryHitsOnlyStale
  BY DEF IndInv
<1>2. QED
  BY <1>1, Invariance, PTL

\* An acquire that succeeds is not overwritten before its lock is given back.
THEOREM AcquireIsExclusive == Spec => []AcquiredIsOwn
<1>1. IndInv => AcquiredIsOwn
  BY DEF IndInv
<1>2. QED
  BY <1>1, Invariance, PTL

-----------------------------------------------------------------------------

Owner == [d \in Device |-> IF lease[d] = None THEN None ELSE lease[d].owner]
Heartbeat == [d \in Device |-> IF lease[d] = None THEN 0 ELSE lease[d].heartbeatAt]
OwnerStep == [Ownership!Next]_<<Owner, Heartbeat>>

\* A step that leaves the lease files alone is a stutter of the abstract specification.
LEMMA SameLease == ASSUME UNCHANGED lease PROVE OwnerStep
BY DEF OwnerStep, Owner, Heartbeat

\* Removing a lease file revokes its owner, or changes nothing.
LEMMA RemovalRevokes ==
    ASSUME TypeOK, NEW d \in Device, lease' = [lease EXCEPT ![d] = None]
    PROVE  OwnerStep
<1> USE LeaseAssumption DEF TypeOK, Lease, Owner, Heartbeat
<1>1. CASE lease[d] = None
  <2>1. lease' = lease
    BY <1>1
  <2>2. QED
    BY <2>1, SameLease
<1>2. CASE lease[d] # None
  <2>1. lease[d].owner # None
    BY <1>2
  <2>2. Owner' = [Owner EXCEPT ![d] = None]
    OBVIOUS
  <2>3. Heartbeat' = [Heartbeat EXCEPT ![d] = 0]
    OBVIOUS
  <2>4. Owner[d] # None
    BY <1>2, <2>1
  <2>5. Ownership!Revoke(d)
    BY <2>2, <2>3, <2>4 DEF Ownership!Revoke
  <2>6. QED
    BY <2>5 DEF OwnerStep, Ownership!Next
<1>3. QED
  BY <1>1, <1>2

\* Writing the renewed lease grants a free device or renews the owner's lease.
LEMMA PersistGrantsOrRenews ==
    ASSUME IndInv, NEW p \in Proc, PersistLease(p)
    PROVE  OwnerStep
<1> DEFINE d == dev[p]
<1> USE LeaseAssumption DEF Lease, Owner, Heartbeat
<1>1. /\ pc[p] = "persist"
      /\ d \in Device
      /\ lease \in [Device -> Lease \cup {None}]
      /\ lease' = [lease EXCEPT ![d] = copy[p]]
  BY DEF PersistLease, IndInv, TypeOK, CallShape, Critical
<1>2. copy[p] \in Lease /\ copy[p].owner = sess[p]
  BY <1>1 DEF IndInv, CallShape, WriteIsRenewal
<1>3. lease[d] # None => lease[d].owner = sess[p] /\ lease[d].heartbeatAt <= copy[p].heartbeatAt
  BY <1>1 DEF IndInv, WriteIsRenewal
<1>4. copy[p] # None
  BY <1>2
<1>5. Owner' = [Owner EXCEPT ![d] = copy[p].owner]
  BY <1>1, <1>4
<1>6. Heartbeat' = [Heartbeat EXCEPT ![d] = copy[p].heartbeatAt]
  BY <1>1, <1>4
<1>7. copy[p].owner \in Session /\ copy[p].heartbeatAt \in 0..MaxTime
  BY <1>2
<1>8. CASE lease[d] = None
  <2>1. Owner[d] = None
    BY <1>1, <1>8
  <2>2. Ownership!Grant(d, copy[p].owner, copy[p].heartbeatAt)
    BY <1>5, <1>6, <2>1 DEF Ownership!Grant
  <2>3. \E s \in Session, t \in 0..MaxTime : Ownership!Grant(d, s, t)
    BY <1>7, <2>2 DEF Ownership!Grant
  <2>4. Ownership!Next
    BY <1>1, <2>3 DEF Ownership!Next
  <2>5. QED
    BY <2>4 DEF OwnerStep
<1>9. CASE lease[d] # None
  <2>1. Owner[d] = copy[p].owner
    BY <1>1, <1>2, <1>3, <1>9
  <2>2. Owner[d] # None
    BY <1>7, <2>1
  <2>3. Owner' = Owner
    BY <1>5, <2>1
  <2>4. copy[p].heartbeatAt >= Heartbeat[d]
    BY <1>1, <1>2, <1>3, <1>9
  <2>5. Ownership!Renew(d, copy[p].heartbeatAt)
    BY <1>6, <2>2, <2>3, <2>4 DEF Ownership!Renew
  <2>6. \E t \in 0..MaxTime : Ownership!Renew(d, t)
    BY <1>7, <2>5 DEF Ownership!Renew
  <2>7. Ownership!Next
    BY <1>1, <2>6 DEF Ownership!Next
  <2>8. QED
    BY <2>7 DEF OwnerStep
<1>10. QED
  BY <1>8, <1>9

\* The lease files implement DeviceOwnership: single owner, no direct hand-over, and
\* heartbeats that only move forward.
THEOREM Refinement == Spec => OwnershipSpec
<1>1. Init => Ownership!Init
  BY DEF Init, Ownership!Init
<1>2. IndInv /\ [Next]_vars => OwnerStep
  <2> SUFFICES ASSUME IndInv, [Next]_vars PROVE OwnerStep
    OBVIOUS
  <2>1. ASSUME NEW p \in Proc, StealLease(p) \/ RemoveStale(p) \/ ReleaseRemove(p) PROVE OwnerStep
    <3>1. dev[p] \in Device /\ lease' = [lease EXCEPT ![dev[p]] = None]
      BY <2>1 DEF StealLease, RemoveStale, ReleaseRemove, IndInv, CallShape, Critical
    <3>2. QED
      BY <3>1, RemovalRevokes DEF IndInv
  <2>2. ASSUME NEW p \in Proc, PersistLease(p) PROVE OwnerStep
    BY <2>2, PersistGrantsOrRenews
  <2>3. CASE UNCHANGED lease
    BY <2>3, SameLease
  <2>4. \/ UNCHANGED lease
        \/ \E p \in Proc : \/ StealLease(p) \/ RemoveStale(p) \/ ReleaseRemove(p)
                           \/ PersistLease(p)
    BY DEF Next, Step, vars, Call, CallRecover, TakeLock, LockTaken, Unlock, LoadLease,
           CheckOwner, Reread, ListLease, ListEnd, NextStale, RecoverEnd, ReleaseLoad,
           IoError, Return, Crash, Tick, RecordChange
  <2>5. QED
    BY <2>1, <2>2, <2>3, <2>4
<1>3. OwnerStep <=> [Ownership!Next]_<<Owner, Heartbeat>>
  BY DEF OwnerStep
<1>4. QED
  BY <1>1, <1>2, <1>3, Invariance, PTL DEF Spec, OwnershipSpec, Ownership!Spec, Owner, Heartbeat
==============================================================================
