\* Two sessions and two processes on one device, every failure.
CONSTANTS
    s1 = s1  s2 = s2  d1 = d1  p1 = p1  p2 = p2
    Session = {s1, s2}
    Device = {d1}
    Proc = {p1, p2}
    None = None
    MaxAttempts = 2
    StaleAfter = 1
    MaxTime = 2
    Failures = {"io", "rm", "crash"}
SPECIFICATION Spec
SYMMETRY Symmetry
INVARIANTS LeaseLockMutex RecoveryHitsOnlyStale IndInv
PROPERTIES OwnershipSpec
