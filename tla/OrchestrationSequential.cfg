\* One call at a time, no lease expires, every failure: what the serial stdio server guarantees.
CONSTANTS
    s1 = s1  s2 = s2  d1 = d1  d2 = d2  p1 = p1  p2 = p2
    Session = {s1, s2}
    Device = {d1, d2}
    Proc = {p1}
    None = None
    NoRecord = NoRecord
    NoCheckpoint = NoCheckpoint
    MaxAttempts = 1
    LockAttempts = 1
    StaleAfter = 0
    MaxTime = 0
    Failures = {"io", "rm", "crash"}
    Handlers = {"start", "end", "tool"}
    Noted = {"session_started", "evidence", "session_ended"}
SPECIFICATION Spec
INVARIANTS OpenSessionOwnsDevice TaskHoldsLease
PROPERTIES ClosedStaysClosed EvidenceIsKept
