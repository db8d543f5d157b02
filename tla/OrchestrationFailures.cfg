\* Two concurrent calls of one session whose lease may expire, every failure, fairness.
CONSTANTS
    s1 = s1  s2 = s2  d1 = d1  d2 = d2  p1 = p1  p2 = p2
    Session = {s1}
    Device = {d1}
    Proc = {p1, p2}
    None = None
    NoRecord = NoRecord
    NoCheckpoint = NoCheckpoint
    MaxAttempts = 1
    LockAttempts = 1
    StaleAfter = 0
    MaxTime = 1
    Failures = {"io", "rm", "crash"}
    Handlers = {"start", "end", "tool"}
    Noted = {}
SPECIFICATION FairSpec
INVARIANTS OneTaskPerSession
PROPERTIES LeaseSpec CallsEnd
