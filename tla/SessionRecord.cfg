\* One writer of a session at a time, any of them may fail half way.
CONSTANTS
    s1 = s1  d1 = d1  p1 = p1  p2 = p2  e1 = e1  e2 = e2  a1 = a1
    Session = {s1}
    Device = {d1}
    Proc = {p1, p2}
    Event = {e1, e2}
    Artifact = {a1}
    NoRecord = NoRecord
    NoCheckpoint = NoCheckpoint
SPECIFICATION Spec
SYMMETRY Symmetry
INVARIANTS CopiesAgree
PROPERTIES LogSpec AuditFollowsRecord
