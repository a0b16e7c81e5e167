SPECIFICATION MCSpec
CONSTANTS
    c1 = c1
    c2 = c2
    r1 = r1
    r2 = r2
    r3 = r3
    u1 = u1
    u2 = u2
    e1 = e1
    e2 = e2
    None = None
    CommentIds = {c1, c2}
    Requests = {r1, r2, r3}
    Users = {u1, u2}
    Elements = {e1, e2}
    MaxVersions = 3
    MaxFaults = 1
SYMMETRY Symmetry
INVARIANTS
    ReviewConsistent
    AcknowledgedApprovalsKept
    ApprovalsOnVersionRead
PROPERTIES
    SerialEditsAreAtomic
CHECK_DEADLOCK FALSE
