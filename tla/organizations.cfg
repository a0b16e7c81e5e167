SPECIFICATION HistorySpec
CONSTANTS
    u1 = u1
    u2 = u2
    u3 = u3
    r1 = r1
    r2 = r2
    r3 = r3
    None = None
    Users = {u1, u2, u3}
    Founders = {u1, u2}
    Requests = {r1, r2, r3}
    MaxFaults = 1
SYMMETRY Symmetry
INVARIANTS
    SerialLastAdminKept
    SerialRevokedHoldNoTokens
    SerialTrailMatches
CHECK_DEADLOCK FALSE
