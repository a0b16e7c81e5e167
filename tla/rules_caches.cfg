SPECIFICATION RulesHistorySpec
CONSTANTS
    x1 = x1
    x2 = x2
    r1 = r1
    r2 = r2
    r3 = r3
    s1 = s1
    i1 = i1
    i2 = i2
    NoRule = NoRule
    NoCache = NoCache
    Rules = {x1, x2}
    Requests = {r1, r2, r3}
    Scopes = {s1}
    Contradictable = {s1}
    Instructions = {i1, i2}
    MaxBundle = 2
    MaxFaults = 1
SYMMETRY Symmetry
INVARIANTS
    RulesConsistent
    SerialRulesAgree
PROPERTIES
    SerialOverwritesRecorded
CHECK_DEADLOCK FALSE
