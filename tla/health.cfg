SPECIFICATION AlertsSpec
CONSTANTS
    r1 = r1
    r2 = r2
    NoResult = NoResult
    Services = {"postgres", "nats"}
    Calls = {r1, r2}
    TTL = 2
    MaxTime = 4
SYMMETRY Symmetry
INVARIANTS
    AnswersConsistent
    AlertsTellTheCache
CHECK_DEADLOCK FALSE
