SPECIFICATION HistorySpec
CONSTANTS
    d1 = d1
    d2 = d2
    o1 = o1
    o2 = o2
    Fresh = Fresh
    Dispatches = {d1, d2}
    Ops = {}
    Targets = {}
    SlowAi = FALSE
    MaxDeliver = 2
    Prompt = FALSE
    MaxCrash = 1
    MaxFaults = 0
SYMMETRY Symmetry
CONSTRAINT ResultsOnly
INVARIANTS
    ResultsConsistent
    CompletedMeansApplied
PROPERTIES
    HandledNotReapplied
CHECK_DEADLOCK FALSE
