SPECIFICATION HistorySpec
CONSTANTS
    d1 = d1
    d2 = d2
    o1 = o1
    o2 = o2
    Fresh = Fresh
    Dispatches = {d1}
    Ops = {o1, o2}
    Targets = {"VALIDATED", "ARCHIVED"}
    SlowAi = FALSE
    MaxDeliver = 2
    Prompt = TRUE
    MaxCrash = 1
    MaxFaults = 0
SYMMETRY Symmetry
INVARIANTS
    SerialArchiveCoversPipelines
PROPERTIES
    OnlyDivergenceLeavesTheTable
CHECK_DEADLOCK FALSE
