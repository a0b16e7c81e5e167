SPECIFICATION FairSpec
CONSTANTS
    d1 = d1
    d2 = d2
    o1 = o1
    o2 = o2
    Fresh = Fresh
    Dispatches = {d1, d2}
    Ops = {}
    Targets = {}
    SlowAi = TRUE
    MaxDeliver = 2
    Prompt = TRUE
    MaxCrash = 0
    MaxFaults = 2
INVARIANTS
    ExhaustedPipelineFails
PROPERTIES
    TaskSettles
    ProcessingEnds
CHECK_DEADLOCK FALSE
