SPECIFICATION HistorySpec
CONSTANTS
    m1 = m1
    m2 = m2
    Msgs = {m1, m2}
    MaxDeliver = 3
    HasExhausted = TRUE
    Prompt = FALSE
    MaxCrash = 2
INVARIANTS
    DeliveriesConsistent
    GivenUpIsAccountedFor
    PromptMeansExactlyOnce
PROPERTIES
    VerdictIsFinal
    LostOnlyOnLastDelivery
CHECK_DEADLOCK FALSE
