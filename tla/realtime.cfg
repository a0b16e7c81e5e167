SPECIFICATION HistorySpec
CONSTANTS
    s1 = s1
    s2 = s2
    o1 = o1
    o2 = o2
    None = None
    Sockets = {s1, s2}
    Orgs = {o1, o2}
    Tokens <- MCTokens
    Messages <- MCMessages
    Requested <- MCRequested
    MaxJoins = 1
    MaxMessages = 1
    MaxDeliver = 2
SYMMETRY Symmetry
INVARIANTS
    RoomsConsistent
    ListenersMissNothing
CHECK_DEADLOCK FALSE
