SPECIFICATION HistorySpec
CONSTANTS
    r1 = r1
    r2 = r2
    r3 = r3
    f1 = f1
    f2 = f2
    Requests = {r1, r2, r3}
    Filenames = {f1, f2}
    Sizes = {1, 2, 3}
    MaxFile = 2
    MaxSession = 3
    MaxDocs = 3
    MaxDeliver = 2
    MaxFaults = 1
SYMMETRY Symmetry
INVARIANTS
    StorageConsistent
    SerialChecksHold
PROPERTIES
    SerialWritesStand
CHECK_DEADLOCK FALSE
