SPECIFICATION HistorySpec
CONSTANTS
    r1 = r1
    r2 = r2
    r3 = r3
    n1 = n1
    n2 = n2
    k1 = k1
    k2 = k2
    Unchanged = Unchanged
    Requests = {r1, r2, r3}
    Names = {n1, n2}
    Contents = {k1, k2}
    Queries <- MCQueries
    Similarity <- MCSimilarity
    MinSimilarity = 35
    TopK = 1
    MaxSkills = 2
    MaxImport = 2
SYMMETRY Symmetry
CONSTRAINT NewSkills
INVARIANTS
    SerialCatalogIsUnique
    SearchFindsText
PROPERTIES
    SerialActivationIsAsked
CHECK_DEADLOCK FALSE
