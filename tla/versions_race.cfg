SPECIFICATION HistorySpec
CONSTANTS
    r1 = r1
    r2 = r2
    a1 = a1
    Requests = {r1, r2}
    Results = {a1}
    MaxDeliver = 3
    DtoStatus = {"VALIDATED"}
    NoStatus = NoStatus
SYMMETRY Symmetry
INVARIANTS
    TypeOK
    NumberedWithoutGaps
    TriggerNeverRejects
    VersionPerAcknowledgement
    CurrentIsLatestAtRest
PROPERTIES
    VersionsImmutable
    SerialRequestsSucceed
CHECK_DEADLOCK FALSE
