SPECIFICATION Spec
CONSTANTS
    Tasks = {t1, t2}
    Codes <- MCControl
    LocalCodes <- MCNone
    RemoteCodes <- MCNone
    MaxId = 2
    MaxDevice = 1
    MaxQueue = 1
    Workload = {"call", "invoke", "read", "abandon"}
    Parallel = TRUE
    CanDrop = TRUE
SYMMETRY TaskSymmetry
INVARIANTS TypeOK CorrelatedRepliesStayPrivate EveryWaiterHasItsSender
CHECK_DEADLOCK FALSE
