SPECIFICATION Spec
CONSTANTS
    Tasks = {t1, t2}
    Codes <- MCCodes
    LocalCodes <- MCLocalCodes
    RemoteCodes <- MCRemoteCodes
    MaxId = 1
    MaxDevice = 1
    MaxQueue = 3
    Workload = {"open", "read", "wait", "handler", "register", "abandon"}
    Parallel = TRUE
    CanDrop = TRUE
SYMMETRY TaskSymmetry
INVARIANTS AnsweredAtMostOnce RegisteredChannelsHaveQueues
CHECK_DEADLOCK FALSE
