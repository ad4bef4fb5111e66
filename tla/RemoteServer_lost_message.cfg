SPECIFICATION FairSpec
CONSTANTS
    Tasks = {t1}
    Codes <- MCControl
    LocalCodes <- MCNone
    RemoteCodes <- MCNone
    MaxId = 0
    MaxDevice = 1
    MaxQueue = 1
    Workload = {"read"}
    Parallel = TRUE
    CanDrop = FALSE

PROPERTIES CachedMessageIsRead
CHECK_DEADLOCK FALSE
