SPECIFICATION FairSpec
CONSTANTS
    Tasks = {t1, t2}
    Codes <- MCRemoteOnly
    LocalCodes <- MCNone
    RemoteCodes <- MCRemoteCodes
    MaxId = 1
    MaxDevice = 1
    MaxQueue = 2
    Workload = {"call", "read", "wait", "disconnect"}
    Parallel = FALSE
    CanDrop = FALSE

PROPERTIES CachedMessageIsRead RegistrationWakesWaiter CallsInFlightReturn
CHECK_DEADLOCK FALSE
