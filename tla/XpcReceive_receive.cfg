SPECIFICATION FairSpec
CONSTANTS
    Channels = {1, 3}
    Script <- MCScript
    Receives <- MCReceives
    XPC_WRAPPER_LEN = 1
    StreamWindow = 2
    ConnWindow = 2
    DeviceFrame = 2
    MaxBlank = 1
    CanClose = TRUE
INVARIANTS CreditIsReturned
PROPERTIES ImplementsQueues MessageIsReturned
CHECK_DEADLOCK FALSE
