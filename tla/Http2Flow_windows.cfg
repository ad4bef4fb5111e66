SPECIFICATION FairSpec
CONSTANTS
    Channels = {1}
    FileStreams = {5}
    FirstFileStream = 5
    DefaultWindow = 2
    MaxFrame = 2
    Preamble = 1
    Sizes = {3}
    MaxSends = 2
    Increments = {2}
    InitialSizes = {0, 3}
    MaxSettings = 2
    MaxCredit = 1
INVARIANTS TypeOK NeverOverrun NoStandoff
PROPERTIES SendCompletes
CHECK_DEADLOCK FALSE
