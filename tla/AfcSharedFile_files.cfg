SPECIFICATION FairSpec
CONSTANTS
    Files = {f1, f2}
    Size = 3
    Chunk = 2
    MaxRead = 3
    MaxOps = 4
    Faults = {"cancel", "drop", "fail"}
INVARIANTS ResponsesLagByDrops CursorFollowsDevice NeverPanics
PROPERTIES CloseReturns
CHECK_DEADLOCK FALSE
