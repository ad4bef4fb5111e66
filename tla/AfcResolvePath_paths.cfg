SPECIFICATION FairSpec
CONSTANTS
    a = a
    b = b
    Names = {a, b}
    Up = Up
    Depth = 2
    Targets <- MCTargets
    Requests <- MCRequests
    MaxSymlinks = 2
    MaxSteps = 30
INVARIANTS ResolvedIsReal OkIsRight
PROPERTIES ResolveReturns
CHECK_DEADLOCK FALSE
