SPECIFICATION Spec
CONSTANTS
    Apis <- AllApis
    MaxHandles = 3

    
PROPERTIES
    LeaksAreKnown
    CallerCanFinish
