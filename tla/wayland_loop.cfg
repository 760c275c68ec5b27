SPECIFICATION LoopSpec
CONSTANTS
    NSlots = 2
    Sizes <- OneSize
    Scales <- OneScale
    Kinds <- EndKinds
    MaxEvents = 1
    Calls <- AllCalls
    FrameCallbacks = TRUE
    SoftwarePacing = TRUE
    Faults = TRUE
PROPERTIES
    CallReturns
    CloseLeadsToExit
