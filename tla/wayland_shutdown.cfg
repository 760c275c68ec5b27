SPECIFICATION Spec
CONSTANTS
    NSlots = 3
    Sizes <- OneSize
    Scales <- OneScale
    Kinds <- EndKinds
    MaxEvents = 2
    Calls <- AllCalls
    FrameCallbacks = FALSE
    SoftwarePacing = TRUE
    Faults = TRUE
INVARIANTS
    SlotOwnership
    ThrottleTracksCallback
    NeverPresentsOverCallback
    WindowEventsNeverWait
PROPERTIES
    NoFrameAfterEnd
