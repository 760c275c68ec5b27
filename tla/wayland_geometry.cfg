SPECIFICATION GeometrySpec
CONSTANTS
    NSlots = 2
    Sizes <- MCSizes
    Scales <- MCScales
    Kinds <- GeometryKinds
    MaxEvents = 3
    Calls <- JustUpdate
    FrameCallbacks = TRUE
    SoftwarePacing = FALSE
    Faults = FALSE
INVARIANT
    ResizeNeverLost
PROPERTIES
    FramesAreCurrent
    ImplementsContract
