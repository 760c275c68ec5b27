SPECIFICATION KSpec
CONSTANTS
    RingSize = 8
    Sent <- SentByKeys
    Keys <- TypingKeys
    MaxStrokes = 3
    MaxWindows = 2
INVARIANTS
    RingInvariant
    HeldKeysAreDown
PROPERTY
    ImplementsQueue
CHECK_DEADLOCK FALSE
