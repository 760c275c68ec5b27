SPECIFICATION MCSpec
CONSTANTS
    Scenarios = {"hover", "touch", "frames", "ios", "macos", "skips", "pacing"}
    Sizes = {1, 2, 3}
    FirstSize = 1
    Mouse = {1, 2}
    Fingers = {0, 1, 4}
    MaxQueue = 4
    MaxInputs = 6
    MaxCalls = 4
    Frequency = 205
    Fps = {0, 1, 2}
    Longest = 205
    Delays = {34, 103}
    MaxTicks = 620
INVARIANTS
    PointerSettles
    FramesFit
    EndsWhole
    PaceIsKept
PROPERTY
    ImplementsContract
CHECK_DEADLOCK FALSE
