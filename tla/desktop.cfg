SPECIFICATION MCSpec
CONSTANTS
    Scenarios = {"x11_keys", "x11_pointer", "x11_frames", "win_keys", "win_pointer", "win_frames", "dos_pointer", "dos_frames"}
    XKeys = {"A", "SHIFT"}
    XButtons = {1, 4, 9}
    XSizes = {1, 2, 3}
    WKeys = {"A", "LEFT_SHIFT", "RIGHT_SHIFT", "LEFT_SUPER"}
    WButtons = {1, 2}
    WSizes = {1, 2}
    DButtons = {1}
    DSizes = {1, 2, 4}
    DFirstSize = 2
    FirstSize = 1
    MaxQueue = 3
    MaxInputs = 6
INVARIANTS
    KeysSettle
    PointerSettles
    CursorCountBalanced
    FrameFits
    NothingLeaks
PROPERTY
    ImplementsContract
CHECK_DEADLOCK FALSE
