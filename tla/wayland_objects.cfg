SPECIFICATION MCSpec
CONSTANTS
    Scenarios = {"one_window", "two_windows", "outputs", "preferences"}
    Flags = {{"fullscreen"}, {"borderless"}}
    Optional = {"shm", "shell", "decoration_manager", "viewporter"}
    MaxMissing = 1
    Removable = {"shm", "shell", "seat", "decoration_manager", "viewporter"}
    MaxRemovals = 1
    MaxConfigures = 2
    Breaks = TRUE
    MaxWindows = 2
    Ids = {1, 2, 3}
    Scales = {1, 2, 3}
    Fractions = {120, 180, 240, 360}
    Versions = {1, 5, 6}
    MaxOutputs = 2
    CacheSize = 2
    Odd = {3}
    Missing = {}
    Inputs = {"output", "move", "prefer", "withdraw", "pointer", "show"}
    MaxQueue = 4
    MaxInputs = 5
INVARIANTS
    OpeningIsWhole
    OutputsAgree
    ScaleSettles
    CursorSettles
PROPERTY
    ReleaseOrder
CHECK_DEADLOCK FALSE
