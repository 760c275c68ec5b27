SPECIFICATION MCSpec
CONSTANTS
    MaxQueued = 2
    Buttons = {1, 2}
    Keys = {"A", "LEFT_SHIFT", "RIGHT_SHIFT"}
    Places = {0, 1}
    Inputs = {"mouse", "key", "focus", "touch", "resize"}
    Calls = {"update_events", "update_ex", "wait_sync"}
    MaxInputs = 5
    Scenarios = {"keys", "pointer"}
INVARIANTS
    NothingSticks
    CrossingsAgree
    LatestStateArrives
PROPERTY
    ReleasesHavePresses
