SPECIFICATION MCSpec
CONSTANTS
    MaxQueued = 2
    Buttons = {1, 2}
    Keys = {}
    Places = {0, 1}
    Inputs = {"mouse", "touch", "resize"}
    Calls = {"wait_sync"}
    MaxInputs = 4
    Scenarios = {"pointer"}
PROPERTY
    ReleaseHasPress
