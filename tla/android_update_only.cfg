SPECIFICATION FairSpec
CONSTANTS
    Sizes = {1}
    FirstSize = 1
    Mouse = {}
    Fingers = {}
    Inputs = {"life"}
    Calls = {"update_ex"}
    MaxQueue = 4
    MaxInputs = 5
PROPERTY
    EventsAreTaken
CHECK_DEADLOCK FALSE
