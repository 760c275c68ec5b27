SPECIFICATION MCSpec
CONSTANT
    Scenarios = {"web", "android", "opening"}
PROPERTIES
    CallsReturn
    CloseLeadsToExit
CHECK_DEADLOCK FALSE
