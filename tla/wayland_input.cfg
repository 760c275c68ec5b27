SPECIFICATION MCSpec
CONSTANTS
    Settings <- AllSettings
    Delay = 2
    Interval = 2
    MaxTime = 6
    MaxSequence = 2
    MaxTyped = 6
INVARIANTS KeysAgree TextAgrees PointerAgrees
PROPERTIES LeaveComesLast RepeatsArePaced
CHECK_DEADLOCK FALSE
