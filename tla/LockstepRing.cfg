CONSTANTS
    N = 2
    MinRunAhead = 1
    MaxRunAhead = 1
    InitialRunAhead = 1
    FramesToKeep = 2
    FrameDataLength = 7
    Leavers = {1}
    MaxFrame = 8
    MaxCommands <- OneEach
SPECIFICATION Spec
CHECK_DEADLOCK FALSE
INVARIANTS
    TypeOK
    NoOverrun
    RingIsFresh
    KeptForLaggards
