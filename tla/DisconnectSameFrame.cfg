CONSTANTS
    N = 3
    MinRunAhead = 1
    MaxRunAhead = 1
    InitialRunAhead = 1
    FramesToKeep = 1
    FrameDataLength = 7
    Leavers = {}
    MaxFrame = 4
    MaxCommands <- OneFromRouter
    FirstFrame = 2
    Crashers = {0}
    CrashBy = 2
    Voters = {}
    FrameModulus = 256
SPECIFICATION DSpec
CHECK_DEADLOCK FALSE
INVARIANT RemovedOnSameFrame
