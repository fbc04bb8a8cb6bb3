CONSTANTS
    N = 3
    MinRunAhead = 1
    MaxRunAhead = 1
    InitialRunAhead = 1
    FramesToKeep = 2
    FrameDataLength = 7
    Leavers = {1}
    MaxFrame = 4
    MaxCommands <- NoCommands
SPECIFICATION FairSpec
CHECK_DEADLOCK FALSE
PROPERTY Progress
