CONSTANTS
    N = 3
    MinRunAhead = 1
    MaxRunAhead = 1
    InitialRunAhead = 1
    FramesToKeep = 2
    FrameDataLength = 7
    Leavers = {0}
    MaxFrame = 4
    MaxCommands <- OneFromClient
SPECIFICATION Spec
CHECK_DEADLOCK FALSE
PROPERTY Replication
