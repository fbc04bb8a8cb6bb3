CONSTANTS
    N = 3
    MinRunAhead = 1
    MaxRunAhead = 1
    InitialRunAhead = 1
    FramesToKeep = 1
    FrameDataLength = 7
    Leavers = {}
    MaxFrame = 3
    MaxCommands <- OneFromRouter
    FirstFrame = 2
    Crashers = {0}
    CrashBy = 2
    Voters = {1, 2}
    FrameModulus = 256
SPECIFICATION DFairSpec
CHECK_DEADLOCK FALSE
INVARIANT DTypeOK
INVARIANT OneRemover
INVARIANT DifferOnlyByTheLost
INVARIANT NoOverrun
INVARIANT NobodyLeftBehind
PROPERTY SurvivorsContinue
