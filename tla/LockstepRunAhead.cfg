CONSTANTS
    N = 2
    MinRunAhead = 1
    MaxRunAhead = 3
    InitialRunAhead = 3
    FramesToKeep = 4
    FrameDataLength = 13
    Leavers = {}
    MaxFrame = 5
    MaxCommands <- TwoFromRouter
SPECIFICATION Spec
CHECK_DEADLOCK FALSE
INVARIANTS
    NoDesync
    AnnouncedCountIsFinal
    SettingsAgree
