CONSTANTS
    N = 2
    MaxRetries = 10
    Setups <- OneMangled
SPECIFICATION FairSpec
CHECK_DEADLOCK FALSE
PROPERTY PortIsSent
