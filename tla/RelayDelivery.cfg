SPECIFICATION FairSpec
CONSTANTS
    N = 3
    MaxFrame = 1
    MaxFaults = 1
    Scripts <- OneLeaves
INVARIANTS
    TypeOK
    KeptForWhoNeedsIt
    PendingUntilAllHaveIt
PROPERTIES
    EverybodyFinishes
    QueuesDrain
CHECK_DEADLOCK FALSE
