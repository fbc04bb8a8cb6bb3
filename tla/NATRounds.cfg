CONSTANTS
    N = 3
    MaxRetries = 0
    Setups <- MixedSetups
SPECIFICATION FairSpec
CHECK_DEADLOCK FALSE
INVARIANTS
    TypeOK
    DoneWhenHeard
    NoneForgotten
    AllKnowWhere
PROPERTIES
    NobodyHangs
    ConnectsUnlessSkipped
