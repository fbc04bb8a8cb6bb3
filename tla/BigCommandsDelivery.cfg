SPECIFICATION FairSpec
CONSTANTS
    Commands <- DifferentIDs
    MaxPacketSize = 3
    WrapperSize = 1
INVARIANTS
    NodesOK
    Integrity
PROPERTIES
    EventuallyDelivered
\* With nothing sent and every connection closed nothing is left to happen.
CHECK_DEADLOCK FALSE
