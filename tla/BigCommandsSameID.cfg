SPECIFICATION Spec
CONSTANTS
    Commands <- SameID
    MaxPacketSize = 3
    WrapperSize = 1
INVARIANTS
    Integrity
\* With nothing sent and every connection closed nothing is left to happen.
CHECK_DEADLOCK FALSE
