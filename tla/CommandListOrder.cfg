SPECIFICATION Spec
CONSTANTS
    Messages <- Mixed
    MaxLength = 7
INVARIANTS
    TypeOK
    NothingLost
PROPERTIES
    OrderIsCanonical
