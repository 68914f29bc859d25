SPECIFICATION FairSpec
CONSTANTS
    MaxMessages = 3
    MaxRetries = 5
    MaxFaults = 1
INVARIANTS
    TypeOK
    NeverDropped
    GivenUpOnlyAfterBackoff
PROPERTIES
    TaskEnds
CHECK_DEADLOCK FALSE
