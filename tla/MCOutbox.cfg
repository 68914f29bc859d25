SPECIFICATION FairSpec
CONSTANTS
    Events <- MCEvents
    Dispatchers = {d1, d2}
    BatchSize = 2
    MaxAttempts = 2
    MaxCrashes = 1
INVARIANTS
    TypeOK
    OneMessagePerAttempt
    PublishedWasSent
    NeverEarly
PROPERTIES
    ImplementsMailbox
