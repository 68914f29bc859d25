SPECIFICATION FairSpec
CONSTANTS
    Events <- MCTwoEvents
    Dispatchers = {d1}
    BatchSize = 1
    MaxAttempts = 2
    MaxCrashes = 0
PROPERTIES
    WorkIsOnlyDelayed
