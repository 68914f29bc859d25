SPECIFICATION FairSpec
CONSTANTS
    Cases = {c1}
    NotesOf <- MCNoNotes
    Workers = {w1, w2}
    LimitsSet <- MCTightenedLimits
    Amounts <- MCOneAmount
    Categories <- MCOneCategory
    FaultKinds = {"redelivered"}
    MaxFaults = 1
PROPERTIES
    EligibleIsDecided
    ApprovedActionSettles
