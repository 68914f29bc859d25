SPECIFICATION Spec
CONSTANTS
    Cases = {c1}
    NotesOf <- MCNoNotes
    Workers = {w1}
    LimitsSet <- MCDefaultLimits
    Amounts <- MCOneAmount
    Categories <- MCOneCategory
    FaultKinds = {}
    MaxFaults = 0
PROPERTIES
    TerminalNeverRegresses
CHECK_DEADLOCK FALSE
