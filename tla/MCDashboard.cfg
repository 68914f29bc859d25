SPECIFICATION DashboardSpec
CONSTANTS
    Cases = {c1}
    NotesOf <- MCNoNotes
    Workers = {w1, w2}
    LimitsSet <- MCLimits
    Amounts <- MCAmounts
    Categories <- MCCategories
    FaultKinds = {}
    MaxFaults = 0
    Limit = 1
    Offsets = {0, 1}
    Filters = {"all", "RECOVERED"}
INVARIANTS
    DetailExplains
    MetricsAddUp
    PageIsFull
PROPERTIES
    FiguresNeverShrink
CHECK_DEADLOCK FALSE
