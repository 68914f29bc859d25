SPECIFICATION Spec
CONSTANTS
    Cases <- MCLinkCases
    NotesOf <- MCLinkNotes
    Workers = {w1, w2}
    LimitsSet <- MCLimits
    Amounts <- MCAmounts
    Categories <- MCCategories
    FaultKinds = {"redelivered", "abandoned"}
    MaxFaults = 2
INVARIANTS
    TypeOK
    EffectivelyOnce
    NoHalfProcessedCase
    CaseAgreesWithAction
    CapturedPaymentClosesCase
    AuditMatchesRows
    WorkIsCarried
    NoLockCycle
PROPERTIES
    ClosedStaysClosed
    ImplementsLifecycle
CONSTRAINT MCConstraint
SYMMETRY MCSymmetry
