SPECIFICATION Spec
CONSTANTS
    LimitsSet <- MCLimits
    Amounts <- MCAmounts
    Counts <- MCCounts
INVARIANTS
    TypeOK
    DecisionSurvivesClaim
    HighValueNeedsHuman
    WaitIsHonoured
    AgentFailureIsNeutral
