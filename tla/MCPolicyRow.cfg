SPECIFICATION FairSpec
CONSTANTS
    Tasks = {w1, w2, w3}
    MaxFaults = 2
INVARIANTS
    TypeOK
    LoserFindsRow
    OneRowForAll
    LosingKeepsTheDecision
PROPERTIES
    EveryTaskEnds
CHECK_DEADLOCK FALSE
