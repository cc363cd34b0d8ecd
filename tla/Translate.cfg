SPECIFICATION Spec
CONSTANTS
    Cases <- MCCases
    Address <- MCAddress
    MemoryBase <- MCBase
INVARIANTS
    TypeOK
    ManualResult
    Translates
    WellFormed
    ValuesDominateUses
    SuitsElimination
CHECK_DEADLOCK FALSE
