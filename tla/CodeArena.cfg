SPECIFICATION ArenaSpec
CONSTANTS
    ArenaSize = 160
    Emits <- AnyEmits
    MaxCode = 170
INVARIANTS FinishedCodeIntact CodeDisjoint
