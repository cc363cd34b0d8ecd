SPECIFICATION Spec
CONSTANTS
    Loads <- AnyLoads
    Distances <- AllJumps
    DistancesBig <- NearJumps
INVARIANTS ExitCorrect ChainEffective SurroundingsIntact
