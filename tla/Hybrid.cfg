SPECIFICATION FairSpec
CONSTANTS
    PCs <- HybridPCs
    Entry = 15
    Kind <- HybridKind
    Taken <- HybridTaken
    NextPc <- HybridNext
    Dyn <- HybridDyn
    Threads = {m, w}
    Main = m
    MaxDepth = 3
    None = None
    StaticFns <- HybridStatic
    Chunk <- HybridChunk
    Tx = {1, 2, 3, 4, 5, 6, 7, 8}
    HostChains = TRUE
    TooFar <- FarSeven
INVARIANTS TypeOK StackCorrespondence OneTranslationPerPc ChainSound
PROPERTIES GuestRefined LockReleased PatchesStable
