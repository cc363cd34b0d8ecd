SPECIFICATION Spec
CONSTANTS
    PCs <- RacePCs
    Entry = 1
    Kind <- RaceKind
    Taken <- RaceTaken
    NextPc <- RaceNext
    Dyn <- RaceDyn
    Threads = {m, w}
    Main = m
    MaxDepth = 0
    None = None
    StaticFns <- NoStatic
    Chunk <- NoChunk
    Tx = {1, 2, 3, 4}
    HostChains = TRUE
    TooFar <- Near
INVARIANTS ChainSound
