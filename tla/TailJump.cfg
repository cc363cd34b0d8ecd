SPECIFICATION Spec
CONSTANTS
    PCs <- TailJumpPCs
    Entry = 1
    Kind <- TailJumpKind
    Taken <- TailJumpTaken
    NextPc <- TailJumpNext
    Dyn <- TailJumpDyn
    Threads = {m}
    Main = m
    MaxDepth = 1
    None = None
    StaticFns <- TailJumpStatic
    Chunk <- TailJumpChunk
    Tx = {1, 2, 3}
    HostChains = TRUE
    TooFar <- Near
INVARIANTS ChainSound
