SPECIFICATION Spec
CONSTANTS
    Tracked <- OneOfEach
    Values = {0, 1}
    FloatArgs = 2
    MaxFrames = 4
INVARIANTS ArgumentsArrive MemoryCurrent
