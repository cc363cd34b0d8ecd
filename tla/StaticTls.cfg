SPECIFICATION Spec
CONSTANTS
    App = app
    Libs = {l1, l2}
    Segments <- SmallSegments
    DescSize = 24
    DescAlign = 8
    Word = 8
    Blocks = {1024, 1040}
INVARIANTS SegmentsDisjoint SegmentsAligned DtvFindsModule
