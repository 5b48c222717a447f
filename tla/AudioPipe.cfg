\* the board's two buffers, each filled by two reads; an encoder on time or
\* late, a source that may fail
CONSTANTS
    NBlocks = 2
    Parts = 2
    Frames = 5
    SourceFails = TRUE
SPECIFICATION FairSpec
INVARIANTS
    TypeOK
    NoTear
    InOrder
PROPERTIES
    AudioFlows
    BusyPipeShutsDown
CHECK_DEADLOCK FALSE
