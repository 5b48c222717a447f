\* finding: the encoder may wait for ever for a reader that has stopped
CONSTANTS
    NBlocks = 2
    Parts = 2
    Frames = 5
    SourceFails = FALSE
SPECIFICATION FairSpec
PROPERTIES ShutdownCompletes
CHECK_DEADLOCK FALSE
