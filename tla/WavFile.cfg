\* recordings of up to four blocks less one byte, ending within a block and
\* on its boundary; the longest does not fit the header's sizes
CONSTANTS
    Kinds = {"wav", "raw"}
    WriteSizes = {1, 4, 6}
    MaxBody = 15
    MaxOpens = 2
    BlockBytes = 4
    Wrap = 50
SPECIFICATION FairSpec
INVARIANTS
    TypeOK
    HeaderIsHonest
PROPERTIES
    PlaysBack
    CopiesAll
CHECK_DEADLOCK FALSE
