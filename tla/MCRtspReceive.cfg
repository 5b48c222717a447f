CONSTANTS
    Size = 10
    Shapes <- SomeShapes
    MaxRequests = 3
SPECIFICATION FairSpec
INVARIANTS
    TypeOK
    Framed
    NothingDropped
PROPERTIES Answered
CHECK_DEADLOCK FALSE
