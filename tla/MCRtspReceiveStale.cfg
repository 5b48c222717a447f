\* finding: what an earlier request left behind completes a piece of the next
CONSTANTS
    Size = 10
    Shapes <- SomeShapes
    MaxRequests = 2
SPECIFICATION FairSpec
INVARIANTS CompleteMessages
CHECK_DEADLOCK FALSE
