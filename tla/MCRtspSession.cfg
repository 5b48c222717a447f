CONSTANTS
    MaxTransports = 2
    MaxHeaders = 2
    Specs <- ShortSpecs
SPECIFICATION Spec
INVARIANTS
    TypeOK
    SetupComesFirst
    SetupIsFair
PROPERTIES
    RefusalIsHarmless
    EndsOnRequest
CHECK_DEADLOCK FALSE
