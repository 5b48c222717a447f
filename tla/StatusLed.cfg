CONSTANTS
    Conns = {c1, c2}
SPECIFICATION FairSpec
INVARIANTS
    TypeOK
    AgreesWithDone
PROPERTIES Settles
