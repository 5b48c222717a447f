\* two connections, polite peers: no PLAY while playing, one SETUP each
CONSTANTS
    Conns = {c1, c2}
    Objs = {o1, o2}
    NoClient = NoClient
    Requests <- FullLines
    Repeats = {}
    UdpFails = FALSE
SPECIFICATION FairSpec
INVARIANTS
    PlayIsOnTheList
    NoLeak
    NoAssertFails
PROPERTIES
    CommandsComplete
    EndedIsDeleted
    ImplementsMulticast
CHECK_DEADLOCK FALSE
