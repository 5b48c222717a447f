\* rough peers on three connections: they SETUP again, before or while they
\* play, and cut lines short; sockets may fail to open
CONSTANTS
    Conns = {c1, c2, c3}
    Objs = {o1, o2, o3}
    NoClient = NoClient
    Requests <- AllLines
    Repeats = {"SETUP"}
    UdpFails = TRUE
SPECIFICATION Spec
INVARIANTS
    TypeOK
    IInv
    NoUseAfterFree
    VisitIsCurrent
    OnlyPlayIsOnTheList
SYMMETRY Symmetry
CHECK_DEADLOCK FALSE
