\* finding: a PLAY while playing pushes the client's node a second time
CONSTANTS
    Conns = {c1, c2}
    Objs = {o1, o2}
    NoClient = NoClient
    Requests <- FullLines
    Repeats = {"PLAY"}
    UdpFails = FALSE
SPECIFICATION FairSpec
PROPERTIES CommandsComplete
CHECK_DEADLOCK FALSE
