\* the CLI of the UART and one over telnet
CONSTANTS
    Clis = {uart, telnet}
SPECIFICATION FairSpec
INVARIANTS
    TypeOK
    ThreadsUseLive
    
PROPERTIES ServerComesUp
CHECK_DEADLOCK FALSE
