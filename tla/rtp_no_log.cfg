\* Without debug logging nothing counts the attempts; both ACK|FIN are lost.
SPECIFICATION FairSpec
CONSTANTS
    SEQMOD = 8
    FSIZE = 3
    PAYLOAD_MAX = 2
    SWSIZE = 2
    RWSIZE = 2
    SR = TRUE
    LDEBUG = FALSE
    SEND_TR = 2
    FaultKinds = {"loss"}
    MaxFaults = 2
    MaxCopies = 1
    Timely = TRUE
PROPERTIES
    HandshakesEnd
