\* A sender that cannot read its file leaves the receiver waiting.
SPECIFICATION FairSpec
CONSTANTS
    SEQMOD = 8
    FSIZE = 3
    PAYLOAD_MAX = 2
    SWSIZE = 2
    RWSIZE = 2
    SR = TRUE
    LDEBUG = FALSE
    SEND_TR = 2
    FaultKinds = {"file"}
    MaxFaults = 1
    MaxCopies = 1
    Timely = TRUE
PROPERTIES
    BreakEnds
