\* Selective repeat, logging on, four chunks: the data phase and the handshakes
\* end, whatever three faults there are, unless a bit error cuts the transfer off.
SPECIFICATION FairSpec
CONSTANTS
    SEQMOD = 8
    FSIZE = 7
    PAYLOAD_MAX = 2
    SWSIZE = 2
    RWSIZE = 2
    SR = TRUE
    LDEBUG = TRUE
    SEND_TR = 2
    FaultKinds = {"loss", "dup", "corrupt", "flip", "file", "kill"}
    MaxFaults = 3
    MaxCopies = 2
    Timely = TRUE
INVARIANTS
    DataIsAcknowledged
PROPERTIES
    DataGetsThrough
    HandshakesEnd
