\* Go-back-N, windows of 3 and 1: three faults on the network, bit errors of
\* every kind among them.
SPECIFICATION FairSpec
CONSTANTS
    SEQMOD = 10
    FSIZE = 7
    PAYLOAD_MAX = 2
    SWSIZE = 3
    RWSIZE = 1
    SR = FALSE
    LDEBUG = FALSE
    SEND_TR = 2
    FaultKinds = {"loss", "dup", "corrupt", "flip"}
    MaxFaults = 3
    MaxCopies = 2
    Timely = TRUE
PROPERTIES
    DataGetsThrough
    BothExit
