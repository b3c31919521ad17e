\* A file of exactly two full packets, no faults.
SPECIFICATION Spec
CONSTANTS
    SEQMOD = 8
    FSIZE = 4
    PAYLOAD_MAX = 2
    SWSIZE = 2
    RWSIZE = 2
    SR = TRUE
    LDEBUG = FALSE
    SEND_TR = 2
    FaultKinds = {}
    MaxFaults = 0
    MaxCopies = 1
    Timely = TRUE
INVARIANTS
    FilesAgree
