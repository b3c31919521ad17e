\* One packet arrives with bit errors in its flags.
SPECIFICATION Spec
CONSTANTS
    SEQMOD = 8
    FSIZE = 5
    PAYLOAD_MAX = 2
    SWSIZE = 2
    RWSIZE = 2
    SR = TRUE
    LDEBUG = FALSE
    SEND_TR = 2
    FaultKinds = {"flip"}
    MaxFaults = 1
    MaxCopies = 1
    Timely = TRUE
INVARIANTS
    NeverCutShort
