\* Go-back-N: three chunks, windows of 2 and 1, any two faults, timeouts at any moment.
SPECIFICATION Spec
CONSTANTS
    SEQMOD = 8
    FSIZE = 5
    PAYLOAD_MAX = 2
    SWSIZE = 2
    RWSIZE = 1
    SR = FALSE
    LDEBUG = FALSE
    SEND_TR = 2
    FaultKinds = {"loss", "dup", "corrupt", "flip", "file", "kill"}
    MaxFaults = 2
    MaxCopies = 1
    Timely = FALSE
INVARIANTS
    IInv
    EndMeansDelivered
    ConfirmedIsStored
PROPERTIES
    NeverUndone
    ImplementsTransfer
