\* Selective repeat: four chunks, windows of 3 and 2, any two faults, timeouts at any moment.
SPECIFICATION Spec
CONSTANTS
    SEQMOD = 8
    FSIZE = 7
    PAYLOAD_MAX = 2
    SWSIZE = 3
    RWSIZE = 2
    SR = TRUE
    LDEBUG = FALSE
    SEND_TR = 2
    FaultKinds = {"loss", "dup", "corrupt", "flip", "file", "kill"}
    MaxFaults = 2
    MaxCopies = 1
    Timely = FALSE
INVARIANTS
    TypeOK
    IInv
    EndMeansDelivered
    ConfirmedIsStored
    StoredInPlace
PROPERTIES
    NeverUndone
    ImplementsTransfer
