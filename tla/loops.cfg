\* Every window of up to five flags, every index; up to three messages.
SPECIFICATION LoopsSpec
CONSTANTS
    SEQMOD = 8
    MaxWindow = 5
    HEADER_SIZE = 2
    MaxBody = 2
    MaxPosts = 3
    Room = 5
INVARIANTS
    LoopTypeOK
    LoopsComputeUpdate
    BaseIsUnfinished
    FramingTypeOK
    FramingInv
PROPERTIES
    ImplementsChannel
    EverythingArrives
