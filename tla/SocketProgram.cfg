SPECIFICATION FairSpec
CONSTANTS
    StdinBytes = 2
    PeerBytes = 1
    PipeSize = 1
    CopyBuffer = 2
    OwnIsn = 14
    PeerIsn = 5
    SendCapacity = 2
    RecvCapacity = 2
    SeqSpace = 16
    SizeMod = 64
    MAX_PAYLOAD_SIZE = 1
    MaxWindow = 2
    RT_TIMEOUT = 2
    LingerTime = 2
    MAX_RETX_ATTEMPTS = 1
INVARIANTS
    CopiedInOrder
    FaultsOnlyAfterReset
    EndsOnlyWhenFinished
PROPERTIES
    ProgramEnds
CHECK_DEADLOCK FALSE
