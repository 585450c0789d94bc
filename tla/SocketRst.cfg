SPECIFICATION Spec
CONSTANTS
    StdinBytes = 1
    PeerBytes = 1
    PipeSize = 1
    CopyBuffer = 1
    OwnIsn = 14
    PeerIsn = 5
    SendCapacity = 2
    RecvCapacity = 2
    SeqSpace = 16
    SizeMod = 64
    MAX_PAYLOAD_SIZE = 1
    MaxWindow = 2
    RT_TIMEOUT = 2
    LingerTime = 2
    MAX_RETX_ATTEMPTS = 1
INVARIANT DestructionSendsRst
CHECK_DEADLOCK FALSE
