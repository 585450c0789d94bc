SPECIFICATION Spec
CONSTANTS
    Client = client
    Server = server
    Isn <- MCIsn
    Settings <- FinSettings
    SeqSpace = 16
    SizeMod = 64
    MAX_PAYLOAD_SIZE = 1
    MaxWindow = 2
    RT_TIMEOUT = 1
    LingerTime = 0
    MAX_RETX_ATTEMPTS = 1
    SendCapacity = 2
    RecvCapacity = 2
INVARIANTS
    AckedIsReceived
CHECK_DEADLOCK FALSE
