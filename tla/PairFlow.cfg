SPECIFICATION Spec
CONSTANTS
    Client = client
    Server = server
    Isn <- MCIsn
    Settings <- FlowSettings
    SeqSpace = 16
    SizeMod = 64
    MAX_PAYLOAD_SIZE = 2
    MaxWindow = 2
    RT_TIMEOUT = 1
    LingerTime = 0
    MAX_RETX_ATTEMPTS = 1
    SendCapacity = 4
    RecvCapacity = 2
INVARIANTS
    WithinCapacity
CHECK_DEADLOCK FALSE
