SPECIFICATION FairSpec
CONSTANTS
    Client = client
    Server = server
    Isn <- MCIsn
    Settings <- CloseSettings
    SeqSpace = 16
    SizeMod = 64
    MAX_PAYLOAD_SIZE = 1
    MaxWindow = 2
    RT_TIMEOUT = 1
    LingerTime = 2
    MAX_RETX_ATTEMPTS = 1
    SendCapacity = 2
    RecvCapacity = 2
INVARIANTS
    DoneMeansDelivered
    FlowControl
    OfficialButForLinger
PROPERTIES
    ImplementsStreams
    StatesOnlyAdvance
    EventuallyOver
CHECK_DEADLOCK FALSE
