SPECIFICATION FairSpec
CONSTANTS
    Client = client
    Server = server
    MaxSends <- MCMaxSends
    CalmSends = 3
    ClientSends = 2
    ServerSends = 1
    MaxTime <- MCMaxTime
    CalmTime = 2
    ClientTime = 2
    ServerTime = 1
    Beyond <- MCBeyond
    Hellos = 1
    MapLife = 1
    ArpWait = 0
    AddressBits = 4
INVARIANTS
    OneCopyOfEach
    AskedUnlessBeyond
PROPERTIES
    Reaches
CHECK_DEADLOCK FALSE
