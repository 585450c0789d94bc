SPECIFICATION Spec
CONSTANTS
    SeqSpace = 20
    MAX_PAYLOAD_SIZE = 2
    RT_TIMEOUT = 1
    ISN = 17
    SendCapacity = 4
    MAX_RETX_ATTEMPTS = 1
    MaxStream = 5
    MaxWindow = 5
    TickSizes = {1}
INVARIANTS
    TypeOK
    TimerTracksFlight
    UnackedTiles
    SequenceSpaceAccounted
    SegmentsCarryTheirBytes
    FlightBounded
    ClosedFormIsTheLoop
PROPERTIES
    SendsWithinWindow
    SendsNewOrOldest
    BackoffMatchesRetries
    FillsTheWindow
CHECK_DEADLOCK FALSE
