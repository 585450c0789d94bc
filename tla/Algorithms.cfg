SPECIFICATION AlgorithmsSpec
CONSTANTS
    SeqSpace = 8
    MaxCheckpoint = 24
    AddressBits = 2
    MaxRoutes = 3
    Bytes = {1, 255}
    MaxPiece = 3
    MaxPieces = 3
INVARIANTS UnwrapIsClosest TakesLongestMatch ChecksumOfPieces RemovesThePrefix
CHECK_DEADLOCK FALSE
