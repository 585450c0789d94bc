SPECIFICATION Spec
CONSTANTS
    Beyond = 9
    Rounds = 8
    MapLife = 3
    ArpWait = 1
    AddressBits = 6
INVARIANT RoutedSuccessfully
CHECK_DEADLOCK FALSE
