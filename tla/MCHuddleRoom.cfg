SPECIFICATION Spec
CONSTANTS
    a = a
    b = b
    a1 = a1
    a2 = a2
    b1 = b1
    Participants = {a, b}
    Conns = {a1, a2, b1}
    Owner <- MCOwner
    Cameras = {a1}
    Screens = {b1}
    MaxFaults = 1
INVARIANTS
    ClosedIsEmpty
    NothingLeftToOffer
    NoFrozenTile
CHECK_DEADLOCK FALSE
