CONSTANTS
    Conn = {c1, c2, c3}
    Null = Null
    Port = {1, 3}
    MaxCounter = 2
    Decimal <- BinaryDigits
    MaxMessages = 1
    ServerVersion = "auto"
SPECIFICATION ChatSpec
INVARIANTS
    OrderKept
    WalkEnds
SYMMETRY ConnSymmetry
CHECK_DEADLOCK FALSE
