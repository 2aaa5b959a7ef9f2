CONSTANTS
    Conn = {c1, c2, c3}
    Null = Null
    Port = {2}
    MaxCounter = 2
    Decimal <- BinaryDigits
    MaxMessages = 1
    ServerVersion = "auto"
SPECIFICATION ChatSpec
INVARIANTS
    RosterExact
    EveryoneHears
    EndsAreTold
CHECK_DEADLOCK FALSE
SYMMETRY ConnSymmetry
