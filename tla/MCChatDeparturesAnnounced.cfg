CONSTANTS
    Conn = {c1, c2}
    Null = Null
    Port = {2}
    MaxCounter = 1
    Decimal <- BinaryDigits
    MaxMessages = 1
    ServerVersion = "auto"
SPECIFICATION ChatSpec
INVARIANT DeparturesAnnounced
CHECK_DEADLOCK FALSE
