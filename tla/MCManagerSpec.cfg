CONSTANTS
    Conn = {c1, c2, c3, c4}
    Null = Null
    Port = {2, 3}
    MaxCounter = 3
    Decimal <- BinaryDigits
SPECIFICATION Spec
INVARIANTS
    RegistryExact
PROPERTY ImplementsRegistry
SYMMETRY ConnSymmetry
