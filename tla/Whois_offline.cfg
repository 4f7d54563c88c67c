CONSTANTS
    a = a
    b = b
    Nicks = {a, b}
    Asks <- EveryKind
    Online <- Anybody
    Talks = {a}
    MaxRequests = 3
    MaxWire = 3
SPECIFICATION Spec
INVARIANTS
    TypeOK
    InOrder
