CONSTANTS
    a = a
    b = b
    Nicks = {a, b}
    Asks <- EveryKind
    Online <- Anybody
    Talks = {}
    MaxRequests = 3
    MaxWire = 3
SPECIFICATION Spec
PROPERTIES
    AddsToQueue
