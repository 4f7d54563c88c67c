CONSTANTS
    a = a
    b = b
    Nicks = {a, b}
    Asks <- EveryKind
    Online <- Everybody
    Talks = {}
    MaxRequests = 4
    MaxWire = 4
SPECIFICATION FairSpec
INVARIANTS
    Lockstep
PROPERTIES
    Answered
    AllReported
