CONSTANTS
    Names = {n1, n2}
    Windows = {w1, w2}
    MaxTimers = 1
    Events = {"unreachable", "windows"}
SPECIFICATION FairSpec
PROPERTIES
    Reconnects
